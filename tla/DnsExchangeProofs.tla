-------------------------- MODULE DnsExchangeProofs --------------------------
(***************************************************************************)
(* Proofs about the DNS query pipeline of DnsExchange: type correctness   *)
(* and that exchange only ever returns an answer to the question asked,  *)
(* for every number of callers, names, addresses and every cache size.   *)
(***************************************************************************)
EXTENDS DnsExchange, SequenceTheorems, TLAPS

-----------------------------------------------------------------------------
(* Lemmas about the sequence operations the LRU is built from.            *)

\* RemoveAt (SequencesExt) drops position i and shifts the rest left.
LEMMA RemoveAtProperties ==
    ASSUME NEW S, NEW s \in Seq(S), NEW i \in 1..Len(s)
    PROVE  /\ RemoveAt(s, i) \in Seq(S)
           /\ Len(RemoveAt(s, i)) = Len(s) - 1
           /\ \A j \in 1..Len(s) - 1 :
                 RemoveAt(s, i)[j] = IF j < i THEN s[j] ELSE s[j + 1]
<1> DEFINE front == SubSeq(s, 1, i - 1)
           back == SubSeq(s, i + 1, Len(s))
<1>0. Len(s) \in Nat
  BY LenProperties
<1>1. /\ front \in Seq(S)
      /\ Len(front) = i - 1
      /\ \A j \in 1..i - 1 : front[j] = s[j]
  BY SubSeqProperties
<1>2. /\ back \in Seq(S)
      /\ Len(back) = Len(s) - i
      /\ \A j \in 1..Len(s) - i : back[j] = s[i + j]
  <2>1. \A j \in i + 1..Len(s) : s[j] \in S
    OBVIOUS
  <2>2. QED
    BY <2>1, SubSeqProperties
<1>3. RemoveAt(s, i) = front \o back
  BY DEF RemoveAt
<1> HIDE DEF front, back
<1>4. /\ front \o back \in Seq(S)
      /\ Len(front \o back) = Len(s) - 1
      /\ \A j \in 1..Len(s) - 1 :
            (front \o back)[j] = IF j <= i - 1 THEN front[j] ELSE back[j - (i - 1)]
  <2>1. /\ front \o back \in Seq(S)
        /\ Len(front \o back) = Len(front) + Len(back)
        /\ \A j \in 1..Len(front) + Len(back) :
              (front \o back)[j] = IF j <= Len(front) THEN front[j]
                                   ELSE back[j - Len(front)]
    <3>1. front \in Seq(S) /\ back \in Seq(S)
      BY <1>1, <1>2
    <3>2. QED
      BY <3>1, ConcatProperties
  <2>2. Len(front) + Len(back) = Len(s) - 1
    <3>1. Len(front) = i - 1
      BY <1>1
    <3>2. Len(back) = Len(s) - i
      BY <1>2
    <3>3. QED
      BY <1>0, <3>1, <3>2
  <2>3. QED
    BY <1>1, <2>1, <2>2
<1>5. \A j \in 1..Len(s) - 1 :
         (front \o back)[j] = IF j < i THEN s[j] ELSE s[j + 1]
  BY <1>1, <1>2, <1>4
<1>6. QED
  BY <1>3, <1>4, <1>5

\* The cache after an insert holds at most CacheCapacity entries, each of
\* them the inserted one or an entry of the cache before.
LEMMA CacheInsertProperties ==
    ASSUME NEW S, NEW c \in Seq(S), Len(c) <= CacheCapacity, NEW e \in S
    PROVE  /\ CacheInsert(c, e) \in Seq(S)
           /\ Len(CacheInsert(c, e)) <= CacheCapacity
           /\ \A j \in 1..Len(CacheInsert(c, e)) :
                 \/ CacheInsert(c, e)[j] = e
                 \/ \E i \in 1..Len(c) : CacheInsert(c, e)[j] = c[i]
<1> USE ConstantsAssumption
<1> DEFINE c0 == CacheRemove(c, e.key)
           c1 == Append(c0, e)
<1>0. Len(c) \in Nat
  BY LenProperties
<1>1. /\ c0 \in Seq(S)
      /\ Len(c0) <= Len(c)
      /\ \A j \in 1..Len(c0) : \E i \in 1..Len(c) : c0[j] = c[i]
  <2>1. CASE CacheHas(c, e.key)
    <3> DEFINE k == CHOOSE i \in 1..Len(c) : c[i].key = e.key
    <3>1. k \in 1..Len(c)
      BY <2>1 DEF CacheHas
    <3>2. c0 = RemoveAt(c, k)
      BY <2>1 DEF CacheRemove
    <3> HIDE DEF c0, k
    <3>3. /\ RemoveAt(c, k) \in Seq(S)
          /\ Len(RemoveAt(c, k)) = Len(c) - 1
          /\ \A j \in 1..Len(c) - 1 :
                RemoveAt(c, k)[j] = IF j < k THEN c[j] ELSE c[j + 1]
      BY <3>1, RemoveAtProperties
    <3>4. ASSUME NEW j \in 1..Len(c0)
          PROVE  \E i \in 1..Len(c) : c0[j] = c[i]
      <4>1. CASE j < k
        <5>1. j \in 1..Len(c) /\ c0[j] = c[j]
          BY <1>0, <3>1, <3>2, <3>3, <4>1
        <5>2. QED
          BY <5>1
      <4>2. CASE ~(j < k)
        <5>0. j \in 1..Len(c) - 1
          BY <1>0, <3>2, <3>3
        <5>1. j + 1 \in 1..Len(c) /\ c0[j] = c[j + 1]
          BY <1>0, <3>1, <3>2, <3>3, <4>2, <5>0
        <5>2. QED
          BY <5>1
      <4>3. QED
        BY <4>1, <4>2
    <3>5. QED
      BY <1>0, <3>2, <3>3, <3>4
  <2>2. CASE ~CacheHas(c, e.key)
    BY <2>2 DEF CacheRemove
  <2>3. QED
    BY <2>1, <2>2
<1>2. /\ c1 \in Seq(S)
      /\ Len(c1) = Len(c0) + 1
      /\ \A j \in 1..Len(c0) : c1[j] = c0[j]
      /\ c1[Len(c0) + 1] = e
  BY <1>1, AppendProperties
<1> HIDE DEF c0, c1
<1>3. Len(c0) \in Nat
  BY <1>1, LenProperties
<1>4. \A j \in 1..Len(c1) : c1[j] = e \/ \E i \in 1..Len(c) : c1[j] = c[i]
  BY <1>1, <1>2, <1>3
<1>5. CASE Len(c1) > CacheCapacity
  <2>1. CacheInsert(c, e) = Tail(c1)
    BY <1>5 DEF CacheInsert, c0, c1
  <2>2. /\ Tail(c1) \in Seq(S)
        /\ Len(Tail(c1)) = Len(c1) - 1
        /\ \A j \in 1..Len(Tail(c1)) : Tail(c1)[j] = c1[j + 1]
    BY <1>2, HeadTailProperties
  <2>3. QED
    BY <1>0, <1>1, <1>2, <1>3, <1>4, <2>1, <2>2
<1>6. CASE ~(Len(c1) > CacheCapacity)
  <2>1. CacheInsert(c, e) = c1
    BY <1>6 DEF CacheInsert, c0, c1
  <2>2. QED
    BY <1>2, <1>4, <1>6, <2>1
<1>7. QED
  BY <1>5, <1>6

-----------------------------------------------------------------------------
(* Lemmas about the helpers of the pipeline.                               *)

\* A cache hit returns the answer of an entry stored under the key.
LEMMA CacheGetProperties ==
    ASSUME NEW S, NEW c \in Seq(S), NEW k, CacheHas(c, k)
    PROVE  \E i \in 1..Len(c) : c[i].key = k /\ CacheGet(c, k) = c[i].ans
BY DEF CacheHas, CacheGet

\* A batch either fails or answers the message it was sent.
LEMMA OutcomesProperties ==
    ASSUME NEW m \in Messages, NEW p \in Pools, NEW out \in Outcomes(m, p)
    PROVE  \/ out = Failed
           \/ out \in Answers /\ out.msg = m
BY DEF Outcomes, Answers

-----------------------------------------------------------------------------
(* Type correctness.  TypeOK alone is not inductive: the cache write      *)
(* stores rv[r], which TypeOK only knows to be an answer or an error.    *)

TypeInv ==
    /\ TypeOK
    /\ \A r \in Requests : pc[r] = "cache_write" => rv[r] \in Answers

LEMMA TypeInvInit == Init => TypeInv
<1> USE ConstantsAssumption
<1>1. SUFFICES ASSUME Init PROVE TypeInv
  OBVIOUS
<1>2. Messages # {}
  <2>1. PICK n \in Names : TRUE
    BY ConstantsAssumption
  <2>2. PICK t \in QTypes : TRUE
    BY ConstantsAssumption
  <2>3. PICK k \in QCounts : TRUE
    BY ConstantsAssumption
  <2>4. [q |-> [name |-> n, qtype |-> t], qcount |-> k] \in [q : Questions, qcount : QCounts]
    BY <2>1, <2>2, <2>3 DEF Questions
  <2>5. (CHOOSE q \in Questions : TRUE) \in Questions
    BY <2>4 DEF Questions
  <2>6. [q |-> CHOOSE q \in Questions : TRUE, qcount |-> k] \in Messages
    BY <2>3, <2>5 DEF Messages
  <2>7. QED
    BY <2>6
<1>3. QED
  BY <1>1, <1>2 DEF Init, TypeInv, TypeOK, Errors

LEMMA TypeInvStep == TypeInv /\ [Next]_vars => TypeInv'
<1> USE ConstantsAssumption
<1> SUFFICES ASSUME TypeInv, [Next]_vars PROVE TypeInv'
  OBVIOUS
<1>1. ASSUME NEW r \in Requests, NEW m \in Messages, Exchange(r, m)
      PROVE  TypeInv'
  <2> USE DEF TypeInv, TypeOK
  <2>1. /\ msg' \in [Requests -> Messages]
        /\ mainAns' \in [Requests -> Errors \cup Answers]
        /\ UNCHANGED <<rv, cache>>
    BY <1>1 DEF Exchange, Errors
  <2>2. CASE m.qcount = 0 /\ result' = [result EXCEPT ![r] = InvalidQuery]
             /\ race' = [race EXCEPT ![r] = FALSE] /\ UNCHANGED <<pc, pending>>
    BY <2>1, <2>2 DEF Errors
  <2>3. CASE /\ m.qcount > 0
             /\ CacheHas(cache, Fingerprint(m.q))
             /\ result' = [result EXCEPT ![r] = CacheGet(cache, Fingerprint(m.q))]
             /\ race' = [race EXCEPT ![r] = FALSE]
             /\ UNCHANGED <<pc, pending>>
    <3>1. PICK i \in 1..Len(cache) :
             cache[i].key = Fingerprint(m.q)
             /\ CacheGet(cache, Fingerprint(m.q)) = cache[i].ans
      BY <2>3, CacheGetProperties
    <3>2. cache[i] \in Entries
      BY <3>1, ElementOfSeq
    <3>3. CacheGet(cache, Fingerprint(m.q)) \in Answers
      BY <3>1, <3>2 DEF Entries
    <3>4. QED
      BY <2>1, <2>3, <3>3
  <2>4. CASE /\ m.qcount > 0
             /\ ~CacheHas(cache, Fingerprint(m.q))
             /\ pc' = [pc EXCEPT ![r] = "batch"]
             /\ pending' = [pending EXCEPT ![r] = {FirstPool(m)}]
             /\ race' = [race EXCEPT ![r] = RaceCase(m)]
             /\ result' = [result EXCEPT ![r] = NoResult]
    <3>1. FirstPool(m) \in Pools
      BY DEF FirstPool, Pools
    <3>2. RaceCase(m) \in BOOLEAN
      BY DEF RaceCase
    <3>3. QED
      BY <2>1, <2>4, <3>1, <3>2 DEF Errors
  <2>5. QED
    BY <1>1, <2>2, <2>3, <2>4 DEF Exchange
<1>2. ASSUME NEW r \in Requests, Reply(r)
      PROVE  TypeInv'
  <2>1. PICK p \in pending[r] : \E out \in Outcomes(msg[r], p) :
            IF race[r] /\ p = "main"
            THEN /\ mainAns' = [mainAns EXCEPT ![r] = out]
                 /\ IF MainAccepted(out)
                    THEN Finish(r, out)
                    ELSE /\ pending' = [pending EXCEPT ![r] = {"fallback"}]
                         /\ UNCHANGED <<pc, rv, result>>
            ELSE /\ Finish(r, out)
                 /\ UNCHANGED mainAns
    BY <1>2 DEF Reply
  <2>2. PICK out \in Outcomes(msg[r], p) :
            IF race[r] /\ p = "main"
            THEN /\ mainAns' = [mainAns EXCEPT ![r] = out]
                 /\ IF MainAccepted(out)
                    THEN Finish(r, out)
                    ELSE /\ pending' = [pending EXCEPT ![r] = {"fallback"}]
                         /\ UNCHANGED <<pc, rv, result>>
            ELSE /\ Finish(r, out)
                 /\ UNCHANGED mainAns
    BY <2>1
  <2>3. p \in Pools /\ msg[r] \in Messages
    BY DEF TypeInv, TypeOK
  <2>4. out = Failed \/ out \in Answers
    BY <2>3, OutcomesProperties
  <2>5. out \in Errors \cup Answers
    BY <2>4 DEF Errors
  <2>6. Finish(r, out) => TypeInv'
    BY <1>2, <2>4, <2>5 DEF Finish, Reply, TypeInv, TypeOK, IsAnswer, Errors
  <2>7. QED
    BY <1>2, <2>2, <2>5, <2>6 DEF Reply, TypeInv, TypeOK, Pools
<1>3. ASSUME NEW r \in Requests, CacheWrite(r)
      PROVE  TypeInv'
  <2>1. [key |-> Fingerprint(msg[r].q), ans |-> rv[r]] \in Entries
    BY <1>3 DEF CacheWrite, TypeInv, TypeOK, Entries, Fingerprint, Messages
  <2>2. /\ cache' \in Seq(Entries)
        /\ Len(cache') <= CacheCapacity
    BY <1>3, <2>1, CacheInsertProperties DEF CacheWrite, TypeInv, TypeOK
  <2>3. QED
    BY <1>3, <2>2 DEF CacheWrite, TypeInv, TypeOK, Errors
<1>4. CASE Expire
  <2>1. /\ cache' \in Seq(Entries)
        /\ Len(cache') = Len(cache) - 1
    BY <1>4, HeadTailProperties DEF Expire, TypeInv, TypeOK
  <2>2. QED
    BY <1>4, <2>1 DEF Expire, TypeInv, TypeOK
<1>5. CASE UNCHANGED vars
  BY <1>5 DEF vars, TypeInv, TypeOK
<1>6. QED
  BY <1>1, <1>2, <1>3, <1>4, <1>5 DEF Next

\* Type correctness of the pipeline.
THEOREM TypeCorrect == Spec => []TypeOK
<1>1. Spec => []TypeInv
  BY TypeInvInit, TypeInvStep, PTL DEF Spec
<1>2. QED
  BY <1>1, PTL DEF TypeInv

-----------------------------------------------------------------------------
(* Answers fit their questions.  AnswerFitsQuestion speaks only of what  *)
(* callers got back; it is inductive together with the same fact about   *)
(* every cache entry (its answer was produced for its key) and about the *)
(* answer a task is about to insert (it was produced for the task's own  *)
(* question).                                                             *)

CacheFits == \A i \in 1..Len(cache) : cache[i].ans.msg.q = cache[i].key

RvFits == \A r \in Requests : pc[r] = "cache_write" => rv[r].msg.q = msg[r].q

FitsInv == TypeInv /\ CacheFits /\ RvFits /\ AnswerFitsQuestion

\* Inserting an entry whose answer fits its key keeps every entry fitting.
LEMMA CacheInsertFits ==
    ASSUME NEW c \in Seq(Entries), Len(c) <= CacheCapacity,
           NEW e \in Entries, e.ans.msg.q = e.key,
           \A i \in 1..Len(c) : c[i].ans.msg.q = c[i].key
    PROVE  \A j \in 1..Len(CacheInsert(c, e)) :
              CacheInsert(c, e)[j].ans.msg.q = CacheInsert(c, e)[j].key
<1> DEFINE c1 == CacheInsert(c, e)
<1>1. \A j \in 1..Len(c1) : c1[j] = e \/ \E i \in 1..Len(c) : c1[j] = c[i]
  BY CacheInsertProperties
<1>2. QED
  BY <1>1

LEMMA FitsInvInit == Init => FitsInv
<1> SUFFICES ASSUME Init PROVE FitsInv
  OBVIOUS
<1>1. TypeInv
  BY TypeInvInit
<1>2. CacheFits /\ RvFits
  BY DEF Init, CacheFits, RvFits
<1>3. AnswerFitsQuestion
  BY ConstantsAssumption DEF Init, AnswerFitsQuestion, IsAnswer, Errors
<1>4. QED
  BY <1>1, <1>2, <1>3 DEF FitsInv

LEMMA FitsInvStep == FitsInv /\ [Next]_vars => FitsInv'
<1> SUFFICES ASSUME FitsInv, [Next]_vars PROVE FitsInv'
  OBVIOUS
<1>0. TypeInv'
  BY TypeInvStep DEF FitsInv
<1> USE DEF FitsInv, TypeInv, TypeOK
<1>1. ASSUME NEW r \in Requests, NEW m \in Messages, Exchange(r, m)
      PROVE  FitsInv'
  <2>1. /\ msg' = [msg EXCEPT ![r] = m]
        /\ UNCHANGED <<rv, cache>>
        /\ pc[r] = "idle"
    BY <1>1 DEF Exchange
  <2>2. CacheFits' /\ RvFits'
    <3>1. pc' = pc \/ pc' = [pc EXCEPT ![r] = "batch"]
      BY <1>1 DEF Exchange
    <3>2. QED
      BY <2>1, <3>1 DEF CacheFits, RvFits
  <2>3. AnswerFitsQuestion'
    <3>1. CASE m.qcount = 0 /\ result' = [result EXCEPT ![r] = InvalidQuery]
               /\ UNCHANGED pc
      BY <2>1, <3>1 DEF AnswerFitsQuestion, IsAnswer, Errors
    <3>2. CASE /\ CacheHas(cache, Fingerprint(m.q))
               /\ result' = [result EXCEPT ![r] = CacheGet(cache, Fingerprint(m.q))]
               /\ UNCHANGED pc
      <4>1. PICK i \in 1..Len(cache) :
               cache[i].key = Fingerprint(m.q)
               /\ CacheGet(cache, Fingerprint(m.q)) = cache[i].ans
        BY <3>2, CacheGetProperties
      <4>2. CacheGet(cache, Fingerprint(m.q)).msg.q = m.q
        BY <4>1 DEF CacheFits, Fingerprint
      <4>3. QED
        BY <2>1, <3>2, <4>2 DEF AnswerFitsQuestion
    <3>3. CASE pc' = [pc EXCEPT ![r] = "batch"] /\ UNCHANGED result
      BY <2>1, <3>3 DEF AnswerFitsQuestion
    <3>4. CASE pc' = [pc EXCEPT ![r] = "batch"]
               /\ result' = [result EXCEPT ![r] = NoResult]
      BY <2>1, <3>4 DEF AnswerFitsQuestion
    <3>5. QED
      BY <1>1, <3>1, <3>2, <3>4 DEF Exchange
  <2>4. QED
    BY <1>0, <2>2, <2>3
<1>2. ASSUME NEW r \in Requests, Reply(r)
      PROVE  FitsInv'
  <2>1. PICK p \in pending[r] : \E out \in Outcomes(msg[r], p) :
            IF race[r] /\ p = "main"
            THEN /\ mainAns' = [mainAns EXCEPT ![r] = out]
                 /\ IF MainAccepted(out)
                    THEN Finish(r, out)
                    ELSE /\ pending' = [pending EXCEPT ![r] = {"fallback"}]
                         /\ UNCHANGED <<pc, rv, result>>
            ELSE /\ Finish(r, out)
                 /\ UNCHANGED mainAns
    BY <1>2 DEF Reply
  <2>2. PICK out \in Outcomes(msg[r], p) :
            IF race[r] /\ p = "main"
            THEN /\ mainAns' = [mainAns EXCEPT ![r] = out]
                 /\ IF MainAccepted(out)
                    THEN Finish(r, out)
                    ELSE /\ pending' = [pending EXCEPT ![r] = {"fallback"}]
                         /\ UNCHANGED <<pc, rv, result>>
            ELSE /\ Finish(r, out)
                 /\ UNCHANGED mainAns
    BY <2>1
  <2>3. out = Failed \/ (out \in Answers /\ out.msg = msg[r])
    BY OutcomesProperties
  <2>4. UNCHANGED <<msg, cache>> /\ pc[r] = "batch"
    BY <1>2 DEF Reply
  <2>5. Finish(r, out) => (CacheFits /\ RvFits /\ AnswerFitsQuestion)'
    BY <2>3, <2>4 DEF Finish, CacheFits, RvFits, AnswerFitsQuestion, IsAnswer, Errors
  <2>6. (UNCHANGED <<pc, rv, result>>) => (CacheFits /\ RvFits /\ AnswerFitsQuestion)'
    BY <2>4 DEF CacheFits, RvFits, AnswerFitsQuestion
  <2>7. QED
    BY <1>0, <2>2, <2>5, <2>6
<1>3. ASSUME NEW r \in Requests, CacheWrite(r)
      PROVE  FitsInv'
  <2> DEFINE e == [key |-> Fingerprint(msg[r].q), ans |-> rv[r]]
  <2>1. /\ cache' = CacheInsert(cache, e)
        /\ pc' = [pc EXCEPT ![r] = "idle"]
        /\ result' = [result EXCEPT ![r] = rv[r]]
        /\ UNCHANGED msg
        /\ pc[r] = "cache_write"
    BY <1>3 DEF CacheWrite
  <2>2. e.ans.msg.q = e.key
    BY <2>1 DEF RvFits, Fingerprint
  <2>3. e \in Entries
    BY <2>1 DEF Entries, Messages, Fingerprint
  <2>4. CacheFits'
    BY <2>1, <2>2, <2>3, CacheInsertFits DEF CacheFits
  <2>5. RvFits'
    BY <1>3, <2>1 DEF CacheWrite, RvFits
  <2>6. AnswerFitsQuestion'
    BY <2>1 DEF RvFits, AnswerFitsQuestion
  <2>7. QED
    BY <1>0, <2>4, <2>5, <2>6
<1>4. CASE Expire
  <2>1. cache # << >> /\ cache' = Tail(cache)
    BY <1>4 DEF Expire
  <2>2. \A j \in 1..Len(cache') : cache'[j] = cache[j + 1] /\ j + 1 \in 1..Len(cache)
    BY <2>1, HeadTailProperties
  <2>3. CacheFits'
    BY <2>2 DEF CacheFits
  <2>4. QED
    BY <1>0, <1>4, <2>3 DEF Expire, RvFits, AnswerFitsQuestion
<1>5. CASE UNCHANGED vars
  BY <1>0, <1>5 DEF vars, CacheFits, RvFits, AnswerFitsQuestion
<1>6. QED
  BY <1>1, <1>2, <1>3, <1>4, <1>5 DEF Next

\* Every answer exchange returns, fresh or from the cache, was produced
\* for the question asked.
THEOREM AnswerFitsQuestionHolds == Spec => []AnswerFitsQuestion
<1>1. Spec => []FitsInv
  BY FitsInvInit, FitsInvStep, PTL DEF Spec
<1>2. QED
  BY <1>1, PTL DEF FitsInv

=============================================================================
