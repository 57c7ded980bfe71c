--------------------------- MODULE ResolverProofs ---------------------------
(***************************************************************************)
(* What the rdns cache may hold and what a resolve may answer, proved for  *)
(* any number of processes, addresses and workers and any ttl and budget.  *)
(***************************************************************************)
EXTENDS Resolver, FiniteSetTheorems, TLAPS

(* Between batches no address is being looked up, and an idle process has  *)
(* nothing left of its last query.                                         *)
Batches ==
    \A p \in Processes :
        /\ IsFiniteSet(inflight[p])
        /\ pc[p] # "lookup" => pending[p] = {} /\ inflight[p] = {}
        /\ pc[p] = "idle" => misses[p] = {} /\ \A ip \in Ips : result[p][ip] = NoEntry

(* An outcome in a process's hands was true when its query began, if it    *)
(* looked it up itself, or was young enough then, if the cache had it.     *)
Answers ==
    \A p \in Processes, ip \in Ips :
        result[p][ip] # NoEntry =>
            IF ip \in misses[p] THEN evidence[ip][result[p][ip]] >= started[p]
            ELSE evidence[ip][result[p][ip]] > started[p] - MaxAge(result[p][ip])

(* The inductive invariant.                                                *)
RInv == TypeOK /\ Batches /\ CacheHonest /\ Answers

-----------------------------------------------------------------------------
USE ResolverAssumption

LEMMA InitRInv == Init => RInv
<1> SUFFICES ASSUME Init PROVE RInv
  OBVIOUS
<1>1. evidence \in [Ips -> [Outcomes -> 0 .. now]]
  BY DEF Init, Outcomes, Never
<1>2. rdns \in [Ips -> Entries] /\ \A ip \in Ips : rdns[ip].resolved_at =< now
  BY DEF Init, Entries, Absent, Never
<1>3. IsFiniteSet({}) /\ Cardinality({}) = 0
  BY FS_EmptySet
<1>4. TypeOK
  BY <1>1, <1>2, <1>3 DEF Init, TypeOK, Never
<1>5. Batches
  BY <1>3 DEF Init, Batches
<1>6. CacheHonest /\ Answers
  BY DEF Init, CacheHonest, Answers, Absent
<1> QED  BY <1>4, <1>5, <1>6 DEF RInv

(* What time, owners of addresses and lookups do to the evidence: it only  *)
(* gets younger, so what was honest and fresh stays so.                    *)
LEMMA YoungerEvidence ==
    ASSUME RInv, now' \in Nat, now' >= now,
           evidence' \in [Ips -> [Outcomes -> 0 .. now']],
           \A ip \in Ips, h \in Outcomes : evidence'[ip][h] >= evidence[ip][h],
           UNCHANGED <<rdns, started, result, misses>>
    PROVE  CacheHonest' /\ Answers'
<1>1. CacheHonest'
  <2> SUFFICES ASSUME NEW ip \in Ips, rdns[ip].hostname # NoEntry
               PROVE  evidence'[ip][rdns[ip].hostname] >= rdns[ip].resolved_at
    BY DEF CacheHonest
  <2>1. rdns[ip].hostname \in Outcomes /\ rdns[ip].resolved_at \in Nat
    BY DEF RInv, TypeOK, Entries
  <2>2. evidence[ip][rdns[ip].hostname] \in Nat /\ evidence'[ip][rdns[ip].hostname] \in Nat
    BY <2>1 DEF RInv, TypeOK
  <2> QED  BY <2>1, <2>2 DEF RInv, CacheHonest
<1>2. Answers'
  <2> SUFFICES ASSUME NEW p \in Processes, NEW ip \in Ips, result[p][ip] # NoEntry
               PROVE  IF ip \in misses[p] THEN evidence'[ip][result[p][ip]] >= started[p]
                      ELSE evidence'[ip][result[p][ip]] > started[p] - MaxAge(result[p][ip])
    BY DEF Answers, MaxAge
  <2>1. result[p][ip] \in Outcomes /\ started[p] \in Nat /\ MaxAge(result[p][ip]) \in Nat
    BY DEF RInv, TypeOK, MaxAge
  <2>2. evidence[ip][result[p][ip]] \in Nat /\ evidence'[ip][result[p][ip]] \in Nat
    BY <2>1 DEF RInv, TypeOK
  <2> QED  BY <2>1, <2>2 DEF RInv, Answers
<1> QED  BY <1>1, <1>2

LEMMA TickRInv == ASSUME RInv, Tick PROVE RInv'
<1>1. now \in Nat /\ now' = now + 1 /\ now' \in 1 .. MaxTime
  BY DEF RInv, TypeOK, Tick
<1>2. /\ evidence' \in [Ips -> [Outcomes -> 0 .. now']]
      /\ \A ip \in Ips, h \in Outcomes : evidence'[ip][h] >= evidence[ip][h]
  BY <1>1 DEF RInv, TypeOK, Tick, Seen
<1>3. TypeOK'
  BY <1>1, <1>2 DEF RInv, TypeOK, Tick, Entries
<1>4. Batches'
  BY DEF RInv, Batches, Tick
<1> QED  BY <1>1, <1>2, <1>3, <1>4, YoungerEvidence DEF RInv, Tick

LEMMA RenameRInv ==
    ASSUME RInv, NEW ip \in Ips, NEW h \in Outcomes, Rename(ip, h) PROVE RInv'
<1>1. /\ evidence' \in [Ips -> [Outcomes -> 0 .. now']]
      /\ \A q \in Ips, g \in Outcomes : evidence'[q][g] >= evidence[q][g]
  BY DEF RInv, TypeOK, Rename
<1>2. TypeOK'
  BY <1>1 DEF RInv, TypeOK, Rename
<1>3. Batches'
  BY DEF RInv, Batches, Rename
<1>4. now' \in Nat /\ now' >= now
  BY DEF RInv, TypeOK, Rename
<1> QED  BY <1>1, <1>2, <1>3, <1>4, YoungerEvidence DEF RInv, Rename

LEMMA PruneRInv == ASSUME RInv, NEW cutoff, Prune(cutoff) PROVE RInv'
<1>1. \A ip \in Ips : rdns'[ip] \in {rdns[ip], Absent}
  BY DEF Prune
<1>2. rdns' \in [Ips -> Entries] /\ \A ip \in Ips : rdns'[ip].resolved_at =< now
  BY <1>1 DEF Prune, RInv, TypeOK, Entries, Absent, Never
<1>3. TypeOK' /\ Batches'
  BY <1>2 DEF Prune, RInv, TypeOK, Batches
<1>4. CacheHonest'
  BY <1>1 DEF Prune, RInv, CacheHonest, Absent
<1>5. Answers'
  BY DEF Prune, RInv, Answers, MaxAge
<1> QED  BY <1>3, <1>4, <1>5 DEF RInv

-----------------------------------------------------------------------------
(* resolve begins: the hits are younger than their time to live, because   *)
(* the cache is honest, and the misses have no answer yet.                 *)
LEMMA ResolveRInv ==
    ASSUME RInv, NEW p \in Processes, NEW ips \in SUBSET Ips, Resolve(p, ips)
    PROVE  RInv'
<1> DEFINE missed == {ip \in ips : ~Fresh(rdns[ip])}
<1>1. /\ pc[p] = "idle" /\ pending[p] = {} /\ inflight[p] = {} /\ missed \subseteq Ips
      /\ UNCHANGED <<now, ptr, evidence, rdns, inflight>>
  BY DEF Resolve, RInv, Batches
<1>2. /\ started' = [started EXCEPT ![p] = now]
      /\ misses' = [misses EXCEPT ![p] = missed]
      /\ pending' = [pending EXCEPT ![p] = missed]
      /\ pc' = [pc EXCEPT ![p] = IF missed = {} THEN "done" ELSE "lookup"]
      /\ result' = [result EXCEPT ![p] =
                       [ip \in Ips |-> IF ip \in ips \ missed THEN rdns[ip].hostname ELSE NoEntry]]
  BY DEF Resolve
<1>3. \A ip \in ips \ missed : rdns[ip].hostname \in Outcomes /\ Fresh(rdns[ip])
  BY DEF RInv, TypeOK, Entries, Fresh
<1> HIDE DEF missed
<1>4. result' \in [Processes -> [Ips -> Outcomes \cup {NoEntry}]]
  BY <1>2, <1>3 DEF RInv, TypeOK
<1>5. /\ pc' \in [Processes -> {"idle", "lookup", "done"}]
      /\ started' \in [Processes -> 0 .. now]
      /\ misses' \in [Processes -> SUBSET Ips]
      /\ pending' \in [Processes -> SUBSET Ips]
  BY <1>1, <1>2 DEF RInv, TypeOK
<1>6. \A q \in Processes : /\ pending'[q] \cap inflight[q] = {}
                           /\ pending'[q] \cup inflight[q] \subseteq misses'[q]
                           /\ Cardinality(inflight[q]) =< Workers
  BY <1>1, <1>2 DEF RInv, TypeOK
<1>7. TypeOK'
  BY <1>1, <1>4, <1>5, <1>6 DEF RInv, TypeOK
<1>8. Batches'
  BY <1>1, <1>2 DEF RInv, TypeOK, Batches
<1>9. CacheHonest'
  BY <1>1 DEF RInv, CacheHonest
<1>10. Answers'
  <2> SUFFICES ASSUME NEW q \in Processes, NEW ip \in Ips, result'[q][ip] # NoEntry
               PROVE  IF ip \in misses'[q] THEN evidence[ip][result'[q][ip]] >= started'[q]
                      ELSE evidence[ip][result'[q][ip]] > started'[q] - MaxAge(result'[q][ip])
    BY <1>1 DEF Answers, MaxAge
  <2>1. CASE q # p
    BY <1>2, <2>1 DEF RInv, TypeOK, Answers, MaxAge
  <2>2. CASE q = p
    <3>1. ip \in ips \ missed /\ result'[q][ip] = rdns[ip].hostname
          /\ started'[q] = now /\ misses'[q] = missed
      BY <1>2, <2>2 DEF RInv, TypeOK
    <3> DEFINE h == rdns[ip].hostname
               at == rdns[ip].resolved_at
    <3>2. h \in Outcomes /\ now - at < MaxAge(h) /\ evidence[ip][h] >= at
      BY <3>1, <1>3 DEF Fresh, RInv, CacheHonest
    <3>3. now \in Nat /\ at \in Nat /\ MaxAge(h) \in Nat /\ evidence[ip][h] \in Nat
      BY <3>2 DEF RInv, TypeOK, Entries, MaxAge
    <3> HIDE DEF h, at
    <3>4. evidence[ip][h] > now - MaxAge(h)
      BY <3>2, <3>3
    <3> QED  BY <3>1, <3>4 DEF h
  <2> QED  BY <2>1, <2>2
<1> QED  BY <1>7, <1>8, <1>9, <1>10 DEF RInv

LEMMA TakeRInv ==
    ASSUME RInv, NEW p \in Processes, NEW ip \in Ips, Take(p, ip) PROVE RInv'
<1>1. /\ pc[p] = "lookup" /\ ip \in pending[p] /\ ip \notin inflight[p]
      /\ IsFiniteSet(inflight[p]) /\ Cardinality(inflight[p]) < Workers
  BY DEF Take, RInv, TypeOK, Batches
<1>2. /\ IsFiniteSet(inflight[p] \cup {ip})
      /\ Cardinality(inflight[p] \cup {ip}) = Cardinality(inflight[p]) + 1
      /\ Cardinality(inflight[p]) \in Nat
  BY <1>1, FS_AddElement, FS_CardinalityType
<1>3. /\ pending' = [pending EXCEPT ![p] = pending[p] \ {ip}]
      /\ inflight' = [inflight EXCEPT ![p] = inflight[p] \cup {ip}]
  BY DEF Take
<1>4. Cardinality(inflight'[p]) =< Workers /\ IsFiniteSet(inflight'[p])
  BY <1>1, <1>2, <1>3 DEF RInv, TypeOK
<1>5. TypeOK'
  BY <1>1, <1>3, <1>4 DEF Take, RInv, TypeOK
<1>6. Batches'
  BY <1>1, <1>3, <1>4 DEF Take, RInv, TypeOK, Batches
<1> QED  BY <1>5, <1>6 DEF Take, RInv, CacheHonest, Answers, MaxAge

(* A worker comes back: what it found is true now, after the query began.  *)
LEMMA FoundRInv ==
    ASSUME RInv, NEW p \in Processes, NEW ip \in Ips, NEW h \in Outcomes, Found(p, ip, h)
    PROVE  RInv'
<1>1. /\ pc[p] = "lookup" /\ ip \in inflight[p] /\ ip \in misses[p]
      /\ inflight' = [inflight EXCEPT ![p] = inflight[p] \ {ip}]
      /\ result' = [result EXCEPT ![p][ip] = h]
      /\ evidence' = [evidence EXCEPT ![ip][h] = now]
      /\ UNCHANGED <<now, ptr, rdns, pc, started, misses, pending>>
  BY DEF Found, RInv, TypeOK
<1>2. /\ IsFiniteSet(inflight'[p])
      /\ Cardinality(inflight'[p]) =< Workers
  <2>1. IsFiniteSet(inflight[p]) /\ Cardinality(inflight[p]) \in Nat
    BY FS_CardinalityType DEF RInv, Batches
  <2>2. /\ IsFiniteSet(inflight[p] \ {ip})
        /\ Cardinality(inflight[p] \ {ip}) = Cardinality(inflight[p]) - 1
    BY <2>1, <1>1, FS_RemoveElement
  <2> QED  BY <1>1, <2>1, <2>2 DEF RInv, TypeOK
<1>3. TypeOK'
  BY <1>1, <1>2 DEF RInv, TypeOK
<1>4. Batches'
  BY <1>1, <1>2 DEF RInv, TypeOK, Batches
<1>5. \A q \in Ips, g \in Outcomes :
         evidence[q][g] \in Nat /\ evidence'[q][g] \in Nat /\ evidence'[q][g] >= evidence[q][g]
  BY <1>1 DEF RInv, TypeOK
<1>6. CacheHonest'
  <2> SUFFICES ASSUME NEW q \in Ips, rdns[q].hostname # NoEntry
               PROVE  evidence'[q][rdns[q].hostname] >= rdns[q].resolved_at
    BY <1>1 DEF CacheHonest
  <2>1. rdns[q].hostname \in Outcomes /\ rdns[q].resolved_at \in Nat
    BY DEF RInv, TypeOK, Entries
  <2> QED  BY <2>1, <1>5 DEF RInv, CacheHonest
<1>7. Answers'
  <2> SUFFICES ASSUME NEW q \in Processes, NEW jp \in Ips, result'[q][jp] # NoEntry
               PROVE  IF jp \in misses[q] THEN evidence'[jp][result'[q][jp]] >= started[q]
                      ELSE evidence'[jp][result'[q][jp]] > started[q] - MaxAge(result'[q][jp])
    BY <1>1 DEF Answers, MaxAge
  <2>1. CASE q = p /\ jp = ip
    <3>1. result'[q][jp] = h /\ evidence'[jp][h] = now /\ jp \in misses[q]
      BY <1>1, <2>1 DEF RInv, TypeOK
    <3> QED  BY <3>1 DEF RInv, TypeOK
  <2>2. CASE ~(q = p /\ jp = ip)
    <3>1. result'[q][jp] = result[q][jp] /\ result[q][jp] \in Outcomes
      BY <1>1, <2>2 DEF RInv, TypeOK
    <3>2. started[q] \in Nat /\ MaxAge(result[q][jp]) \in Nat
      BY DEF RInv, TypeOK, MaxAge
    <3>3. IF jp \in misses[q] THEN evidence[jp][result[q][jp]] >= started[q]
          ELSE evidence[jp][result[q][jp]] > started[q] - MaxAge(result[q][jp])
      BY <3>1 DEF RInv, Answers
    <3> QED  BY <3>1, <3>2, <3>3, <1>5
  <2> QED  BY <2>1, <2>2
<1> QED  BY <1>3, <1>4, <1>6, <1>7 DEF RInv

(* A batch ends: what it looked up is stored under the time it began.      *)
LEMMA FinishRInv == ASSUME RInv, NEW p \in Processes, Finish(p) PROVE RInv'
<1>1. \A ip \in Ips :
         \/ rdns'[ip] = rdns[ip]
         \/ /\ ip \in misses[p] /\ result[p][ip] # NoEntry
            /\ rdns'[ip] = [hostname |-> result[p][ip], resolved_at |-> started[p]]
  BY DEF Finish, Put
<1>2. rdns' \in [Ips -> Entries] /\ \A ip \in Ips : rdns'[ip].resolved_at =< now
  BY <1>1 DEF Finish, Put, RInv, TypeOK, Entries
<1>3. IsFiniteSet({}) /\ Cardinality({}) = 0
  BY FS_EmptySet
<1>4. TypeOK'
  BY <1>2, <1>3 DEF Finish, RInv, TypeOK
<1>5. Batches'
  BY <1>3 DEF Finish, RInv, TypeOK, Batches
<1>6. CacheHonest'
  <2> SUFFICES ASSUME NEW ip \in Ips, rdns'[ip].hostname # NoEntry
               PROVE  evidence[ip][rdns'[ip].hostname] >= rdns'[ip].resolved_at
    BY DEF Finish, CacheHonest
  <2>1. CASE rdns'[ip] = rdns[ip]
    BY <2>1 DEF RInv, CacheHonest
  <2>2. CASE /\ ip \in misses[p] /\ result[p][ip] # NoEntry
             /\ rdns'[ip] = [hostname |-> result[p][ip], resolved_at |-> started[p]]
    <3>1. evidence[ip][result[p][ip]] >= started[p]
      BY <2>2 DEF RInv, Answers
    <3> QED  BY <2>2, <3>1
  <2> QED  BY <1>1, <2>1, <2>2
<1>7. Answers'
  BY DEF Finish, RInv, Answers, MaxAge
<1> QED  BY <1>4, <1>5, <1>6, <1>7 DEF RInv

LEMMA ExitRInv == ASSUME RInv, NEW p \in Processes, Exit(p) PROVE RInv'
<1>1. pending[p] = {} /\ inflight[p] = {}
  BY DEF Exit, RInv, Batches
<1>2. TypeOK'
  BY <1>1 DEF Exit, RInv, TypeOK, Never
<1>3. Batches'
  BY <1>1 DEF Exit, RInv, TypeOK, Batches
<1>4. CacheHonest'
  BY DEF Exit, RInv, CacheHonest
<1>5. Answers'
  BY DEF Exit, RInv, TypeOK, Answers, MaxAge
<1> QED  BY <1>2, <1>3, <1>4, <1>5 DEF RInv

LEMMA NextRInv == ASSUME RInv, [Next]_vars PROVE RInv'
<1>1. CASE UNCHANGED vars
  BY <1>1 DEF vars, RInv, TypeOK, Batches, CacheHonest, Answers, MaxAge
<1> QED
  BY <1>1, TickRInv, RenameRInv, PruneRInv, ResolveRInv, TakeRInv, FoundRInv,
     FinishRInv, ExitRInv DEF Next

LEMMA RInvAlways == Spec => []RInv
BY InitRInv, NextRInv, PTL DEF Spec

(* Resolver: no process ever leaves its state space.                       *)
THEOREM ResolverTypeCorrect == Spec => []TypeOK
<1>1. RInv => TypeOK
  BY DEF RInv
<1> QED  BY <1>1, RInvAlways, PTL

(* rdns_put: whatever processes, prunes, renames and slow lookups do, a    *)
(* cached outcome was found, and not before the time stamped on it.        *)
THEOREM CacheNeverLies == Spec => []CacheHonest
<1>1. RInv => CacheHonest
  BY DEF RInv
<1> QED  BY <1>1, RInvAlways, PTL

(* resolve: no answer is older than its time to live.                      *)
THEOREM AnswersAreFresh == Spec => []FreshAnswer
<1>1. RInv => FreshAnswer
  <2> SUFFICES ASSUME RInv, NEW p \in Processes, NEW ip \in Ips, result[p][ip] # NoEntry
               PROVE  evidence[ip][result[p][ip]] > started[p] - MaxAge(result[p][ip])
    BY DEF FreshAnswer, MaxAge
  <2>1. /\ result[p][ip] \in Outcomes /\ started[p] \in Nat
        /\ MaxAge(result[p][ip]) \in Nat \ {0}
    BY DEF RInv, TypeOK, MaxAge
  <2>2. evidence[ip][result[p][ip]] \in Nat
    BY <2>1 DEF RInv, TypeOK
  <2>3. \/ evidence[ip][result[p][ip]] >= started[p]
        \/ evidence[ip][result[p][ip]] > started[p] - MaxAge(result[p][ip])
    BY DEF RInv, Answers
  <2> QED  BY <2>1, <2>2, <2>3
<1> QED  BY <1>1, RInvAlways, PTL
=============================================================================
