------------------------------ MODULE Resolver ------------------------------
(***************************************************************************)
(* Reverse DNS for the command line: resolve.Resolver and the rdns table   *)
(* it caches names in, shared by every process that runs a query.          *)
(*                                                                         *)
(* A resolve stamps itself with the time, takes what the cache holds and   *)
(* is young enough, and gives the rest to worker threads; when they are    *)
(* done, or the budget is spent, what they found goes into the table under *)
(* the stamp taken at the beginning, and what they did not find is "".     *)
(* Names change and lookups fail or hang as they like.  `evidence` records *)
(* for the properties when an outcome was last true of an address.         *)
(***************************************************************************)
EXTENDS Integers, FiniteSets

CONSTANTS
    Processes,  \* command line processes
    Ips,        \* remote addresses
    Hosts,      \* names a PTR record may hold
    Failed,     \* the empty name: no PTR record, or no answer
    NoEntry,    \* not known (yet)
    Ttl, FailureTtl, Budget,
    Workers,    \* max_workers
    MaxTime     \* bound: the clock runs from 1 to MaxTime

ASSUME ResolverAssumption ==
    /\ Failed \notin Hosts /\ NoEntry \notin Hosts \cup {Failed}
    /\ Ttl \in Nat \ {0} /\ FailureTtl \in Nat \ {0} /\ Budget \in Nat
    /\ Workers \in Nat \ {0}
    /\ MaxTime \in Nat \ {0}

VARIABLES
    now,        \* time.time(), time.monotonic()
    ptr,        \* what a lookup of each address finds at this moment
    evidence,   \* when it last found a name, or a resolve last found none
    rdns,       \* the rdns table
    pc,         \* what each process does
    started,    \* resolve's local variable now
    misses,     \* resolve's local variable misses
    result,     \* resolve's local variable result, and the workers' results
    pending,    \* addresses no worker has taken yet
    inflight    \* addresses being looked up

vars == <<now, ptr, evidence, rdns, pc, started, result, misses, pending, inflight>>

Never    == 0
Outcomes == Hosts \cup {Failed}
Entries  == [hostname : Outcomes \cup {NoEntry}, resolved_at : 0 .. MaxTime]
Absent   == [hostname |-> NoEntry, resolved_at |-> Never]

TypeOK ==
    /\ now \in 1 .. MaxTime
    /\ ptr \in [Ips -> Outcomes]
    /\ evidence \in [Ips -> [Outcomes -> 0 .. now]]
    /\ rdns \in [Ips -> Entries]
    /\ \A ip \in Ips : rdns[ip].resolved_at =< now
    /\ pc \in [Processes -> {"idle", "lookup", "done"}]
    /\ started \in [Processes -> 0 .. now]
    /\ result \in [Processes -> [Ips -> Outcomes \cup {NoEntry}]]
    /\ misses \in [Processes -> SUBSET Ips]
    /\ pending \in [Processes -> SUBSET Ips]
    /\ inflight \in [Processes -> SUBSET Ips]
    /\ \A p \in Processes : /\ pending[p] \cap inflight[p] = {}
                            /\ pending[p] \cup inflight[p] \subseteq misses[p]
                            /\ Cardinality(inflight[p]) =< Workers

Seen(time) == [ip \in Ips |-> [evidence[ip] EXCEPT ![ptr[ip]] = time]]

Init ==
    /\ now = 1
    /\ ptr \in [Ips -> Outcomes]
    /\ evidence = [ip \in Ips |-> [h \in Outcomes |-> IF h = ptr[ip] THEN 1 ELSE Never]]
    /\ rdns = [ip \in Ips |-> Absent]
    /\ pc = [p \in Processes |-> "idle"]
    /\ started = [p \in Processes |-> Never]
    /\ result = [p \in Processes |-> [ip \in Ips |-> NoEntry]]
    /\ misses = [p \in Processes |-> {}]
    /\ pending = [p \in Processes |-> {}]
    /\ inflight = [p \in Processes |-> {}]

-----------------------------------------------------------------------------
(* Time does not pass the deadline of a batch: its joins return then.      *)
Tick ==
    /\ now < MaxTime
    /\ \A p \in Processes : pc[p] = "lookup" => now < started[p] + Budget
    /\ now' = now + 1
    /\ evidence' = Seen(now + 1)
    /\ UNCHANGED <<ptr, rdns, pc, started, result, misses, pending, inflight>>

(* The owner of the address changes its PTR record.                        *)
Rename(ip, h) ==
    /\ ptr[ip] # h
    /\ ptr' = [ptr EXCEPT ![ip] = h]
    /\ evidence' = [evidence EXCEPT ![ip][h] = now]
    /\ UNCHANGED <<now, rdns, pc, started, result, misses, pending, inflight>>

(* The collector, or `openvpn-metrics prune`, expires cached names.        *)
Prune(cutoff) ==
    /\ rdns' = [ip \in Ips |-> IF rdns[ip].resolved_at < cutoff THEN Absent ELSE rdns[ip]]
    /\ rdns' # rdns
    /\ UNCHANGED <<now, ptr, evidence, pc, started, result, misses, pending, inflight>>

-----------------------------------------------------------------------------
(* Mutant: a failure is kept as long as a name.                            *)
TtlForAll(hostname) == Ttl

MaxAge(hostname) == IF hostname = Failed THEN FailureTtl ELSE Ttl

Fresh(entry) ==
    /\ entry.hostname # NoEntry
    /\ now - entry.resolved_at < MaxAge(entry.hostname)

(* resolve: now = time.time(), rdns_get, and the split in hits and misses. *)
(* A process has time left to spend its budget: a bound, not a guard.      *)
Resolve(p, ips) ==
    LET missed == {ip \in ips : ~Fresh(rdns[ip])} IN
    /\ pc[p] = "idle"
    /\ ips # {}
    /\ now + Budget =< MaxTime
    /\ started' = [started EXCEPT ![p] = now]
    /\ result' = [result EXCEPT ![p] =
                     [ip \in Ips |-> IF ip \in ips \ missed THEN rdns[ip].hostname ELSE NoEntry]]
    /\ misses' = [misses EXCEPT ![p] = missed]
    /\ pending' = [pending EXCEPT ![p] = missed]
    /\ pc' = [pc EXCEPT ![p] = IF missed = {} THEN "done" ELSE "lookup"]
    /\ UNCHANGED <<now, ptr, evidence, rdns, inflight>>

(* Mutant: a worker does not remove the address it takes.                  *)
TakeAgain(p, ip) ==
    /\ pc[p] = "lookup"
    /\ ip \in pending[p]
    /\ Cardinality(inflight[p]) < Workers
    /\ inflight' = [inflight EXCEPT ![p] = @ \cup {ip}]
    /\ UNCHANGED <<now, ptr, evidence, rdns, pc, started, result, misses, pending>>

(* worker: one of at most Workers threads takes an address ...             *)
Take(p, ip) ==
    /\ pc[p] = "lookup"
    /\ ip \in pending[p]
    /\ Cardinality(inflight[p]) < Workers
    /\ pending' = [pending EXCEPT ![p] = @ \ {ip}]
    /\ inflight' = [inflight EXCEPT ![p] = @ \cup {ip}]
    /\ UNCHANGED <<now, ptr, evidence, rdns, pc, started, result, misses>>

(* ... and comes back with its name, or with none for whatever reason.     *)
Found(p, ip, h) ==
    /\ pc[p] = "lookup"
    /\ ip \in inflight[p]
    /\ h \in {ptr[ip], Failed}
    /\ inflight' = [inflight EXCEPT ![p] = @ \ {ip}]
    /\ result' = [result EXCEPT ![p][ip] = h]
    /\ evidence' = [evidence EXCEPT ![ip][h] = now]
    /\ UNCHANGED <<now, ptr, rdns, pc, started, misses, pending>>

(* Mutant: joins without a timeout.                                        *)
BatchJoined(p) == pending[p] = {} /\ inflight[p] = {}

(* Every worker has returned, or the joins have used up the budget.        *)
BatchOver(p) ==
    \/ pending[p] = {} /\ inflight[p] = {}
    \/ now >= started[p] + Budget

(* Mutant: what was not answered in time counts as not found.              *)
PutFailures(p) ==
    [ip \in Ips |-> IF ip \in misses[p]
                    THEN [hostname |-> IF result[p][ip] = NoEntry THEN Failed ELSE result[p][ip],
                          resolved_at |-> started[p]]
                    ELSE rdns[ip]]

(* What rdns_put writes: what was looked up, under the time resolve began. *)
Put(p) ==
    [ip \in Ips |-> IF ip \in misses[p] /\ result[p][ip] # NoEntry
                    THEN [hostname |-> result[p][ip], resolved_at |-> started[p]]
                    ELSE rdns[ip]]

(* The rest is answered "" (still NoEntry here, for the properties) and    *)
(* not cached; the worker that comes back late reaches nobody.             *)
Finish(p) ==
    /\ pc[p] = "lookup"
    /\ BatchOver(p)
    /\ rdns' = Put(p)
    /\ pending' = [pending EXCEPT ![p] = {}]
    /\ inflight' = [inflight EXCEPT ![p] = {}]
    /\ pc' = [pc EXCEPT ![p] = "done"]
    /\ UNCHANGED <<now, ptr, evidence, started, result, misses>>

(* The command prints the names and exits.                                 *)
Exit(p) ==
    /\ pc[p] = "done"
    /\ started' = [started EXCEPT ![p] = Never]
    /\ result' = [result EXCEPT ![p] = [ip \in Ips |-> NoEntry]]
    /\ misses' = [misses EXCEPT ![p] = {}]
    /\ pc' = [pc EXCEPT ![p] = "idle"]
    /\ UNCHANGED <<now, ptr, evidence, rdns, pending, inflight>>

-----------------------------------------------------------------------------
Next ==
    \/ Tick
    \/ \E ip \in Ips, h \in Outcomes : Rename(ip, h)
    \/ \E cutoff \in 1 .. MaxTime : Prune(cutoff)
    \/ \E p \in Processes :
          \/ \E ips \in SUBSET Ips : Resolve(p, ips)
          \/ \E ip \in Ips : Take(p, ip) \/ \E h \in Outcomes : Found(p, ip, h)
          \/ Finish(p)
          \/ Exit(p)

Spec == Init /\ [][Next]_vars

(* Time passes, and a join returns when its threads have or its time is    *)
(* up; nothing is assumed of the lookups.                                  *)
FairSpec == Spec /\ WF_vars(Tick) /\ \A p \in Processes : WF_vars(Finish(p))

-----------------------------------------------------------------------------
(* A cached outcome is one a lookup found, and not before the time stamped *)
(* on it: a lookup cut off by the budget is never cached as a failure, and *)
(* no entry looks younger than it is.                                      *)
CacheHonest ==
    \A ip \in Ips : rdns[ip].hostname # NoEntry =>
        evidence[ip][rdns[ip].hostname] >= rdns[ip].resolved_at

(* A name shown was the address's name within the last Ttl, a cached       *)
(* failure is shown for FailureTtl only, through other processes' writes   *)
(* and prunes in between.                                                  *)
FreshAnswer ==
    \A p \in Processes, ip \in Ips :
        pc[p] = "done" /\ result[p][ip] # NoEntry =>
            evidence[ip][result[p][ip]] > started[p] - (IF result[p][ip] = Failed THEN FailureTtl ELSE Ttl)

(* A query never hangs on a lookup: resolve returns though none does.      *)
Returns == \A p \in Processes : pc[p] = "lookup" ~> pc[p] = "done"
=============================================================================
