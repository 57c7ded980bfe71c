------------------------------ MODULE Database ------------------------------
(***************************************************************************)
(* The write side of ovpn_metrics.db.Database: one SQLite connection       *)
(* shared by the threads of the collector, its lock, its cache of client   *)
(* ids, and the other processes that open the same file.                   *)
(*                                                                         *)
(* Every method holds self._lock from its first statement to its last, so  *)
(* the connection runs one method at a time and `pc` is the next statement *)
(* of that method.  A row is abstracted to its table, client id and time   *)
(* (the bucket of traffic and dns_queries, last_seen of sessions); its     *)
(* value counts the batch entries merged into such rows.  The rdns table   *)
(* and VACUUM touch none of this state and are not part of this module.    *)
(***************************************************************************)
EXTENDS Integers, FiniteSets

CONSTANTS
    Clients,    \* common names
    Tables,     \* the tables in use: traffic, dns (dns_queries), sessions
    MaxId,      \* bound: rowids are 1 .. MaxId
    MaxTime,    \* bound: buckets and last_seen stamps are 1 .. MaxTime
    MaxCount,   \* bound: entries merged into one row
    MaxRows,    \* bound: rows of the three tables together
    MaxBatch,   \* bound: entries of one batch
    Faults,     \* what may go wrong, see the section on faults
    Shielded    \* TRUE: a fault strikes only where it leaves the cache right

ASSUME BoundsAssumption == /\ MaxId \in Nat
                           /\ MaxTime \in Nat
                           /\ MaxCount \in Nat
                           /\ MaxRows \in Nat
                           /\ MaxBatch \in Nat
ASSUME TablesAssumption == Tables \subseteq {"traffic", "dns", "sessions"}
ASSUME FaultsAssumption ==
    /\ Faults \subseteq {"busy", "interrupt", "rollback", "manual_prune"}
    /\ Shielded \in BOOLEAN

Ids    == 1 .. MaxId
NoId   == 0
Times  == 1 .. MaxTime
NoTime == 0
Keys   == Clients \X Times
NoKey  == <<>>

VARIABLES
    disk,   \* the committed content of the file
    work,   \* the content as the collector's connection sees it
    inTxn,  \* the connection holds SQLite's write lock
    adrift, \* it holds it for a method that was left, see Interrupt
    cache,  \* Database._client_ids
    pc,     \* next statement of the method that holds self._lock
    op,     \* the table that method writes, or "prune"
    batch,  \* its argument
    todo,   \* entries of the batch not written yet
    key,    \* the entry being written
    cid,    \* the local variable cid of its loop
    cutoff_ts \* the argument of prune

vars == <<disk, work, inTxn, adrift, cache, pc, op, batch, todo, key, cid, cutoff_ts>>

Contents == [id   : [Clients -> Ids \cup {NoId}],
             rows : [Tables -> [Ids \X Times -> 0 .. MaxCount]]]

NoIds == [c \in Clients |-> NoId]

(* The tables prune deletes rows from, in its order, and what follows: the *)
(* DELETE FROM clients.                                                    *)
Following == [traffic |-> "dns", dns |-> "sessions", sessions |-> "clients"]

Empty == [id   |-> NoIds,
          rows |-> [tbl \in Tables |-> [r \in Ids \X Times |-> 0]]]

TypeOK ==
    /\ disk \in Contents
    /\ work \in Contents
    /\ inTxn \in BOOLEAN
    /\ adrift \in BOOLEAN
    /\ adrift => inTxn
    /\ cache \in [Clients -> Ids \cup {NoId}]
    /\ pc \in {"idle", "next", "upsert", "commit", "clear", "clients"} \cup DOMAIN Following
    /\ op \in Tables \cup {"prune"}
    /\ batch \subseteq Keys
    /\ todo \subseteq batch
    /\ pc \in {"next", "upsert"} => op \in Tables
    /\ pc \notin {"idle", "next", "upsert"} => op = "prune" /\ todo = {}
    /\ pc = "idle" => todo = {}
    /\ pc = "upsert" => key \in todo
    /\ cid \in Ids \cup {NoId}
    /\ cutoff_ts \in 0 .. MaxTime + 1

-----------------------------------------------------------------------------
(* What the SQL statements do to a content.                                *)

(* Mutant: the clients' DELETE forgets the sessions.                       *)
HasDataNoSessions(content, i) ==
    \E tbl \in Tables \ {"sessions"}, t \in Times : content.rows[tbl][<<i, t>>] > 0

HasData(content, i) ==
    \E tbl \in Tables, t \in Times : content.rows[tbl][<<i, t>>] > 0

(* The bounds MaxCount and MaxRows leave room for one more entry of row r. *)
HasRoom(content, tbl, r) ==
    /\ content.rows[tbl][r] < MaxCount
    /\ content.rows[tbl][r] = 0 =>
          Cardinality({u \in Tables \X Ids \X Times :
                          content.rows[u[1]][<<u[2], u[3]>>] > 0}) < MaxRows

(* Mutant: a new id is the number of clients plus one.                     *)
IsNextByCount(content, i) ==
    i = 1 + Cardinality({c \in Clients : content.id[c] # NoId})

(* INTEGER PRIMARY KEY without AUTOINCREMENT: one more than the largest    *)
(* id in the table, whoever had that id before.                            *)
IsNextRowid(content, i) ==
    /\ \A c \in Clients : content.id[c] < i
    /\ i = 1 \/ \E c \in Clients : content.id[c] = i - 1

Inserted(content, c, i) ==
    [id |-> [content.id EXCEPT ![c] = i], rows |-> content.rows]

(* INSERT .. ON CONFLICT DO UPDATE.  Traffic and DNS rows are added to; a  *)
(* session that was last seen at `from` is moved to t, a new one is added. *)
Upserted(content, tbl, i, from, t) ==
    LET row == content.rows[tbl] IN
    [id   |-> content.id,
     rows |-> [content.rows EXCEPT ![tbl] =
                  [r \in Ids \X Times |->
                      row[r] + (IF r = <<i, t>> THEN 1 ELSE 0)
                             - (IF r = <<i, from>> THEN 1 ELSE 0)]]]

(* DELETE FROM .. WHERE bucket (last_seen) < cutoff, in each of `tables`.  *)
RowsPruned(content, tables, cutoff) ==
    [id   |-> content.id,
     rows |-> [tbl \in Tables |->
                  [r \in Ids \X Times |->
                      IF tbl \in tables /\ r[2] < cutoff
                      THEN 0 ELSE content.rows[tbl][r]]]]

ClientsPruned(content) ==
    [id   |-> [c \in Clients |->
                  IF content.id[c] # NoId /\ HasData(content, content.id[c])
                  THEN content.id[c] ELSE NoId],
     rows |-> content.rows]

CacheAgrees(content) ==
    \A c \in Clients : cache[c] # NoId => cache[c] = content.id[c]

-----------------------------------------------------------------------------
Init ==
    /\ disk = Empty
    /\ work = Empty
    /\ inTxn = FALSE
    /\ adrift = FALSE
    /\ cache = NoIds
    /\ pc = "idle"
    /\ op = "prune"
    /\ batch = {}
    /\ todo = {}
    /\ key = NoKey
    /\ cid = NoId
    /\ cutoff_ts = 0

(* A caller enters a method with a batch; an empty aggregate returns       *)
(* before the lock, and the watcher does not call with no session.         *)
Begin(tbl, entries) ==
    /\ pc = "idle"
    /\ tbl \in Tables
    /\ entries # {}
    /\ pc' = "next"
    /\ op' = tbl
    /\ batch' = entries
    /\ todo' = entries
    /\ UNCHANGED <<disk, work, inTxn, adrift, cache, key, cid, cutoff_ts>>

Batches == {b \in SUBSET Keys : \E f \in [1 .. MaxBatch -> Keys] :
                                    b = {f[n] : n \in 1 .. MaxBatch}}

FlushAggregates(entries) == Begin("traffic", entries)

FlushDns(entries) == Begin("dns", entries)

(* All sessions of one status snapshot are stamped with the same `now`.    *)
RecordSessions(names, now) == Begin("sessions", names \X {now})

(* client_id(name): the cached id, else the stored one, else a new row.    *)
ClientIdCached(k) ==
    /\ pc = "next"
    /\ k \in todo
    /\ cache[k[1]] # NoId
    /\ key' = k
    /\ cid' = cache[k[1]]
    /\ pc' = "upsert"
    /\ UNCHANGED <<disk, work, inTxn, adrift, cache, op, batch, todo, cutoff_ts>>

ClientIdSelected(k, i, content) ==
    /\ pc = "next"
    /\ k \in todo
    /\ cache[k[1]] = NoId
    /\ work' = content
    /\ inTxn' = TRUE
    /\ cache' = [cache EXCEPT ![k[1]] = i]
    /\ key' = k
    /\ cid' = i
    /\ pc' = "upsert"
    /\ UNCHANGED <<disk, adrift, op, batch, todo, cutoff_ts>>

ClientIdStored(k) ==
    /\ work.id[k[1]] # NoId
    /\ ClientIdSelected(k, work.id[k[1]], work)

ClientIdInserted(k, i) ==
    /\ work.id[k[1]] = NoId
    /\ IsNextRowid(work, i)
    /\ ClientIdSelected(k, i, Inserted(work, k[1], i))

(* Mutant: every row is committed on its own.                              *)
UpsertAutocommit(from) ==
    /\ pc = "upsert"
    /\ from # NoTime => op = "sessions" /\ work.rows[op][<<cid, from>>] > 0
    /\ from # key[2] => HasRoom(work, op, <<cid, key[2]>>)
    /\ work' = Upserted(work, op, cid, from, key[2])
    /\ disk' = work'
    /\ inTxn' = FALSE
    /\ todo' = todo \ {key}
    /\ key' = NoKey
    /\ cid' = NoId
    /\ pc' = "next"
    /\ adrift' = FALSE
    /\ UNCHANGED <<cache, op, batch, cutoff_ts>>

Upsert(from) ==
    /\ pc = "upsert"
    /\ from # NoTime => op = "sessions" /\ work.rows[op][<<cid, from>>] > 0
    /\ from # key[2] => HasRoom(work, op, <<cid, key[2]>>)
    /\ work' = Upserted(work, op, cid, from, key[2])
    /\ inTxn' = TRUE
    /\ todo' = todo \ {key}
    /\ key' = NoKey
    /\ cid' = NoId
    /\ pc' = "next"
    /\ UNCHANGED <<disk, adrift, cache, op, batch, cutoff_ts>>

(* conn.commit() ends every method; prune then clears the cache.           *)
Commit ==
    /\ \/ pc = "next" /\ todo = {}
       \/ pc = "commit"
    /\ disk' = work
    /\ inTxn' = FALSE
    /\ pc' = IF op = "prune" THEN "clear" ELSE "idle"
    /\ batch' = {}
    /\ cutoff_ts' = 0
    /\ adrift' = FALSE
    /\ UNCHANGED <<work, cache, op, todo, key, cid>>

(* prune(cutoff_ts): the expired rows of one table after the other, then   *)
(* the clients left without any row.                                       *)
Prune(cutoff) ==
    /\ pc = "idle"
    /\ cutoff_ts' = cutoff
    /\ op' = "prune"
    /\ pc' = "traffic"
    /\ UNCHANGED <<disk, work, inTxn, adrift, cache, batch, todo, key, cid>>

DeleteRows ==
    /\ pc \in DOMAIN Following
    /\ work' = RowsPruned(work, {pc}, cutoff_ts)
    /\ inTxn' = TRUE
    /\ pc' = Following[pc]
    /\ UNCHANGED <<disk, adrift, cache, op, batch, todo, key, cid, cutoff_ts>>

(* Mutant: prune forgets to commit.                                        *)
DeleteClientsUncommitted ==
    /\ pc = "clients"
    /\ work' = ClientsPruned(work)
    /\ pc' = "clear"
    /\ UNCHANGED <<disk, inTxn, adrift, cache, op, batch, todo, key, cid, cutoff_ts>>

DeleteClients ==
    /\ pc = "clients"
    /\ work' = ClientsPruned(work)
    /\ pc' = "commit"
    /\ UNCHANGED <<disk, inTxn, adrift, cache, op, batch, todo, key, cid, cutoff_ts>>

(* Mutant: prune keeps the cached ids.                                     *)
KeepCache ==
    /\ pc = "clear"
    /\ pc' = "idle"
    /\ UNCHANGED <<disk, work, inTxn, adrift, cache, op, batch, todo, key, cid, cutoff_ts>>

ClearCache ==
    /\ pc = "clear"
    /\ cache' = NoIds
    /\ pc' = "idle"
    /\ UNCHANGED <<disk, work, inTxn, adrift, op, batch, todo, key, cid, cutoff_ts>>

-----------------------------------------------------------------------------
(* Faults.  The method is left where it stands and its batch with it; a    *)
(* shielded fault strikes only if every cached id is the id that name has  *)
(* in the content the connection sees afterwards.                          *)

Left ==
    /\ pc' = "idle"
    /\ batch' = {}
    /\ todo' = {}
    /\ key' = NoKey
    /\ cid' = NoId
    /\ cutoff_ts' = 0
    /\ UNCHANGED op

(* busy_timeout runs out before the first write of the method got the lock *)
Busy ==
    /\ "busy" \in Faults
    /\ \/ pc \in {"next", "upsert"} /\ todo # {}
       \/ pc = "traffic"
    /\ ~inTxn
    /\ Left
    /\ UNCHANGED <<disk, work, inTxn, adrift, cache>>

(* KeyboardInterrupt, or any exception SQLite does not roll back for: the  *)
(* `with self._lock` block ends, the transaction stays open.               *)
Interrupt ==
    /\ "interrupt" \in Faults
    /\ pc # "idle"
    /\ Shielded => CacheAgrees(work)
    /\ adrift' = inTxn
    /\ Left
    /\ UNCHANGED <<disk, work, inTxn, cache>>

(* SQLITE_FULL, SQLITE_IOERR: SQLite rolls the whole transaction back.     *)
Rollback ==
    /\ "rollback" \in Faults
    /\ pc \notin {"idle", "clear"}
    /\ Shielded => CacheAgrees(disk)
    /\ work' = disk
    /\ inTxn' = FALSE
    /\ adrift' = FALSE
    /\ Left
    /\ UNCHANGED <<disk, cache>>

(* `ovpn-metrics prune`, another process: it needs the write lock, and its *)
(* own empty cache is the one it clears.                                   *)
ManualPrune(cutoff) ==
    LET pruned == ClientsPruned(RowsPruned(disk, Tables, cutoff)) IN
    /\ "manual_prune" \in Faults
    /\ ~inTxn
    /\ Shielded => CacheAgrees(pruned)
    /\ disk' = pruned
    /\ work' = pruned
    /\ UNCHANGED <<inTxn, adrift, cache, pc, op, batch, todo, key, cid, cutoff_ts>>

(* close(), or the process dies, and a new one opens the file.             *)
Restart ==
    /\ work' = disk
    /\ inTxn' = FALSE
    /\ adrift' = FALSE
    /\ cache' = NoIds
    /\ Left
    /\ UNCHANGED disk

-----------------------------------------------------------------------------
Method ==
    \/ \E entries \in Batches : FlushAggregates(entries) \/ FlushDns(entries)
    \/ \E names \in SUBSET Clients, now \in Times : RecordSessions(names, now)
    \/ \E k \in todo : ClientIdCached(k) \/ ClientIdStored(k)
    \/ \E k \in todo, i \in Ids : ClientIdInserted(k, i)
    \/ \E from \in Times \cup {NoTime} : Upsert(from)
    \/ Commit
    \/ \E cutoff \in 1 .. MaxTime + 1 : Prune(cutoff)
    \/ DeleteRows
    \/ DeleteClients
    \/ ClearCache

Fault ==
    \/ Busy
    \/ Interrupt
    \/ Rollback
    \/ \E cutoff \in 1 .. MaxTime + 1 : ManualPrune(cutoff)
    \/ Restart

Next == Method \/ Fault

Spec == Init /\ [][Next]_vars

-----------------------------------------------------------------------------
(* Safety.                                                                 *)

NoOrphans(content) ==
    \A tbl \in Tables, i \in Ids, t \in Times :
        content.rows[tbl][<<i, t>>] > 0 => \E c \in Clients : content.id[c] = i

(* Every row a reader can see belongs to a client the clients table still  *)
(* has: the REFERENCES clauses of the schema, which SQLite does not        *)
(* enforce because no connection sets PRAGMA foreign_keys.                 *)
OrphanFree == NoOrphans(disk)

UniqueIds(content) ==
    \A c, d \in Clients :
        content.id[c] = content.id[d] /\ content.id[c] # NoId => c = d

(* What keeps OrphanFree and the refinement below: an id the next upsert   *)
(* may use, cached or already fetched, is the id its name has in the       *)
(* transaction, except between a prune's DELETE FROM clients and its       *)
(* _client_ids.clear(), where no upsert can come.                          *)
IInv ==
    /\ TypeOK
    /\ UniqueIds(disk)
    /\ UniqueIds(work)
    /\ NoOrphans(disk)
    /\ NoOrphans(work)
    /\ ~inTxn => work = disk /\ pc \notin {"dns", "sessions", "clients", "commit"}
    /\ pc \notin {"commit", "clear"} => CacheAgrees(work)
    /\ pc = "upsert" => cid = cache[key[1]] /\ cid # NoId

(* The SQLite write lock is not held between two methods, so that the      *)
(* other processes on the file get their turn, unless a method was left in *)
(* the middle of its transaction: then it is, until another one commits.   *)
LockReleased == pc = "idle" /\ inTxn => adrift

(* The content as readers see it, who join every table to clients.         *)
ByName(content) ==
    [tbl \in Tables |->
        [k \in Keys |-> IF content.id[k[1]] = NoId THEN 0
                        ELSE content.rows[tbl][<<content.id[k[1]], k[2]>>]]]

(* A flush or a prune reaches the file whole or not at all: what the       *)
(* commit of a flush adds to its own table is its batch, entry by entry,   *)
(* what the commit of a prune takes away is every row of every table       *)
(* before its cutoff, and nothing else in the file changes; unless it      *)
(* finds a transaction adrift, whose half of a method it publishes with    *)
(* its own.                                                                *)
AllOrNothing ==
    [][LET before == ByName(disk)
           after  == ByName(disk)' IN
       Commit /\ ~adrift =>
           /\ op \in {"traffic", "dns"} =>
                \A tbl \in Tables, k \in Keys :
                    after[tbl][k] =
                        before[tbl][k] + IF tbl = op /\ k \in batch THEN 1 ELSE 0
           /\ op = "prune" =>
                \A tbl \in Tables, k \in Keys :
                    after[tbl][k] = IF k[2] < cutoff_ts THEN 0 ELSE before[tbl][k]]_vars

L == INSTANCE Ledger WITH committed <- ByName(disk), working <- ByName(work)

(* Ids, cache and clients table are invisible: by name, the database is a  *)
(* ledger.  What a caller writes for a client is recorded for that client  *)
(* and for no other, and it disappears only by expiry or rollback.         *)
ImplementsLedger == L!Spec
=============================================================================
