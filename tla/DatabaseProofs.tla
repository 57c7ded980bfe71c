--------------------------- MODULE DatabaseProofs ---------------------------
(***************************************************************************)
(* Proofs about Database, for every value of its constants.                *)
(***************************************************************************)
EXTENDS Database, TLAPS

-----------------------------------------------------------------------------
(* What the SQL operators preserve.                                        *)

(* Db.py's upserts keep a content well typed as long as the row has room.  *)
LEMMA UpsertedType ==
    ASSUME NEW content \in Contents, NEW tbl \in Tables, NEW i \in Ids,
           NEW t \in Times, NEW from \in Times \cup {NoTime},
           from # NoTime => content.rows[tbl][<<i, from>>] > 0,
           from # t => content.rows[tbl][<<i, t>>] < MaxCount
    PROVE  /\ Upserted(content, tbl, i, from, t) \in Contents
           /\ Upserted(content, tbl, i, from, t).id = content.id
<1> DEFINE new == [r \in Ids \X Times |->
                      content.rows[tbl][r]
                          + (IF r = <<i, t>> THEN 1 ELSE 0)
                          - (IF r = <<i, from>> THEN 1 ELSE 0)]
<1>1. Upserted(content, tbl, i, from, t) =
         [id |-> content.id, rows |-> [content.rows EXCEPT ![tbl] = new]]
  BY DEF Upserted, Contents
<1>2. new \in [Ids \X Times -> 0 .. MaxCount]
  <2>1. SUFFICES ASSUME NEW r \in Ids \X Times
                 PROVE  new[r] \in 0 .. MaxCount
    OBVIOUS
  <2>2. content.rows[tbl] \in [Ids \X Times -> 0 .. MaxCount]
    BY DEF Contents
  <2>3. content.rows[tbl][r] \in 0 .. MaxCount
    BY <2>2
  <2>4. CASE from = t
    BY <2>3, <2>4, BoundsAssumption
  <2>5. CASE from # t
    <3>1. CASE r = <<i, t>>
      BY <2>3, <2>5, <3>1, BoundsAssumption
    <3>2. CASE r = <<i, from>>
      <4>1. from # NoTime
        BY <3>2 DEF Times, NoTime
      <4> QED  BY <2>3, <2>5, <3>2, <4>1, BoundsAssumption
    <3>3. CASE r # <<i, t>> /\ r # <<i, from>>
      BY <2>3, <3>3, BoundsAssumption
    <3> QED  BY <3>1, <3>2, <3>3
  <2> QED  BY <2>4, <2>5
<1> QED  BY <1>1, <1>2 DEF Contents

(* Deleting expired rows removes rows and nothing else.                    *)
LEMMA RowsPrunedType ==
    ASSUME NEW content \in Contents, NEW tables, NEW cutoff
    PROVE  /\ RowsPruned(content, tables, cutoff) \in Contents
           /\ RowsPruned(content, tables, cutoff).id = content.id
           /\ NoOrphans(content) => NoOrphans(RowsPruned(content, tables, cutoff))
<1> DEFINE pruned == RowsPruned(content, tables, cutoff)
<1>1. pruned.id = content.id
  BY DEF RowsPruned
<1>2. ASSUME NEW tbl \in Tables, NEW r \in Ids \X Times
      PROVE  /\ content.rows[tbl][r] \in 0 .. MaxCount
             /\ pruned.rows[tbl][r] = IF tbl \in tables /\ r[2] < cutoff
                                      THEN 0 ELSE content.rows[tbl][r]
  BY <1>2 DEF Contents, RowsPruned
<1>3. pruned \in Contents
  <2>1. 0 \in 0 .. MaxCount
    BY BoundsAssumption
  <2> QED  BY <1>2, <2>1 DEF Contents, RowsPruned
<1>4. ASSUME NoOrphans(content) PROVE NoOrphans(pruned)
  <2>1. ASSUME NEW tbl \in Tables, NEW i \in Ids, NEW t \in Times,
               pruned.rows[tbl][<<i, t>>] > 0
        PROVE  \E c \in Clients : pruned.id[c] = i
    <3>1. content.rows[tbl][<<i, t>>] > 0
      <4>1. <<i, t>> \in Ids \X Times
        BY <2>1
      <4> QED  BY ONLY <1>2, <2>1, <4>1
    <3> QED  BY <1>1, <1>4, <3>1 DEF NoOrphans
  <2> QED  BY <2>1 DEF NoOrphans
<1> QED  BY <1>1, <1>3, <1>4

(* The clients a prune deletes have no row in any table.                   *)
LEMMA ClientsPrunedType ==
    ASSUME NEW content \in Contents
    PROVE  /\ ClientsPruned(content) \in Contents
           /\ ClientsPruned(content).rows = content.rows
           /\ UniqueIds(content) => UniqueIds(ClientsPruned(content))
           /\ NoOrphans(content) => NoOrphans(ClientsPruned(content))
<1> DEFINE pruned == ClientsPruned(content)
<1>1. pruned.rows = content.rows
  BY DEF ClientsPruned
<1>2. ASSUME NEW c \in Clients
      PROVE  /\ pruned.id[c] \in {content.id[c], NoId}
             /\ content.id[c] # NoId /\ HasData(content, content.id[c])
                   => pruned.id[c] = content.id[c]
  BY DEF ClientsPruned
<1>3. pruned \in Contents
  <2>1. \A c \in Clients : pruned.id[c] \in Ids \cup {NoId}
    BY <1>2 DEF Contents
  <2>2. pruned = [id |-> [c \in Clients |-> pruned.id[c]], rows |-> content.rows]
    BY DEF ClientsPruned
  <2>3. content.rows \in [Tables -> [Ids \X Times -> 0 .. MaxCount]]
    BY DEF Contents
  <2> HIDE DEF pruned
  <2>4. [c \in Clients |-> pruned.id[c]] \in [Clients -> Ids \cup {NoId}]
    BY <2>1
  <2>5. ASSUME NEW f \in [Clients -> Ids \cup {NoId}],
               NEW g \in [Tables -> [Ids \X Times -> 0 .. MaxCount]]
        PROVE  [id |-> f, rows |-> g] \in Contents
    BY <2>5 DEF Contents
  <2> QED  BY ONLY <2>2, <2>3, <2>4, <2>5
<1>4. UniqueIds(content) => UniqueIds(pruned)
  <2> HIDE DEF pruned
  <2> QED  BY <1>2 DEF UniqueIds
<1>5. ASSUME NoOrphans(content) PROVE NoOrphans(pruned)
  <2>1. ASSUME NEW tbl \in Tables, NEW i \in Ids, NEW t \in Times,
               content.rows[tbl][<<i, t>>] > 0
        PROVE  \E c \in Clients : pruned.id[c] = i
    <3>1. PICK c \in Clients : content.id[c] = i
      BY <1>5, <2>1 DEF NoOrphans
    <3>2. HasData(content, i) /\ i # NoId
      BY <2>1 DEF HasData, Ids, NoId
    <3> HIDE DEF pruned
    <3> QED  BY <1>2, <3>1, <3>2
  <2> QED  BY <1>1, <2>1 DEF NoOrphans
<1> QED  BY <1>1, <1>3, <1>4, <1>5

LEMMA InsertedContent ==
    ASSUME NEW content \in Contents, NEW c \in Clients, NEW i \in Ids
    PROVE  Inserted(content, c, i) \in Contents
BY DEF Inserted, Contents

(* A new client gets an id that no client has and no row refers to.        *)
LEMMA InsertedType ==
    ASSUME NEW content \in Contents, NoOrphans(content),
           NEW c \in Clients, NEW i \in Ids, content.id[c] = NoId,
           IsNextRowid(content, i)
    PROVE  /\ UniqueIds(content) => UniqueIds(Inserted(content, c, i))
           /\ NoOrphans(Inserted(content, c, i))
           /\ \A d \in Clients : content.id[d] # i
           /\ \A tbl \in Tables, t \in Times : content.rows[tbl][<<i, t>>] = 0
<1>1. content.id \in [Clients -> Ids \cup {NoId}]
  BY DEF Contents
<1>2. content.rows \in [Tables -> [Ids \X Times -> 0 .. MaxCount]]
  BY DEF Contents
<1>3. \A d \in Clients : content.id[d] # i
  BY <1>1, BoundsAssumption DEF IsNextRowid, Ids, NoId
<1>4. ASSUME NEW tbl \in Tables, NEW t \in Times
      PROVE  content.rows[tbl][<<i, t>>] = 0
  <2>1. content.rows[tbl][<<i, t>>] \in 0 .. MaxCount
    BY <1>2, <1>4
  <2> QED  BY <1>3, <1>4, <2>1, BoundsAssumption DEF NoOrphans
<1>5. UniqueIds(content) => UniqueIds(Inserted(content, c, i))
  BY <1>1, <1>3 DEF Inserted, UniqueIds
<1>6. NoOrphans(Inserted(content, c, i))
  <2>1. ASSUME NEW tbl \in Tables, NEW j \in Ids, NEW t \in Times,
               content.rows[tbl][<<j, t>>] > 0
        PROVE  \E d \in Clients : [content.id EXCEPT ![c] = i][d] = j
    <3>1. PICK d \in Clients : content.id[d] = j
      BY <2>1 DEF NoOrphans
    <3>2. d # c
      BY <3>1 DEF Ids, NoId
    <3> QED  BY <1>1, <3>1, <3>2
  <2> QED  BY <2>1 DEF Inserted, NoOrphans
<1> QED  BY <1>3, <1>4, <1>5, <1>6

(* An upsert under the id of a client leaves no orphan.                    *)
LEMMA UpsertedKeepsOwners ==
    ASSUME NEW content \in Contents, NoOrphans(content), NEW tbl \in Tables,
           NEW c \in Clients, NEW i \in Ids, content.id[c] = i,
           NEW t \in Times, NEW from \in Times \cup {NoTime}
    PROVE  NoOrphans(Upserted(content, tbl, i, from, t))
<1>1. ASSUME NEW u \in Tables, NEW j \in Ids, NEW s \in Times, j # i
      PROVE  Upserted(content, tbl, i, from, t).rows[u][<<j, s>>]
                 = content.rows[u][<<j, s>>]
  <2>1. content.rows \in [Tables -> [Ids \X Times -> 0 .. MaxCount]]
    BY DEF Contents
  <2>2. content.rows[u][<<j, s>>] \in 0 .. MaxCount /\ <<j, s>> \in Ids \X Times
    BY <1>1, <2>1
  <2>3. CASE u = tbl
    BY <1>1, <2>1, <2>2, <2>3, BoundsAssumption DEF Upserted
  <2>4. CASE u # tbl
    BY <1>1, <2>1, <2>4 DEF Upserted
  <2> QED  BY <2>3, <2>4
<1>2. Upserted(content, tbl, i, from, t).id = content.id
  BY DEF Upserted
<1>3. ASSUME NEW u \in Tables, NEW j \in Ids, NEW s \in Times,
             Upserted(content, tbl, i, from, t).rows[u][<<j, s>>] > 0
      PROVE  \E d \in Clients : content.id[d] = j
  BY <1>1, <1>3 DEF NoOrphans
<1> QED  BY <1>2, <1>3 DEF NoOrphans

-----------------------------------------------------------------------------
(* The inductive invariant.                                                *)

LEMMA ZeroCutoff == 0 \in 0 .. MaxTime + 1
BY BoundsAssumption

LEMMA EmptyContent ==
    Empty \in Contents /\ UniqueIds(Empty) /\ NoOrphans(Empty)
<1>1. 0 \in 0 .. MaxCount
  BY BoundsAssumption
<1> QED  BY <1>1 DEF Empty, NoIds, NoId, Contents, UniqueIds, NoOrphans

LEMMA InitIInv == Init => IInv
BY EmptyContent, ZeroCutoff DEF Init, IInv, TypeOK, NoIds, NoId, CacheAgrees

(* A caller brings a batch.                                                *)
LEMMA BeginIInv ==
    ASSUME IInv, NEW tbl, NEW entries, entries \subseteq Keys,
           Begin(tbl, entries)
    PROVE  IInv'
BY DEF IInv, TypeOK, Begin, UniqueIds, NoOrphans, CacheAgrees

LEMMA ClientIdCachedIInv ==
    ASSUME IInv, NEW k \in todo, ClientIdCached(k)
    PROVE  IInv'
<1>1. k[1] \in Clients
  BY DEF IInv, TypeOK, Keys
<1> QED  BY <1>1 DEF IInv, TypeOK, ClientIdCached, UniqueIds, NoOrphans, CacheAgrees

(* Both ways of selecting an id put it in the cache.                       *)
LEMMA ClientIdSelectedIInv ==
    ASSUME IInv, NEW k \in todo, NEW i \in Ids, NEW content \in Contents,
           UniqueIds(content), NoOrphans(content), content.id[k[1]] = i,
           \A c \in Clients : c # k[1] => content.id[c] = work.id[c],
           ClientIdSelected(k, i, content)
    PROVE  IInv'
<1>1. k[1] \in Clients
  BY DEF IInv, TypeOK, Keys
<1>2. TypeOK'
  BY <1>1 DEF IInv, TypeOK, ClientIdSelected
<1>3. CacheAgrees(work)'
  BY <1>1 DEF IInv, TypeOK, ClientIdSelected, CacheAgrees
<1>4. cid' = cache'[key'[1]] /\ cid' # NoId
  BY <1>1 DEF IInv, TypeOK, ClientIdSelected, Ids, NoId
<1>5. /\ UniqueIds(disk)' /\ NoOrphans(disk)'
      /\ UniqueIds(work)' /\ NoOrphans(work)'
      /\ inTxn'
  BY DEF IInv, ClientIdSelected, UniqueIds, NoOrphans
<1> QED  BY <1>2, <1>3, <1>4, <1>5 DEF IInv

LEMMA ClientIdStoredIInv ==
    ASSUME IInv, NEW k \in todo, ClientIdStored(k)
    PROVE  IInv'
<1>1. k[1] \in Clients /\ work \in Contents
  BY DEF IInv, TypeOK, Keys
<1>2. work.id[k[1]] \in Ids
  BY <1>1 DEF ClientIdStored, Contents
<1> QED  BY <1>1, <1>2, ClientIdSelectedIInv DEF IInv, ClientIdStored

LEMMA ClientIdInsertedIInv ==
    ASSUME IInv, NEW k \in todo, NEW i \in Ids, ClientIdInserted(k, i)
    PROVE  IInv'
<1>1. k[1] \in Clients /\ work \in Contents
  BY DEF IInv, TypeOK, Keys
<1> DEFINE content == Inserted(work, k[1], i)
<1>2. /\ content \in Contents /\ UniqueIds(content) /\ NoOrphans(content)
  BY <1>1, InsertedType, InsertedContent DEF IInv, ClientIdInserted
<1>3. /\ content.id[k[1]] = i
      /\ \A c \in Clients : c # k[1] => content.id[c] = work.id[c]
  BY <1>1 DEF Inserted, Contents
<1>4. ClientIdSelected(k, i, content)
  BY DEF ClientIdInserted
<1> HIDE DEF content
<1> QED  BY <1>2, <1>3, <1>4, ClientIdSelectedIInv

LEMMA UpsertIInv ==
    ASSUME IInv, NEW from \in Times \cup {NoTime}, Upsert(from)
    PROVE  IInv'
<1>1. /\ work \in Contents /\ op \in Tables /\ key \in todo
      /\ key[1] \in Clients /\ key[2] \in Times
      /\ CacheAgrees(work)
  BY DEF IInv, TypeOK, Upsert, Keys
<1>2. cid \in Ids /\ work.id[key[1]] = cid
  BY <1>1 DEF IInv, TypeOK, Upsert, CacheAgrees
<1>3. from # key[2] => work.rows[op][<<cid, key[2]>>] < MaxCount
  BY DEF Upsert, HasRoom
<1>4. /\ work' \in Contents
      /\ work'.id = work.id
  BY <1>1, <1>2, <1>3, UpsertedType DEF Upsert
<1>5. NoOrphans(work')
  BY <1>1, <1>2, UpsertedKeepsOwners DEF IInv, Upsert
<1>6. UniqueIds(work') /\ CacheAgrees(work)'
  BY <1>1, <1>4 DEF IInv, UniqueIds, CacheAgrees, Upsert
<1>7. TypeOK'
  BY <1>1, <1>4 DEF IInv, TypeOK, Upsert
<1> QED  BY <1>5, <1>6, <1>7 DEF IInv, Upsert, UniqueIds, NoOrphans

(* Only a prune's commit leaves the cache behind, and it goes on to clear. *)
LEMMA CommitIInv == ASSUME IInv, Commit PROVE IInv'
<1>1. TypeOK'
  BY ZeroCutoff DEF IInv, TypeOK, Commit
<1>2. pc' \notin {"commit", "clear"} => CacheAgrees(work)
  BY TablesAssumption DEF IInv, TypeOK, Commit
<1>3. pc' \in {"idle", "clear"} /\ disk' = work /\ work' = work /\ cache' = cache
  BY DEF Commit
<1> QED  BY <1>1, <1>2, <1>3 DEF IInv, UniqueIds, NoOrphans, CacheAgrees

LEMMA PruneIInv ==
    ASSUME IInv, NEW cutoff \in 1 .. MaxTime + 1, Prune(cutoff)
    PROVE  IInv'
<1>1. cutoff \in 0 .. MaxTime + 1
  BY BoundsAssumption
<1>2. TypeOK'
  BY <1>1 DEF IInv, TypeOK, Prune, Following
<1> QED  BY <1>2 DEF IInv, Prune, UniqueIds, NoOrphans, CacheAgrees

LEMMA DeleteRowsIInv == ASSUME IInv, DeleteRows PROVE IInv'
<1>1. work' \in Contents /\ work'.id = work.id /\ NoOrphans(work')
  BY RowsPrunedType DEF IInv, TypeOK, DeleteRows
<1>2. pc \in {"traffic", "dns", "sessions"} /\ pc' \in {"dns", "sessions", "clients"}
  BY DEF DeleteRows, Following
<1>3. TypeOK'
  BY <1>1, <1>2 DEF IInv, TypeOK, DeleteRows, Following
<1>4. UniqueIds(work') /\ CacheAgrees(work)'
  BY <1>1, <1>2 DEF IInv, DeleteRows, UniqueIds, CacheAgrees
<1> QED  BY <1>1, <1>2, <1>3, <1>4 DEF IInv, DeleteRows, UniqueIds, NoOrphans

LEMMA DeleteClientsIInv == ASSUME IInv, DeleteClients PROVE IInv'
<1>1. work' \in Contents /\ UniqueIds(work') /\ NoOrphans(work')
  BY ClientsPrunedType DEF IInv, TypeOK, DeleteClients
<1>2. TypeOK'
  BY <1>1 DEF IInv, TypeOK, DeleteClients
<1>3. inTxn' /\ disk' = disk /\ pc' = "commit"
  BY DEF IInv, DeleteClients
<1> QED  BY <1>1, <1>2, <1>3 DEF IInv, UniqueIds, NoOrphans

LEMMA ClearCacheIInv == ASSUME IInv, ClearCache PROVE IInv'
BY DEF IInv, TypeOK, ClearCache, NoIds, NoId, UniqueIds, NoOrphans, CacheAgrees

(* What the proofs assume of the faults: a lock that stays busy, and a     *)
(* process that dies, may strike at any step; an exception that leaves or  *)
(* rolls back a transaction, and another process's prune, only where every *)
(* cached id is still right afterwards.  The run database_manual_prune     *)
(* shows that the latter cannot be dropped.                                *)
CacheSpared == Shielded \/ Faults \subseteq {"busy"}

LEMMA FaultIInv == ASSUME CacheSpared, IInv, Fault PROVE IInv'
<1>0. Shielded \/ ~(Interrupt \/ Rollback \/ \E cutoff \in 1 .. MaxTime + 1 : ManualPrune(cutoff))
  BY DEF CacheSpared, Interrupt, Rollback, ManualPrune
<1>1. CASE Busy
  BY <1>1, ZeroCutoff DEF IInv, TypeOK, Busy, Left, NoId, UniqueIds, NoOrphans, CacheAgrees
<1>2. CASE Interrupt
  BY <1>0, <1>2, ZeroCutoff DEF IInv, TypeOK, Interrupt, Left, NoId, UniqueIds, NoOrphans, CacheAgrees
<1>3. CASE Rollback
  BY <1>0, <1>3, ZeroCutoff DEF IInv, TypeOK, Rollback, Left, NoId, UniqueIds, NoOrphans, CacheAgrees
<1>4. CASE Restart
  BY <1>4, ZeroCutoff DEF IInv, TypeOK, Restart, Left, NoId, NoIds, UniqueIds, NoOrphans, CacheAgrees
<1>5. ASSUME NEW cutoff \in 1 .. MaxTime + 1, ManualPrune(cutoff) PROVE IInv'
  <2> DEFINE expired == RowsPruned(disk, Tables, cutoff)
             pruned  == ClientsPruned(expired)
  <2>1. /\ expired \in Contents /\ NoOrphans(expired)
        /\ expired.id = disk.id
    BY RowsPrunedType DEF IInv, TypeOK
  <2>2. UniqueIds(expired)
    BY <2>1 DEF IInv, UniqueIds
  <2>3. pruned \in Contents /\ UniqueIds(pruned) /\ NoOrphans(pruned)
    BY <2>1, <2>2, ClientsPrunedType
  <2>4. /\ disk' = pruned /\ work' = pruned /\ CacheAgrees(pruned)
        /\ UNCHANGED <<inTxn, adrift, cache, pc, op, batch, todo, key, cid, cutoff_ts>>
    BY <1>0, <1>5 DEF ManualPrune
  <2> HIDE DEF expired, pruned
  <2>5. TypeOK'
    BY <2>3, <2>4 DEF IInv, TypeOK
  <2>6. CacheAgrees(work)'
    BY <2>4 DEF CacheAgrees
  <2>7. UniqueIds(disk)' /\ UniqueIds(work)' /\ NoOrphans(disk)' /\ NoOrphans(work)'
    BY <2>3, <2>4 DEF UniqueIds, NoOrphans
  <2> QED  BY <2>4, <2>5, <2>6, <2>7 DEF IInv
<1> QED  BY <1>1, <1>2, <1>3, <1>4, <1>5 DEF Fault

LEMMA NextIInv == ASSUME CacheSpared, IInv, [Next]_vars PROVE IInv'
<1>1. ASSUME NEW tbl, NEW entries \in SUBSET Keys, Begin(tbl, entries) PROVE IInv'
  BY <1>1, BeginIInv
<1>2. ASSUME NEW entries \in Batches, FlushAggregates(entries) \/ FlushDns(entries)
      PROVE  IInv'
  BY <1>1, <1>2 DEF Batches, FlushAggregates, FlushDns
<1>3. ASSUME NEW names \in SUBSET Clients, NEW now \in Times, RecordSessions(names, now)
      PROVE  IInv'
  <2>1. names \X {now} \in SUBSET Keys
    BY DEF Keys
  <2> QED  BY <1>1, <1>3, <2>1 DEF RecordSessions
<1>4. CASE Method
  BY <1>2, <1>3, <1>4, ClientIdCachedIInv, ClientIdStoredIInv, ClientIdInsertedIInv,
     UpsertIInv, CommitIInv, PruneIInv, DeleteRowsIInv, DeleteClientsIInv, ClearCacheIInv DEF Method
<1>5. CASE Fault
  BY <1>5, FaultIInv
<1>6. CASE UNCHANGED vars
  BY <1>6 DEF vars, IInv, TypeOK, UniqueIds, NoOrphans, CacheAgrees
<1> QED  BY <1>4, <1>5, <1>6 DEF Next

-----------------------------------------------------------------------------
(* What holds under every fault, wherever it strikes: the types, and that  *)
(* the id about to be used is the cached one.                              *)
CallInv == TypeOK /\ (pc = "upsert" => cid = cache[key[1]] /\ cid # NoId)

LEMMA SelectedCallInv ==
    ASSUME CallInv, NEW k \in todo, NEW i \in Ids, NEW content \in Contents,
           ClientIdSelected(k, i, content)
    PROVE  CallInv'
<1>1. k[1] \in Clients
  BY DEF CallInv, TypeOK, Keys
<1> QED  BY <1>1 DEF CallInv, TypeOK, ClientIdSelected, Ids, NoId

LEMMA MethodCallInv == ASSUME CallInv, Method PROVE CallInv'
<1>1. ASSUME NEW tbl, NEW entries \in SUBSET Keys, Begin(tbl, entries) PROVE CallInv'
  BY <1>1 DEF CallInv, TypeOK, Begin
<1>2. ASSUME NEW k \in todo, ClientIdCached(k) PROVE CallInv'
  <2>1. k[1] \in Clients
    BY DEF CallInv, TypeOK, Keys
  <2> QED  BY <1>2, <2>1 DEF CallInv, TypeOK, ClientIdCached
<1>3. ASSUME NEW k \in todo, ClientIdStored(k) PROVE CallInv'
  <2>1. work \in Contents /\ work.id[k[1]] \in Ids
    BY <1>3 DEF CallInv, TypeOK, Keys, ClientIdStored, Contents
  <2> QED  BY <1>3, <2>1, SelectedCallInv DEF ClientIdStored
<1>4. ASSUME NEW k \in todo, NEW i \in Ids, ClientIdInserted(k, i) PROVE CallInv'
  <2>1. Inserted(work, k[1], i) \in Contents
    BY InsertedContent DEF CallInv, TypeOK, Keys
  <2> QED  BY <1>4, <2>1, SelectedCallInv DEF ClientIdInserted
<1>5. ASSUME NEW from \in Times \cup {NoTime}, Upsert(from) PROVE CallInv'
  <2>1. /\ work \in Contents /\ op \in Tables /\ key[2] \in Times /\ cid \in Ids
        /\ from # key[2] => work.rows[op][<<cid, key[2]>>] < MaxCount
    BY <1>5 DEF CallInv, TypeOK, Upsert, Keys, HasRoom
  <2>2. work' \in Contents
    BY <1>5, <2>1, UpsertedType DEF Upsert
  <2> QED  BY <1>5, <2>2 DEF CallInv, TypeOK, Upsert
<1>6. ASSUME Commit PROVE CallInv'
  BY <1>6, ZeroCutoff DEF CallInv, TypeOK, Commit
<1>7. ASSUME NEW cutoff \in 1 .. MaxTime + 1, Prune(cutoff) PROVE CallInv'
  <2>1. cutoff \in 0 .. MaxTime + 1
    BY BoundsAssumption
  <2> QED  BY <1>7, <2>1 DEF CallInv, TypeOK, Prune, Following
<1>8. ASSUME DeleteRows PROVE CallInv'
  <2>1. work' \in Contents
    BY <1>8, RowsPrunedType DEF CallInv, TypeOK, DeleteRows
  <2>2. pc \in {"traffic", "dns", "sessions"} /\ pc' \in {"dns", "sessions", "clients"}
    BY <1>8 DEF DeleteRows, Following
  <2> QED  BY <1>8, <2>1, <2>2 DEF CallInv, TypeOK, DeleteRows, Following
<1>9. ASSUME DeleteClients PROVE CallInv'
  <2>1. work' \in Contents
    BY <1>9, ClientsPrunedType DEF CallInv, TypeOK, DeleteClients
  <2> QED  BY <1>9, <2>1 DEF CallInv, TypeOK, DeleteClients
<1>10. ASSUME ClearCache PROVE CallInv'
  BY <1>10 DEF CallInv, TypeOK, ClearCache, NoIds
<1>11. ASSUME NEW names \in SUBSET Clients, NEW now \in Times, RecordSessions(names, now)
       PROVE  CallInv'
  <2>1. names \X {now} \in SUBSET Keys
    BY DEF Keys
  <2> QED  BY <1>1, <1>11, <2>1 DEF RecordSessions
<1>12. ASSUME NEW entries \in Batches, FlushAggregates(entries) \/ FlushDns(entries)
       PROVE  CallInv'
  BY <1>1, <1>12 DEF Batches, FlushAggregates, FlushDns
<1> QED  BY <1>2, <1>3, <1>4, <1>5, <1>6, <1>7, <1>8, <1>9, <1>10, <1>11, <1>12 DEF Method

LEMMA NextCallInv == ASSUME CallInv, [Next]_vars PROVE CallInv'
<1>1. ASSUME Busy \/ Interrupt \/ Rollback \/ Restart PROVE CallInv'
  <2>1. CASE Busy
    BY <2>1, ZeroCutoff DEF CallInv, TypeOK, Busy, Left
  <2>2. CASE Interrupt
    BY <2>2, ZeroCutoff DEF CallInv, TypeOK, Interrupt, Left
  <2>3. CASE Rollback
    BY <2>3, ZeroCutoff DEF CallInv, TypeOK, Rollback, Left
  <2>4. CASE Restart
    BY <2>4, ZeroCutoff DEF CallInv, TypeOK, Restart, Left, NoIds
  <2> QED  BY <1>1, <2>1, <2>2, <2>3, <2>4
<1>2. ASSUME NEW cutoff, ManualPrune(cutoff) PROVE CallInv'
  <2>1. disk' \in Contents /\ work' \in Contents
    BY <1>2, RowsPrunedType, ClientsPrunedType DEF CallInv, TypeOK, ManualPrune
  <2> QED  BY <1>2, <2>1 DEF CallInv, TypeOK, ManualPrune
<1>3. CASE UNCHANGED vars
  BY <1>3 DEF vars, CallInv, TypeOK
<1> QED  BY <1>1, <1>2, <1>3, MethodCallInv DEF Next, Fault

LEMMA InitCallInv == Init => CallInv
BY InitIInv DEF IInv, CallInv

(* Whatever sequence of calls, crashes and faults, each variable keeps its *)
(* type: ids and counts stay in range, and a method holds the table and    *)
(* the entry it is about to write.                                         *)
THEOREM TypeCorrect == Spec => []TypeOK
<1>1. CallInv => TypeOK
  BY DEF CallInv
<1> QED  BY <1>1, InitCallInv, NextCallInv, PTL DEF Spec

-----------------------------------------------------------------------------
StaleUpsert == pc = "upsert" /\ work.id[key[1]] # cache[key[1]]

LEMMA OwnersStep ==
    ASSUME CallInv, NoOrphans(disk), NoOrphans(work), ~StaleUpsert, [Next]_vars
    PROVE  NoOrphans(disk') /\ NoOrphans(work')
<1>1. ASSUME NEW tbl, NEW entries, Begin(tbl, entries) PROVE UNCHANGED <<disk, work>>
  BY <1>1 DEF Begin
<1>2. ASSUME NEW k \in todo, ClientIdCached(k) \/ ClientIdStored(k)
      PROVE  UNCHANGED <<disk, work>>
  BY <1>2 DEF ClientIdCached, ClientIdStored, ClientIdSelected
<1>3. ASSUME NEW k \in todo, NEW i \in Ids, ClientIdInserted(k, i)
      PROVE  NoOrphans(disk') /\ NoOrphans(work')
  <2>1. k[1] \in Clients /\ work \in Contents
    BY DEF CallInv, TypeOK, Keys
  <2> QED  BY <1>3, <2>1, InsertedType DEF ClientIdInserted, ClientIdSelected
<1>4. ASSUME NEW from \in Times \cup {NoTime}, Upsert(from)
      PROVE  NoOrphans(disk') /\ NoOrphans(work')
  <2>1. /\ work \in Contents /\ op \in Tables /\ key[1] \in Clients
        /\ key[2] \in Times /\ cid \in Ids /\ work.id[key[1]] = cid
    BY <1>4 DEF CallInv, TypeOK, Upsert, Keys, StaleUpsert
  <2>2. NoOrphans(work')
    BY <1>4, <2>1, UpsertedKeepsOwners DEF Upsert
  <2> QED  BY <1>4, <2>2 DEF Upsert
<1>5. ASSUME Commit PROVE disk' = work /\ work' = work
  BY <1>5 DEF Commit
<1>6. ASSUME DeleteRows \/ DeleteClients PROVE disk' = disk /\ NoOrphans(work')
  BY <1>6, RowsPrunedType, ClientsPrunedType DEF CallInv, TypeOK, DeleteRows, DeleteClients
<1>7. ASSUME ClearCache \/ \E cutoff \in 1 .. MaxTime + 1 : Prune(cutoff)
      PROVE  UNCHANGED <<disk, work>>
  BY <1>7 DEF ClearCache, Prune
<1>8. ASSUME Busy \/ Interrupt \/ Rollback \/ Restart
      PROVE  disk' = disk /\ work' \in {disk, work}
  BY <1>8 DEF Busy, Interrupt, Rollback, Restart
<1>9. ASSUME NEW cutoff, ManualPrune(cutoff) PROVE NoOrphans(disk') /\ work' = disk'
  BY <1>9, RowsPrunedType, ClientsPrunedType DEF CallInv, TypeOK, ManualPrune
<1>10. CASE Method
  BY <1>1, <1>2, <1>3, <1>4, <1>5, <1>6, <1>7, <1>10
     DEF Method, FlushAggregates, FlushDns, RecordSessions
<1>11. CASE Fault
  BY <1>8, <1>9, <1>11 DEF Fault
<1>12. CASE UNCHANGED vars
  BY <1>12 DEF vars
<1> QED  BY <1>10, <1>11, <1>12 DEF Next

(* Under every fault, shielded or not: as long as each row of the file and *)
(* of the transaction has its client, the one step that can end this is an *)
(* upsert under a cached id that is no longer the id of its name.  The     *)
(* cache is the only way to a row without a client, and a process that     *)
(* starts with an empty one makes none until a fault has made it stale.    *)
THEOREM OrphansNeedStaleIds ==
    Spec => [][NoOrphans(disk) /\ NoOrphans(work) /\ ~StaleUpsert
                   => NoOrphans(disk') /\ NoOrphans(work')]_vars
<1>1. CallInv /\ [Next]_vars =>
          [NoOrphans(disk) /\ NoOrphans(work) /\ ~StaleUpsert
               => NoOrphans(disk') /\ NoOrphans(work')]_vars
  BY OwnersStep
<1> QED  BY <1>1, InitCallInv, NextCallInv, PTL DEF Spec

-----------------------------------------------------------------------------
(* Database's own methods, in any order and with any batches, never leave  *)
(* a committed row whose client is gone, wherever a busy lock or a crash   *)
(* stops them; nor does an exception, a rollback or another process's      *)
(* prune that spares the clients whose id is cached.                       *)
THEOREM OwnersKept == ASSUME CacheSpared PROVE Spec => []OrphanFree
<1>1. IInv => OrphanFree
  BY DEF IInv, OrphanFree
<1> QED  BY <1>1, InitIInv, NextIInv, PTL DEF Spec

(* What a reader may build on: ids are unique and rows have owners, in the *)
(* file and in the transaction, and the cache tells the ids of the latter. *)
THEOREM ContentsSound == ASSUME CacheSpared PROVE Spec => []IInv
BY InitIInv, NextIInv, PTL DEF Spec

-----------------------------------------------------------------------------
(* The write lock.                                                         *)

LockInv == LockReleased /\ (pc = "clear" => ~inTxn)

LEMMA NextLockInv == ASSUME LockInv, [Next]_vars PROVE LockInv'
<1> USE DEF LockInv, LockReleased
<1>1. ASSUME NEW tbl, NEW entries, Begin(tbl, entries) PROVE LockInv'
  BY <1>1 DEF Begin
<1>2. ASSUME NEW k \in todo, ClientIdCached(k) PROVE LockInv'
  BY <1>2 DEF ClientIdCached
<1>3. ASSUME NEW k, NEW i, NEW content, ClientIdSelected(k, i, content) PROVE LockInv'
  BY <1>3 DEF ClientIdSelected
<1>4. ASSUME NEW from, Upsert(from) PROVE LockInv'
  BY <1>4 DEF Upsert
<1>5. CASE Commit
  BY <1>5 DEF Commit
<1>6. ASSUME NEW cutoff, Prune(cutoff) PROVE LockInv'
  BY <1>6 DEF Prune
<1>7. CASE DeleteRows \/ DeleteClients
  BY <1>7 DEF DeleteRows, DeleteClients, Following
<1>8. CASE ClearCache
  BY <1>8 DEF ClearCache
<1>9. CASE Method
  BY <1>1, <1>2, <1>3, <1>4, <1>5, <1>6, <1>7, <1>8, <1>9
     DEF Method, FlushAggregates, FlushDns, RecordSessions, ClientIdStored, ClientIdInserted
<1>10. CASE Fault
  <2>1. CASE Busy
    BY <2>1 DEF Busy, Left
  <2>2. CASE Interrupt
    BY <2>2 DEF Interrupt, Left
  <2>3. CASE Rollback \/ Restart
    BY <2>3 DEF Rollback, Restart, Left
  <2>4. ASSUME NEW cutoff, ManualPrune(cutoff) PROVE LockInv'
    BY <2>4 DEF ManualPrune
  <2> QED  BY <1>10, <2>1, <2>2, <2>3, <2>4 DEF Fault
<1>11. CASE UNCHANGED vars
  BY <1>11 DEF vars
<1> QED  BY <1>9, <1>10, <1>11 DEF Next

(* Whatever happens, the collector sits on SQLite's write lock while it    *)
(* runs no method only if one was left in the middle of its transaction;   *)
(* otherwise the command line tools on the same file get their turn.       *)
THEOREM NoIdleLock == Spec => []LockReleased
<1>1. Init => LockInv
  BY DEF Init, LockInv, LockReleased
<1>2. LockInv => LockReleased
  BY DEF LockInv
<1> QED  BY <1>1, <1>2, NextLockInv, PTL DEF Spec

-----------------------------------------------------------------------------
(* The refinement: what each SQL operator does to the content by name.     *)

LEMMA RowTypes ==
    ASSUME NEW content \in Contents, NEW tbl \in Tables, NEW i \in Ids, NEW t \in Times
    PROVE  content.rows[tbl][<<i, t>>] \in 0 .. MaxCount
BY DEF Contents

(* An upsert under the id of client c enters its entry for c alone.        *)
LEMMA UpsertedByName ==
    ASSUME NEW content \in Contents, UniqueIds(content), NEW tbl \in Tables,
           NEW c \in Clients, NEW i \in Ids, content.id[c] = i,
           NEW t \in Times, NEW from \in Times \cup {NoTime}
    PROVE  ByName(Upserted(content, tbl, i, from, t))
               = L!Entered(ByName(content), tbl, c, from, t)
<1> DEFINE new == Upserted(content, tbl, i, from, t)
           row == [k \in Keys |-> ByName(content)[tbl][k]
                                      + (IF k = <<c, t>> THEN 1 ELSE 0)
                                      - (IF k = <<c, from>> THEN 1 ELSE 0)]
<1>1. new.id = content.id /\ i # NoId
  BY DEF Upserted, Ids, NoId
<1>2. ASSUME NEW u \in Tables, u # tbl
      PROVE  new.rows[u] = content.rows[u]
  BY <1>2 DEF Upserted, Contents
<1>3. ASSUME NEW j \in Ids, NEW s \in Times
      PROVE  new.rows[tbl][<<j, s>>]
                 = content.rows[tbl][<<j, s>>]
                       + (IF j = i /\ s = t THEN 1 ELSE 0)
                       - (IF j = i /\ s = from THEN 1 ELSE 0)
  BY <1>3 DEF Upserted, Contents
<1>4. ASSUME NEW k \in Keys PROVE ByName(new)[tbl][k] = row[k]
  <2>1. PICK d \in Clients, s \in Times : k = <<d, s>>
    BY DEF Keys
  <2>2. content.id[d] = i <=> d = c
    BY <1>1 DEF UniqueIds
  <2>3. content.id[d] \in Ids \cup {NoId}
    BY DEF Contents
  <2>4. CASE content.id[d] = NoId
    BY <1>1, <2>1, <2>2, <2>4 DEF ByName
  <2>5. CASE content.id[d] # NoId
    <3>1. content.id[d] \in Ids
      BY <2>3, <2>5
    <3>2. /\ ByName(new)[tbl][k] = new.rows[tbl][<<content.id[d], s>>]
          /\ ByName(content)[tbl][k] = content.rows[tbl][<<content.id[d], s>>]
      BY <1>1, <2>1, <2>5 DEF ByName
    <3> HIDE DEF new
    <3> QED  BY <1>3, <2>1, <2>2, <3>1, <3>2
  <2> QED  BY <2>3, <2>4, <2>5
<1>5. ByName(new) = [u \in Tables |-> IF u = tbl THEN row ELSE ByName(content)[u]]
  <2>1. ASSUME NEW u \in Tables, u # tbl PROVE ByName(new)[u] = ByName(content)[u]
    BY <1>1, <1>2, <2>1 DEF ByName
  <2>2. ByName(new) = [u \in Tables |-> [k \in Keys |-> ByName(new)[u][k]]]
    BY DEF ByName
  <2>3. \A u \in Tables : ByName(new)[u] = [k \in Keys |-> ByName(new)[u][k]]
    BY DEF ByName
  <2> HIDE DEF new
  <2>4. [k \in Keys |-> ByName(new)[tbl][k]] = row
    BY <1>4
  <2> QED  BY <2>1, <2>2, <2>3, <2>4
<1>6. L!Entered(ByName(content), tbl, c, from, t)
          = [u \in Tables |-> IF u = tbl THEN row ELSE ByName(content)[u]]
  BY DEF L!Entered, L!Times, ByName, Keys, Times
<1> QED  BY <1>5, <1>6

(* The id of a new client has no row, so the client starts with none.      *)
LEMMA InsertedByName ==
    ASSUME NEW content \in Contents, NoOrphans(content), UniqueIds(content),
           NEW c \in Clients, NEW i \in Ids, content.id[c] = NoId,
           IsNextRowid(content, i)
    PROVE  ByName(Inserted(content, c, i)) = ByName(content)
<1> DEFINE new == Inserted(content, c, i)
<1>1. new.rows = content.rows /\ i # NoId /\ new.id = [content.id EXCEPT ![c] = i]
  BY DEF Inserted, Ids, NoId
<1>2. content.id \in [Clients -> Ids \cup {NoId}]
  BY DEF Contents
<1>3. \A tbl \in Tables, t \in Times : content.rows[tbl][<<i, t>>] = 0
  BY InsertedType
<1> HIDE DEF new
<1>4. ASSUME NEW tbl \in Tables, NEW k \in Keys
      PROVE  ByName(new)[tbl][k] = ByName(content)[tbl][k]
  <2>1. k[1] \in Clients /\ k[2] \in Times
    BY DEF Keys
  <2>2. CASE k[1] = c
    <3>1. ByName(new)[tbl][k] = 0
      BY <1>1, <1>2, <1>3, <2>1, <2>2 DEF ByName
    <3>2. ByName(content)[tbl][k] = 0
      BY <2>2 DEF ByName
    <3> QED  BY <3>1, <3>2
  <2>3. CASE k[1] # c
    BY <1>1, <1>2, <2>1, <2>3 DEF ByName
  <2> QED  BY <2>2, <2>3
<1>5. /\ ByName(new) = [tbl \in Tables |-> [k \in Keys |-> ByName(new)[tbl][k]]]
      /\ ByName(content) = [tbl \in Tables |-> [k \in Keys |-> ByName(content)[tbl][k]]]
  BY DEF ByName
<1> QED  BY <1>4, <1>5 DEF new

(* Deleting expired rows is the ledger's expiry.                           *)
LEMMA RowsPrunedByName ==
    ASSUME NEW content \in Contents, NEW tables, NEW cutoff
    PROVE  ByName(RowsPruned(content, tables, cutoff))
               = L!Expired(ByName(content), tables, cutoff)
<1> DEFINE new == RowsPruned(content, tables, cutoff)
<1>1. new.id = content.id
  BY DEF RowsPruned
<1>2. ASSUME NEW tbl \in Tables, NEW j \in Ids, NEW t \in Times
      PROVE  new.rows[tbl][<<j, t>>] =
                 IF tbl \in tables /\ t < cutoff
                 THEN 0 ELSE content.rows[tbl][<<j, t>>]
  BY <1>2 DEF RowsPruned
<1> HIDE DEF new
<1>3. ASSUME NEW tbl \in Tables, NEW k \in Keys
      PROVE  ByName(new)[tbl][k] =
                 IF tbl \in tables /\ k[2] < cutoff
                 THEN 0 ELSE ByName(content)[tbl][k]
  <2>1. k[1] \in Clients /\ k[2] \in Times
    BY DEF Keys
  <2>2. CASE content.id[k[1]] = NoId
    BY <1>1, <2>2 DEF ByName
  <2>3. CASE content.id[k[1]] # NoId
    <3>1. content.id[k[1]] \in Ids
      BY <2>1, <2>3 DEF Contents
    <3> QED  BY <1>1, <1>2, <2>1, <2>3, <3>1 DEF ByName
  <2> QED  BY <2>2, <2>3
<1>4. L!Expired(ByName(content), tables, cutoff) =
          [tbl \in Tables |-> [k \in Keys |->
              IF tbl \in tables /\ k[2] < cutoff
              THEN 0 ELSE ByName(content)[tbl][k]]]
  BY DEF L!Expired, L!Times, Keys, Times
<1>5. ByName(new) = [tbl \in Tables |-> [k \in Keys |-> ByName(new)[tbl][k]]]
  BY DEF ByName
<1> QED  BY <1>3, <1>4, <1>5 DEF new

(* The clients a prune deletes had nothing a reader could see.             *)
LEMMA ClientsPrunedByName ==
    ASSUME NEW content \in Contents
    PROVE  ByName(ClientsPruned(content)) = ByName(content)
<1> DEFINE new == ClientsPruned(content)
<1>1. new.rows = content.rows
  BY DEF ClientsPruned
<1>2. ASSUME NEW c \in Clients, new.id[c] # content.id[c]
      PROVE  new.id[c] = NoId /\ ~HasData(content, content.id[c])
  BY <1>2 DEF ClientsPruned
<1> HIDE DEF new
<1>3. ASSUME NEW tbl \in Tables, NEW k \in Keys
      PROVE  ByName(new)[tbl][k] = ByName(content)[tbl][k]
  <2>1. k[1] \in Clients /\ k[2] \in Times
    BY DEF Keys
  <2>2. CASE new.id[k[1]] = content.id[k[1]]
    BY <1>1, <2>2 DEF ByName
  <2>3. CASE new.id[k[1]] # content.id[k[1]]
    <3>1. content.id[k[1]] \in Ids /\ new.id[k[1]] = NoId
      BY <1>2, <2>1, <2>3 DEF Contents
    <3>2. content.rows[tbl][<<content.id[k[1]], k[2]>>] \in 0 .. MaxCount
      BY <2>1, <3>1, RowTypes
    <3>3. ~(content.rows[tbl][<<content.id[k[1]], k[2]>>] > 0)
      BY <1>2, <2>1, <2>3 DEF HasData
    <3> QED  BY <3>1, <3>2, <3>3, BoundsAssumption DEF ByName
  <2> QED  BY <2>2, <2>3
<1> QED  BY <1>3 DEF ByName, new

LEMMA EmptyByName == ByName(Empty) = L!Blank
BY DEF ByName, Empty, NoIds, L!Blank, L!Times, Keys, Times

-----------------------------------------------------------------------------
(* The refinement: each step of the database is a step of the ledger.      *)

LEMMA ClientIdInsertedStep ==
    ASSUME IInv, NEW k \in todo, NEW i \in Ids, ClientIdInserted(k, i)
    PROVE  UNCHANGED L!vars
<1>1. k[1] \in Clients
  BY DEF IInv, TypeOK, Keys
<1>2. work' = Inserted(work, k[1], i) /\ disk' = disk
  BY DEF ClientIdInserted, ClientIdSelected
<1>3. ByName(work') = ByName(work)
  BY <1>1, <1>2, InsertedByName DEF IInv, TypeOK, ClientIdInserted
<1> QED  BY <1>2, <1>3 DEF L!vars, ByName

LEMMA UpsertStep ==
    ASSUME IInv, NEW from \in Times \cup {NoTime}, Upsert(from)
    PROVE  L!Next
<1> DEFINE c == key[1]
           t == key[2]
<1>1. op \in Tables /\ c \in Clients /\ t \in Times /\ work \in Contents
  BY DEF IInv, TypeOK, Upsert, Keys
<1>2. cid \in Ids /\ work.id[c] = cid /\ cid # NoId
  BY <1>1 DEF IInv, TypeOK, Upsert, CacheAgrees
<1>3. work' = Upserted(work, op, cid, from, t) /\ disk' = disk
  BY DEF Upsert
<1>4. ByName(work') = L!Entered(ByName(work), op, c, from, t)
  BY <1>1, <1>2, <1>3, UpsertedByName DEF IInv
<1>5. from # NoTime => op = "sessions" /\ ByName(work)[op][<<c, from>>] > 0
  <2>1. from # NoTime => <<c, from>> \in Keys
    BY <1>1 DEF Keys
  <2> QED  BY <1>1, <1>2, <2>1 DEF Upsert, ByName
<1>6. L!Enter(op, c, from, t)
  <2>1. ByName(work)' = ByName(work') /\ ByName(disk)' = ByName(disk)
    BY <1>3 DEF ByName
  <2> HIDE DEF c, t
  <2> QED  BY <1>4, <1>5, <2>1 DEF L!Enter, L!NoTime, NoTime
<1> HIDE DEF c, t
<1> QED  BY <1>1, <1>6 DEF L!Next, L!Times, L!NoTime, Times, NoTime

LEMMA MethodStep == ASSUME IInv, Method PROVE [L!Next]_(L!vars)
<1>1. ASSUME UNCHANGED <<disk, work>> PROVE UNCHANGED L!vars
  BY <1>1 DEF L!vars, ByName
<1>2. ASSUME NEW tbl, NEW entries, Begin(tbl, entries) PROVE UNCHANGED <<disk, work>>
  BY <1>2 DEF Begin
<1>3. ASSUME NEW k \in todo, ClientIdCached(k) \/ ClientIdStored(k)
      PROVE  UNCHANGED <<disk, work>>
  BY <1>3 DEF ClientIdCached, ClientIdStored, ClientIdSelected
<1>4. ASSUME Commit PROVE L!Publish
  <2>1. disk' = work /\ work' = work
    BY <1>4 DEF Commit
  <2> QED  BY <2>1 DEF L!Publish, ByName
<1>5. ASSUME DeleteRows PROVE L!Next \/ UNCHANGED L!vars
  <2>1. work' = RowsPruned(work, {pc}, cutoff_ts) /\ disk' = disk
    BY <1>5 DEF DeleteRows
  <2>2. ByName(work)' = L!Expired(ByName(work), {pc}, cutoff_ts)
    <3>1. ByName(work') = L!Expired(ByName(work), {pc}, cutoff_ts)
      BY <2>1, RowsPrunedByName DEF IInv, TypeOK
    <3>2. ByName(work)' = ByName(work')
      BY DEF ByName
    <3> QED  BY <3>1, <3>2
  <2>5. ByName(disk)' = ByName(disk)
    BY <2>1 DEF ByName
  <2>3. CASE pc \in Tables
    <3>1. L!Expire(pc, cutoff_ts)
      BY <2>5, <2>2 DEF L!Expire
    <3>2. cutoff_ts \in 0 .. MaxTime + 1
      BY DEF IInv, TypeOK
    <3> QED  BY <2>3, <3>1, <3>2 DEF L!Next
  <2>4. CASE pc \notin Tables
    <3>1. L!Expired(ByName(work), {pc}, cutoff_ts)
              = [tbl \in Tables |-> [k \in Keys |-> ByName(work)[tbl][k]]]
      BY <2>4 DEF L!Expired, L!Times, Keys, Times
    <3>2. ByName(work) = [tbl \in Tables |-> [k \in Keys |-> ByName(work)[tbl][k]]]
      BY DEF ByName
    <3> QED  BY <2>5, <2>2, <3>1, <3>2 DEF L!vars
  <2> QED  BY <2>3, <2>4
<1>6. ASSUME DeleteClients PROVE UNCHANGED L!vars
  <2>1. work' = ClientsPruned(work) /\ disk' = disk
    BY <1>6 DEF DeleteClients
  <2>2. ByName(work') = ByName(work)
    BY <2>1, ClientsPrunedByName DEF IInv, TypeOK
  <2> QED  BY <2>1, <2>2 DEF L!vars, ByName
<1>7. ASSUME ClearCache \/ \E cutoff \in 1 .. MaxTime + 1 : Prune(cutoff)
      PROVE  UNCHANGED <<disk, work>>
  BY <1>7 DEF ClearCache, Prune
<1> QED  BY <1>1, <1>2, <1>3, <1>4, <1>5, <1>6, <1>7, ClientIdInsertedStep, UpsertStep
            DEF Method, FlushAggregates, FlushDns, RecordSessions, L!Next

LEMMA FaultStep == ASSUME IInv, Fault PROVE [L!Next]_(L!vars)
<1>1. ASSUME UNCHANGED <<disk, work>> PROVE UNCHANGED L!vars
  BY <1>1 DEF L!vars, ByName
<1>2. ASSUME Busy \/ Interrupt PROVE UNCHANGED <<disk, work>>
  BY <1>2 DEF Busy, Interrupt
<1>3. ASSUME Rollback \/ Restart PROVE L!Discard
  <2>1. work' = disk /\ disk' = disk
    BY <1>3 DEF Rollback, Restart
  <2> QED  BY <2>1 DEF L!Discard, ByName
<1>4. ASSUME NEW cutoff \in 1 .. MaxTime + 1, ManualPrune(cutoff)
      PROVE  L!ExpireOutside(cutoff)
  <2> DEFINE expired == RowsPruned(disk, Tables, cutoff)
  <2>1. disk' = ClientsPruned(expired) /\ work' = disk' /\ work = disk
    BY <1>4 DEF IInv, ManualPrune
  <2>2. expired \in Contents /\ ByName(expired) = L!Expired(ByName(disk), Tables, cutoff)
    BY RowsPrunedType, RowsPrunedByName DEF IInv, TypeOK
  <2> HIDE DEF expired
  <2>3. ByName(disk') = L!Expired(ByName(disk), Tables, cutoff)
    BY <2>1, <2>2, ClientsPrunedByName
  <2>4. ByName(disk)' = ByName(disk') /\ ByName(work)' = ByName(disk')
    BY <2>1 DEF ByName
  <2> QED  BY <2>1, <2>3, <2>4 DEF L!ExpireOutside
<1> QED  BY <1>1, <1>2, <1>3, <1>4 DEF Fault, L!Next

(* Under the same faults the ids, the cache and the clients table cannot   *)
(* be seen by name: every step is one the ledger allows, so an entry is    *)
(* recorded for the client it was brought for and leaves only by expiry    *)
(* or with the transaction it came in.                                     *)
THEOREM LedgerImplemented == ASSUME CacheSpared PROVE Spec => ImplementsLedger
<1>1. Init => L!Init
  BY EmptyByName DEF Init, L!Init
<1>2. IInv /\ [Next]_vars => [L!Next]_(L!vars)
  <2> SUFFICES ASSUME IInv, [Next]_vars PROVE [L!Next]_(L!vars)
    OBVIOUS
  <2>1. CASE UNCHANGED vars
    BY <2>1 DEF vars, L!vars, ByName
  <2> QED  BY <2>1, MethodStep, FaultStep DEF Next
<1>3. Spec => []IInv
  BY InitIInv, NextIInv, PTL DEF Spec
<1> QED  BY <1>1, <1>2, <1>3, PTL DEF Spec, ImplementsLedger, L!Spec

-----------------------------------------------------------------------------
(* A flush is whole: what its transaction holds, entry by entry.           *)

Flushing == op \in {"traffic", "dns"} /\ pc \in {"next", "upsert"}

Progress ==
    /\ ~inTxn /\ pc \in {"next", "upsert"} => todo = batch
    /\ ~adrift /\ Flushing =>
          \A tbl \in Tables, k \in Keys :
              ByName(work)[tbl][k] =
                  ByName(disk)[tbl][k] + IF tbl = op /\ k \in batch \ todo THEN 1 ELSE 0

LEMMA CountsByName ==
    ASSUME NEW content \in Contents, NEW tbl \in Tables, NEW k \in Keys
    PROVE  ByName(content)[tbl][k] \in Int
<1>1. k[1] \in Clients /\ k[2] \in Times
  BY DEF Keys
<1>2. CASE content.id[k[1]] = NoId
  BY <1>2 DEF ByName
<1>3. CASE content.id[k[1]] # NoId
  <2>1. content.id[k[1]] \in Ids
    BY <1>1, <1>3 DEF Contents
  <2>2. content.rows[tbl][<<content.id[k[1]], k[2]>>] \in 0 .. MaxCount
    BY <1>1, <2>1, RowTypes
  <2> QED  BY <1>3, <2>2, BoundsAssumption DEF ByName
<1> QED  BY <1>2, <1>3

(* Without its batch and its contents moving, a method makes no progress.  *)
LEMMA SameProgress ==
    ASSUME Progress, UNCHANGED <<batch, todo, adrift, op>>, inTxn => inTxn',
           ByName(work)' = ByName(work), ByName(disk)' = ByName(disk),
           pc \in {"next", "upsert"}
    PROVE  Progress'
BY DEF Progress, Flushing

LEMMA UpsertProgress ==
    ASSUME IInv, Progress, NEW from \in Times \cup {NoTime}, Upsert(from)
    PROVE  Progress'
<1>1. /\ op \in Tables /\ key \in todo /\ key \in Keys /\ work \in Contents
      /\ disk \in Contents /\ todo \subseteq batch
      /\ key[1] \in Clients /\ key[2] \in Times /\ key = <<key[1], key[2]>>
  BY DEF IInv, TypeOK, Upsert, Keys
<1>2. cid \in Ids /\ work.id[key[1]] = cid
  BY <1>1 DEF IInv, TypeOK, Upsert, CacheAgrees
<1>3. /\ work' = Upserted(work, op, cid, from, key[2]) /\ inTxn'
      /\ todo' = todo \ {key}
      /\ UNCHANGED <<disk, adrift, op, batch>>
      /\ pc = "upsert"
  BY DEF Upsert
<1>4. ASSUME ~adrift', Flushing', NEW tbl \in Tables, NEW k \in Keys
      PROVE  ByName(work)'[tbl][k] =
                 ByName(disk)'[tbl][k] + IF tbl = op' /\ k \in batch' \ todo' THEN 1 ELSE 0
  <2>1. op \in {"traffic", "dns"} /\ from = NoTime
    BY <1>3, <1>4 DEF Flushing, Upsert
  <2>2. ByName(work') = L!Entered(ByName(work), op, key[1], NoTime, key[2])
    BY <1>1, <1>2, <1>3, <2>1, UpsertedByName DEF IInv
  <2>3. k # <<key[1], NoTime>>
    BY DEF Keys, Times, NoTime
  <2>4. ByName(work) = [u \in Tables |-> ByName(work)[u]]
    BY DEF ByName
  <2>5. ByName(work)[tbl][k] \in Int /\ ByName(disk)[tbl][k] \in Int
    BY <1>1, CountsByName
  <2>6. ByName(work')[tbl][k] = ByName(work)[tbl][k] + IF tbl = op /\ k = key THEN 1 ELSE 0
    <3>1. CASE tbl = op
      <4>1. ByName(work')[op] = [j \in Clients \X L!Times |->
                ByName(work)[op][j] + (IF j = <<key[1], key[2]>> THEN 1 ELSE 0)
                                    - (IF j = <<key[1], NoTime>> THEN 1 ELSE 0)]
        BY <1>1, <2>2, <2>4 DEF L!Entered
      <4>2. k \in Clients \X L!Times
        BY DEF Keys, Times, L!Times
      <4> QED  BY <1>1, <2>3, <2>5, <3>1, <4>1, <4>2
    <3>2. CASE tbl # op
      BY <1>1, <2>2, <2>4, <2>5, <3>2 DEF L!Entered
    <3> QED  BY <3>1, <3>2
  <2>7. ByName(work)[tbl][k] =
            ByName(disk)[tbl][k] + IF tbl = op /\ k \in batch \ todo THEN 1 ELSE 0
    BY <1>3, <1>4, <2>1 DEF Progress, Flushing
  <2>8. ByName(work)' = ByName(work') /\ ByName(disk)' = ByName(disk)
    BY <1>3 DEF ByName
  <2> QED  BY <1>1, <1>3, <2>5, <2>6, <2>7, <2>8
<1> QED  BY <1>3, <1>4 DEF Progress

LEMMA NextProgress ==
    ASSUME IInv, LockInv, Progress, [Next]_vars
    PROVE  Progress'
<1>1. ASSUME NEW tbl, NEW entries, Begin(tbl, entries) PROVE Progress'
  <2>1. /\ todo' = batch' /\ UNCHANGED <<disk, work, inTxn, adrift>> /\ pc = "idle"
    BY <1>1 DEF Begin
  <2>2. ~adrift => work = disk
    BY <2>1 DEF IInv, LockInv, LockReleased
  <2>3. ByName(work)' = ByName(work) /\ ByName(disk)' = ByName(disk)
    BY <2>1 DEF ByName
  <2>4. \A u \in Tables, k \in Keys : ByName(disk)[u][k] \in Int
    BY CountsByName DEF IInv, TypeOK
  <2> QED  BY <2>1, <2>2, <2>3, <2>4 DEF Progress
<1>2. ASSUME NEW k \in todo, ClientIdCached(k) \/ ClientIdStored(k) PROVE Progress'
  <2>1. /\ UNCHANGED <<disk, work, adrift, op, batch, todo>> /\ (inTxn => inTxn')
        /\ pc = "next"
    BY <1>2 DEF ClientIdCached, ClientIdStored, ClientIdSelected
  <2>2. ByName(work)' = ByName(work) /\ ByName(disk)' = ByName(disk)
    BY <2>1 DEF ByName
  <2> QED  BY <2>1, <2>2, SameProgress
<1>3. ASSUME NEW k \in todo, NEW i \in Ids, ClientIdInserted(k, i) PROVE Progress'
  <2>1. UNCHANGED <<adrift, op, batch, todo>> /\ (inTxn => inTxn') /\ pc = "next"
    BY <1>3 DEF ClientIdInserted, ClientIdSelected
  <2>2. ByName(work)' = ByName(work) /\ ByName(disk)' = ByName(disk)
    BY <1>3, ClientIdInsertedStep DEF L!vars
  <2> QED  BY <2>1, <2>2, SameProgress
<1>4. CASE Commit
  BY <1>4 DEF Commit, Progress, Flushing
<1>5. ASSUME NEW cutoff, Prune(cutoff) PROVE Progress'
  BY <1>5 DEF Prune, Progress, Flushing
<1>6. CASE DeleteRows \/ DeleteClients \/ ClearCache
  BY <1>6 DEF DeleteRows, Following, DeleteClients, ClearCache, Progress, Flushing
<1>7. CASE Method
  BY <1>1, <1>2, <1>3, <1>4, <1>5, <1>6, <1>7, UpsertProgress
     DEF Method, FlushAggregates, FlushDns, RecordSessions
<1>8. CASE Busy \/ Interrupt \/ Rollback \/ Restart
  BY <1>8 DEF Busy, Interrupt, Rollback, Restart, Left, Progress, Flushing
<1>9. ASSUME NEW cutoff \in 1 .. MaxTime + 1, ManualPrune(cutoff) PROVE Progress'
  <2>1. /\ ~inTxn /\ work' = disk' /\ UNCHANGED <<inTxn, pc, batch, todo>>
    BY <1>9 DEF ManualPrune
  <2>2. ByName(work)' = ByName(disk)'
    BY <2>1 DEF ByName
  <2>3. disk' = ClientsPruned(RowsPruned(disk, Tables, cutoff))
    BY <1>9 DEF ManualPrune
  <2>4. disk' \in Contents
    BY <2>3, RowsPrunedType, ClientsPrunedType DEF IInv, TypeOK
  <2>5. ByName(disk)' = ByName(disk')
    BY DEF ByName
  <2>6. \A u \in Tables, k \in Keys : ByName(disk)'[u][k] \in Int
    BY <2>4, <2>5, CountsByName
  <2> QED  BY <2>1, <2>2, <2>6 DEF Progress, Flushing
<1>10. CASE Fault
  BY <1>8, <1>9, <1>10 DEF Fault
<1>11. CASE UNCHANGED vars
  <2>1. ByName(work)' = ByName(work) /\ ByName(disk)' = ByName(disk)
    BY <1>11 DEF vars, ByName
  <2> QED  BY <1>11, <2>1 DEF vars, Progress, Flushing
<1> QED  BY <1>7, <1>10, <1>11 DEF Next

-----------------------------------------------------------------------------
(* A prune is whole: the tables it has been through are without their      *)
(* expired rows, and nothing else differs from the file.                   *)

Pruning == pc \in {"traffic", "dns", "sessions", "clients", "commit"}

Gone(tbl) ==
    \/ tbl = "traffic" /\ pc \in {"dns", "sessions", "clients", "commit"}
    \/ tbl = "dns" /\ pc \in {"sessions", "clients", "commit"}
    \/ tbl = "sessions" /\ pc \in {"clients", "commit"}

PruneProgress ==
    ~adrift /\ Pruning =>
        \A tbl \in Tables, k \in Keys :
            ByName(work)[tbl][k] =
                IF Gone(tbl) /\ k[2] < cutoff_ts THEN 0 ELSE ByName(disk)[tbl][k]

LEMMA DeleteRowsProgress ==
    ASSUME IInv, PruneProgress, DeleteRows
    PROVE  PruneProgress'
<1>1. /\ work' = RowsPruned(work, {pc}, cutoff_ts) /\ UNCHANGED <<disk, adrift, cutoff_ts>>
      /\ pc \in {"traffic", "dns", "sessions"} /\ pc' = Following[pc]
  BY DEF DeleteRows, Following
<1>2. ByName(work') = L!Expired(ByName(work), {pc}, cutoff_ts)
  BY <1>1, RowsPrunedByName DEF IInv, TypeOK
<1>3. ByName(work)' = ByName(work') /\ ByName(disk)' = ByName(disk)
  BY <1>1 DEF ByName
<1>4. ASSUME NEW tbl \in Tables, NEW k \in Keys
      PROVE  ByName(work)'[tbl][k] =
                 IF tbl = pc /\ k[2] < cutoff_ts THEN 0 ELSE ByName(work)[tbl][k]
  BY <1>2, <1>3 DEF L!Expired, L!Times, Keys, Times
<1>5. ASSUME NEW tbl \in Tables PROVE Gone(tbl)' <=> Gone(tbl) \/ tbl = pc
  BY <1>1 DEF Gone, Following
<1>6. Pruning
  BY <1>1 DEF Pruning
<1> QED  BY <1>1, <1>3, <1>4, <1>5, <1>6 DEF PruneProgress

LEMMA NextPruneProgress ==
    ASSUME IInv, LockInv, PruneProgress, [Next]_vars
    PROVE  PruneProgress'
<1>1. ASSUME NEW tbl, NEW entries, Begin(tbl, entries) PROVE ~Pruning'
  BY <1>1 DEF Begin, Pruning
<1>2. ASSUME NEW k, ClientIdCached(k) PROVE ~Pruning'
  BY <1>2 DEF ClientIdCached, Pruning
<1>3. ASSUME NEW k, NEW i, NEW content, ClientIdSelected(k, i, content) PROVE ~Pruning'
  BY <1>3 DEF ClientIdSelected, Pruning
<1>4. ASSUME NEW from, Upsert(from) PROVE ~Pruning'
  BY <1>4 DEF Upsert, Pruning
<1>5. ASSUME Commit \/ ClearCache PROVE ~Pruning'
  BY <1>5 DEF Commit, ClearCache, Pruning
<1>6. ASSUME NEW cutoff, Prune(cutoff) PROVE PruneProgress'
  <2>1. UNCHANGED <<disk, work, adrift>> /\ pc = "idle" /\ pc' = "traffic"
    BY <1>6 DEF Prune
  <2>2. ~adrift => work = disk
    BY <2>1 DEF IInv, LockInv, LockReleased
  <2>3. ByName(work)' = ByName(work) /\ ByName(disk)' = ByName(disk)
    BY <2>1 DEF ByName
  <2> QED  BY <2>1, <2>2, <2>3 DEF PruneProgress, Gone
<1>7. ASSUME DeleteClients PROVE PruneProgress'
  <2>1. /\ UNCHANGED <<disk, adrift, cutoff_ts>> /\ work' = ClientsPruned(work)
        /\ pc = "clients" /\ pc' = "commit"
    BY <1>7 DEF DeleteClients
  <2>2. ByName(work') = ByName(work)
    BY <2>1, ClientsPrunedByName DEF IInv, TypeOK
  <2>3. ByName(work)' = ByName(work') /\ ByName(disk)' = ByName(disk)
    BY <2>1 DEF ByName
  <2> QED  BY <2>1, <2>2, <2>3 DEF PruneProgress, Pruning, Gone
<1>8. CASE Method
  BY <1>1, <1>2, <1>3, <1>4, <1>5, <1>6, <1>7, <1>8, DeleteRowsProgress
     DEF Method, FlushAggregates, FlushDns, RecordSessions, ClientIdStored,
         ClientIdInserted, PruneProgress
<1>9. CASE Busy \/ Interrupt \/ Rollback \/ Restart
  BY <1>9 DEF Busy, Interrupt, Rollback, Restart, Left, PruneProgress, Pruning
<1>10. ASSUME NEW cutoff \in 1 .. MaxTime + 1, ManualPrune(cutoff) PROVE PruneProgress'
  <2>1. ~inTxn /\ work' = disk' /\ pc' = pc
    BY <1>10 DEF ManualPrune
  <2>2. ByName(work)' = ByName(disk)'
    BY <2>1 DEF ByName
  <2> QED  BY <2>1, <2>2 DEF IInv, PruneProgress, Pruning, Gone
<1>11. CASE UNCHANGED vars
  <2>1. ByName(work)' = ByName(work) /\ ByName(disk)' = ByName(disk)
    BY <1>11 DEF vars, ByName
  <2> QED  BY <1>11, <2>1 DEF vars, PruneProgress, Pruning, Gone
<1> QED  BY <1>8, <1>9, <1>10, <1>11 DEF Next, Fault

(* flush_aggregates, flush_dns, prune: whatever stops a method, and        *)
(* whatever other methods, processes and faults do in between, a commit    *)
(* that finds no transaction adrift adds to the file one count for each    *)
(* entry of a flush, or takes away what a prune expires in all tables, and *)
(* changes nothing else.                                                   *)
THEOREM MethodsAtomic == ASSUME CacheSpared PROVE Spec => AllOrNothing
<1> DEFINE AInv == IInv /\ LockInv /\ Progress /\ PruneProgress
           Added == LET before == ByName(disk)
                        after  == ByName(disk)' IN
                    op \in {"traffic", "dns"} =>
                        \A tbl \in Tables, k \in Keys :
                            after[tbl][k] =
                                before[tbl][k] + IF tbl = op /\ k \in batch THEN 1 ELSE 0
           Taken == LET before == ByName(disk)
                        after  == ByName(disk)' IN
                    op = "prune" =>
                        \A tbl \in Tables, k \in Keys :
                            after[tbl][k] = IF k[2] < cutoff_ts THEN 0 ELSE before[tbl][k]
<1>1. Init => AInv
  BY InitIInv DEF Init, LockInv, LockReleased, Progress, Flushing, PruneProgress, Pruning
<1>2. AInv /\ [Next]_vars => AInv'
  BY NextIInv, NextLockInv, NextProgress, NextPruneProgress
<1>3. AInv /\ [Next]_vars => [Commit /\ ~adrift => Added /\ Taken]_vars
  <2> SUFFICES ASSUME AInv, Commit, ~adrift PROVE Added /\ Taken
    OBVIOUS
  <2>1. ByName(disk)' = ByName(work)
    BY DEF Commit, ByName
  <2>2. ASSUME op \in {"traffic", "dns"}, NEW tbl \in Tables, NEW k \in Keys
        PROVE  ByName(disk)'[tbl][k] =
                   ByName(disk)[tbl][k] + IF tbl = op /\ k \in batch THEN 1 ELSE 0
    <3>1. pc = "next" /\ batch \ todo = batch
      BY <2>2 DEF Commit, IInv, TypeOK
    <3> QED  BY <2>1, <2>2, <3>1 DEF Progress, Flushing
  <2>3. ASSUME op = "prune", NEW tbl \in Tables, NEW k \in Keys
        PROVE  ByName(disk)'[tbl][k] = IF k[2] < cutoff_ts THEN 0 ELSE ByName(disk)[tbl][k]
    <3>1. pc = "commit"
      BY <2>3, TablesAssumption DEF Commit, IInv, TypeOK
    <3>2. Gone(tbl)
      BY <2>3, <3>1, TablesAssumption DEF Gone
    <3> QED  BY <2>1, <2>3, <3>1, <3>2 DEF PruneProgress, Pruning
  <2> QED  BY <2>2, <2>3
<1> QED  BY <1>1, <1>2, <1>3, PTL DEF Spec, AllOrNothing
=============================================================================
