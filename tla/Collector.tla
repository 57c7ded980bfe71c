------------------------------ MODULE Collector ------------------------------
(***************************************************************************)
(* The main thread of `ovpn-metrics collect`: collector.Collector with the *)
(* traffic table it writes, against the clock.                             *)
(*                                                                         *)
(* Every packet read is added to the aggregate of its time bucket, and     *)
(* then, only then, the thread looks at the clock and flushes or prunes if *)
(* that is due.  One client and one flow stand for all: rows differ by     *)
(* bucket only.  A row or aggregate value is [packets, first_ts, last_ts]. *)
(* `seen`, `expired` and `lost` count packets for the properties alone.    *)
(***************************************************************************)
EXTENDS Integers, FiniteSets

CONSTANTS
    BucketSeconds, FlushInterval, PruneInterval, Retention,
    MaxLag,     \* a packet is read at most this long after its timestamp
    MaxGap,     \* the thread comes back for a packet at least this often
    MaxTime,    \* bound: the clock runs from 1 to MaxTime
    MaxPackets, \* bound: packets of one bucket
    Faults      \* what may go wrong with the process

ASSUME ClockAssumption ==
    /\ BucketSeconds \in Nat \ {0}
    /\ FlushInterval \in Nat
    /\ PruneInterval \in Nat \ {0}
    /\ Retention \in Nat
    /\ MaxLag \in Nat
    /\ MaxGap \in Nat
    /\ MaxTime \in Nat \ {0}
    /\ MaxPackets \in Nat
    /\ Faults \subseteq {"flush_fails", "killed"}

VARIABLES
    now,        \* time.time() and time.monotonic()
    lastPacket, \* when the thread last came back for a packet
    agg,        \* Collector._agg
    pending,    \* the aggregate flush() took, on its way to the table
    rows,       \* the traffic table
    lastFlush,  \* Collector._last_flush
    lastPrune,  \* Collector._last_prune
    cutoff,     \* prune's local of that name, while db.prune runs
    pc,         \* where the thread is
    stopping,   \* the flush in progress is the last one
    seen, expired, lost

clocks == <<lastFlush, lastPrune, cutoff>>
counts == <<seen, expired, lost>>
vars   == <<now, lastPacket, agg, pending, rows, clocks, pc, stopping, counts>>

Never   == 0
Stamps  == 1 .. MaxTime
Bucket(ts) == ts - (ts % BucketSeconds)
Buckets == {Bucket(ts) : ts \in Stamps}

NoRow == [packets |-> 0, first_ts |-> 0, last_ts |-> 0]
Row   == [packets : Nat, first_ts : Nat, last_ts : Nat]
Rows  == [Buckets -> Row]
NoRows == [b \in Buckets |-> NoRow]
Zero   == [b \in Buckets |-> 0]

Lesser(x, y)  == IF x < y THEN x ELSE y
Greater(x, y) == IF x > y THEN x ELSE y

(* add_packet's update of a value, and the table's ON CONFLICT DO UPDATE.  *)
Merged(r, s) ==
    IF r.packets = 0 THEN s ELSE IF s.packets = 0 THEN r ELSE
    [packets  |-> r.packets + s.packets,
     first_ts |-> Lesser(r.first_ts, s.first_ts),
     last_ts  |-> Greater(r.last_ts, s.last_ts)]

Single(ts) == [packets |-> 1, first_ts |-> ts, last_ts |-> ts]

Counted(count, table) == [b \in Buckets |-> count[b] + table[b].packets]

TypeOK ==
    /\ now \in Stamps
    /\ lastPacket \in Stamps
    /\ agg \in Rows /\ pending \in Rows /\ rows \in Rows
    /\ lastFlush \in Stamps
    /\ lastPrune \in Stamps \cup {Never}
    /\ cutoff \in Int
    /\ pc \in {"wait", "flush", "write", "prune", "delete", "stamp", "stopped"}
    /\ stopping \in BOOLEAN
    /\ seen \in [Buckets -> Nat]
    /\ expired \in [Buckets -> Nat]
    /\ lost \in [Buckets -> Nat]

-----------------------------------------------------------------------------
(* A new process finds what earlier ones left in the table.                *)
Init ==
    /\ now = 1
    /\ lastPacket = 1
    /\ agg = NoRows
    /\ pending = NoRows
    /\ rows = NoRows
    /\ lastFlush = 1
    /\ lastPrune = Never
    /\ cutoff = Never
    /\ pc = "wait"
    /\ stopping = FALSE
    /\ seen = Zero
    /\ expired = Zero
    /\ lost = Zero

(* Time passes while the thread waits for a packet or for the database     *)
(* (in a flush, or in a prune that waits for its locks or deletes), or     *)
(* while no collector runs.                                                *)
Tick ==
    /\ now < MaxTime
    /\ \/ pc = "stopped"
       \/ pc \in {"wait", "write", "delete", "stamp"} /\ now < lastPacket + MaxGap
    /\ now' = now + 1
    /\ UNCHANGED <<lastPacket, agg, pending, rows, clocks, pc, stopping, counts>>

(* Mutant: the bucket is that of the clock, not of the packet.             *)
AddPacketByClock(ts) ==
    /\ pc = "wait"
    /\ ts \in Stamps /\ ts =< now /\ ts >= now - MaxLag
    /\ seen[Bucket(now)] < MaxPackets
    /\ agg' = [agg EXCEPT ![Bucket(now)] = Merged(@, Single(ts))]
    /\ seen' = [seen EXCEPT ![Bucket(now)] = @ + 1]
    /\ lastPacket' = now
    /\ pc' = "flush"
    /\ UNCHANGED <<now, pending, rows, clocks, stopping, expired, lost>>

(* run: the next packet of the capture, then add_packet.                   *)
AddPacket(ts) ==
    /\ pc = "wait"
    /\ ts \in Stamps /\ ts =< now /\ ts >= now - MaxLag
    /\ seen[Bucket(ts)] < MaxPackets
    /\ agg' = [agg EXCEPT ![Bucket(ts)] = Merged(@, Single(ts))]
    /\ seen' = [seen EXCEPT ![Bucket(ts)] = @ + 1]
    /\ lastPacket' = now
    /\ pc' = "flush"
    /\ UNCHANGED <<now, pending, rows, clocks, stopping, expired, lost>>

(* A packet of no client is read too, and makes the thread look at the     *)
(* clock all the same.                                                     *)
SkipPacket ==
    /\ pc = "wait"
    /\ lastPacket' = now
    /\ pc' = "flush"
    /\ UNCHANGED <<now, agg, pending, rows, clocks, stopping, counts>>

(* Mutant: flush does not replace the aggregate by an empty one.           *)
CopyAggregate ==
    /\ pending' = agg
    /\ pc' = "write"
    /\ UNCHANGED agg

(* flush takes the aggregate and leaves an empty one ...                   *)
TakeAggregate ==
    /\ pending' = agg
    /\ agg' = NoRows
    /\ pc' = "write"

(* Mutant: > for >= in the comparison of the intervals.                    *)
MaybeFlushLater ==
    /\ pc = "flush"
    /\ IF now - lastFlush > FlushInterval THEN TakeAggregate
       ELSE pc' = "prune" /\ UNCHANGED <<agg, pending>>
    /\ UNCHANGED <<now, lastPacket, rows, clocks, stopping, counts>>

MaybeFlush ==
    /\ pc = "flush"
    /\ IF now - lastFlush >= FlushInterval THEN TakeAggregate
       ELSE pc' = "prune" /\ UNCHANGED <<agg, pending>>
    /\ UNCHANGED <<now, lastPacket, rows, clocks, stopping, counts>>

(* ... and hands it to db.flush_aggregates.                                *)
WriteRows ==
    /\ pc = "write"
    /\ rows' = [b \in Buckets |-> Merged(rows[b], pending[b])]
    /\ pending' = NoRows
    /\ lastFlush' = now
    /\ pc' = IF stopping THEN "stopped" ELSE "prune"
    /\ UNCHANGED <<now, lastPacket, agg, lastPrune, cutoff, stopping, counts>>

(* Mutant: > for >= here too.                                              *)
PruneDueLater ==
    /\ Retention > 0
    /\ lastPrune = Never \/ now - lastPrune > PruneInterval

PruneDue ==
    /\ Retention > 0
    /\ lastPrune = Never \/ now - lastPrune >= PruneInterval

(* maybe_prune, and the cutoff that prune computes.                        *)
MaybePrune ==
    /\ pc = "prune"
    /\ IF PruneDue THEN pc' = "delete" /\ cutoff' = now - Retention
                   ELSE pc' = "wait" /\ UNCHANGED cutoff
    /\ UNCHANGED <<now, lastPacket, agg, pending, rows, lastFlush, lastPrune, stopping, counts>>

Expired(b) == b < cutoff

(* db.prune's DELETE FROM traffic WHERE bucket < cutoff, after whatever    *)
(* wait for Database._lock and SQLite's lock.                              *)
PruneRows ==
    /\ pc = "delete"
    /\ rows' = [b \in Buckets |-> IF Expired(b) THEN NoRow ELSE rows[b]]
    /\ expired' = [b \in Buckets |->
                      expired[b] + IF Expired(b) THEN rows[b].packets ELSE 0]
    /\ pc' = "stamp"
    /\ UNCHANGED <<now, lastPacket, agg, pending, clocks, stopping, seen, lost>>

(* db.prune has returned: _last_prune = time.monotonic().                  *)
StampPrune ==
    /\ pc = "stamp"
    /\ lastPrune' = now
    /\ cutoff' = Never
    /\ pc' = "wait"
    /\ UNCHANGED <<now, lastPacket, agg, pending, rows, lastFlush, stopping, counts>>

(* End of the capture, Ctrl-C, or a prune that raises, with its deletion   *)
(* (which the last flush then commits) or without: run leaves its loop and *)
(* flushes once more.                                                      *)
Finish ==
    /\ pc \in {"wait", "flush", "prune", "delete", "stamp"}
    /\ stopping' = TRUE
    /\ TakeAggregate
    /\ UNCHANGED <<now, lastPacket, rows, clocks, counts>>

(* db.flush_aggregates raises (lock held too long, disk full, Ctrl-C): run *)
(* leaves its loop, the final flush finds an empty aggregate.              *)
FlushFails ==
    /\ "flush_fails" \in Faults
    /\ pc = "write"
    /\ pending # NoRows
    /\ lost' = Counted(lost, pending)
    /\ pending' = NoRows
    /\ pc' = "stopped"
    /\ UNCHANGED <<now, lastPacket, agg, rows, clocks, stopping, seen, expired>>

(* SIGTERM has no handler: what `systemctl stop` sends, like a crash,      *)
(* drops everything that is not in the file.                               *)
Killed ==
    /\ "killed" \in Faults
    /\ pc # "stopped"
    /\ lost' = Counted(Counted(lost, pending), agg)
    /\ pending' = NoRows
    /\ agg' = NoRows
    /\ pc' = "stopped"
    /\ UNCHANGED <<now, lastPacket, rows, clocks, stopping, seen, expired>>

(* Mutant: _last_flush starts out unset, as _last_prune does.              *)
StartUnset ==
    /\ pc = "stopped"
    /\ pc' = "wait"
    /\ stopping' = FALSE
    /\ lastFlush' = Never
    /\ lastPrune' = Never
    /\ cutoff' = Never
    /\ lastPacket' = now
    /\ agg' = NoRows
    /\ UNCHANGED <<now, pending, rows, counts>>

Start ==
    /\ pc = "stopped"
    /\ pc' = "wait"
    /\ stopping' = FALSE
    /\ lastFlush' = now
    /\ lastPrune' = Never
    /\ cutoff' = Never
    /\ lastPacket' = now
    /\ agg' = NoRows
    /\ UNCHANGED <<now, pending, rows, counts>>

Next ==
    \/ Tick
    \/ \E ts \in Stamps : AddPacket(ts)
    \/ SkipPacket
    \/ MaybeFlush
    \/ WriteRows
    \/ MaybePrune
    \/ PruneRows
    \/ StampPrune
    \/ Finish
    \/ FlushFails
    \/ Killed
    \/ Start

Spec == Init /\ [][Next]_vars

-----------------------------------------------------------------------------
(* Every packet given to a client is in exactly one place, however flushes *)
(* merge and prunes interleave: still aggregated, on its way, in the       *)
(* table, expired, or lost with a process that died or a failed flush.     *)
ExactCount ==
    \A b \in Buckets :
        seen[b] = agg[b].packets + pending[b].packets + rows[b].packets
                      + expired[b] + lost[b]

(* A row's first and last timestamps lie in its bucket, in order.          *)
SpanInBucket(table) ==
    \A b \in Buckets : table[b].packets > 0 =>
        /\ b =< table[b].first_ts
        /\ table[b].first_ts =< table[b].last_ts
        /\ table[b].last_ts < b + BucketSeconds

RowSpan == SpanInBucket(rows)

(* While packets keep coming, none stays out of the table for longer than  *)
(* the flush interval and one gap, after the lag of the pipe.              *)
FlushLag ==
    pc = "wait" => \A b \in Buckets : agg[b].packets > 0 =>
        now - agg[b].first_ts < FlushInterval + MaxGap + MaxLag

(* While packets keep coming, the table holds no bucket older than the     *)
(* retention, the prune interval and two gaps: it stops growing.  One gap  *)
(* may pass until a packet makes a prune due, and one in a prune, between  *)
(* its cutoff and the time it is given.  A flush after a prune may bring   *)
(* old buckets back, but none that the prune would have deleted, as long   *)
(* as the retention is longer than a packet can take to the table.         *)
Window ==
    pc = "wait" /\ lastPrune # Never /\ Retention >= FlushInterval + MaxLag + BucketSeconds
    => \A b \in Buckets : rows[b].packets > 0 =>
            now - b < Retention + PruneInterval + 2 * MaxGap

(* README: aggregates are flushed every --flush-interval seconds.          *)
FlushedOnTime ==
    pc = "wait" => \A b \in Buckets : agg[b].packets > 0 =>
        now - agg[b].first_ts =< 2 * FlushInterval + MaxLag
=============================================================================
