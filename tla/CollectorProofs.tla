--------------------------- MODULE CollectorProofs ---------------------------
(***************************************************************************)
(* The collector's promises about its packets and about time, proved for   *)
(* every bucket width, interval, retention, lag and gap: no packet is      *)
(* counted twice or forgotten, rows keep to their bucket, a flush is late  *)
(* by a gap at most, and the table does not outgrow its window.            *)
(***************************************************************************)
EXTENDS Collector, TLAPS

(* An aggregate leaves the collector before the batch leaves flush.        *)
Handover ==
    /\ pc # "write" => pending = NoRows
    /\ pc \in {"write", "stopped"} => agg = NoRows

Spans == SpanInBucket(agg) /\ SpanInBucket(pending) /\ SpanInBucket(rows)

(* The clocks of the thread, which looks at them after a packet only.      *)
Clocks ==
    /\ lastPacket =< now /\ lastFlush =< now /\ lastPrune =< now
    /\ pc # "stopped" => now =< lastPacket + MaxGap
    /\ pc = "flush" => now = lastPacket
    /\ pc = "wait" /\ lastPrune # Never /\ Retention > 0 =>
          lastPacket - lastPrune < PruneInterval
    /\ pc \in {"delete", "stamp"} =>
          /\ lastPacket - Retention =< cutoff
          /\ cutoff =< now - Retention

(* What is in memory is younger than the last flush, and when the thread   *)
(* passes a flush that is not due there was a flush shortly before; it     *)
(* gets to the cutoff of a prune at once then.                             *)
Young ==
    \A b \in Buckets :
        /\ pending[b].packets > 0 => pending[b].first_ts >= lastFlush - MaxLag
        /\ agg[b].packets > 0 =>
              /\ agg[b].first_ts >= lastFlush - MaxLag
              /\ pc \in {"wait", "prune", "delete", "stamp"} =>
                    lastPacket - lastFlush < FlushInterval
              /\ pc = "prune" => now = lastPacket
              /\ pc = "delete" => cutoff = lastPacket - Retention

Dwarfs == Retention >= FlushInterval + MaxLag + BucketSeconds

(* No packet anywhere is in a bucket the last prune would have deleted;    *)
(* its cutoff was taken a gap before the time it was given, at most.       *)
Kept ==
    Dwarfs => \A b \in Buckets :
        agg[b].packets > 0 \/ pending[b].packets > 0 \/ rows[b].packets > 0 =>
            /\ lastPrune # Never => b >= lastPrune - Retention - MaxGap
            /\ pc = "stamp" => b >= cutoff

(* The inductive invariant.                                                *)
CInv == TypeOK /\ Handover /\ ExactCount /\ Spans /\ Clocks /\ Young /\ Kept

-----------------------------------------------------------------------------
USE ClockAssumption

(* A bucket starts at most a bucket's width before its packets.            *)
LEMMA BucketFacts ==
    ASSUME NEW ts \in Stamps
    PROVE  /\ Bucket(ts) \in Buckets
           /\ Bucket(ts) =< ts
           /\ ts < Bucket(ts) + BucketSeconds
<1>1. ts \in Int /\ BucketSeconds \in Int /\ BucketSeconds > 0
  BY DEF Stamps
<1>2. ts % BucketSeconds \in Nat /\ ts % BucketSeconds < BucketSeconds
  BY <1>1, SMT
<1> QED  BY <1>1, <1>2 DEF Bucket, Buckets

LEMMA BucketsAreInts == Buckets \subseteq Int
<1>1. ASSUME NEW ts \in Stamps PROVE Bucket(ts) \in Int
  <2>1. ts \in Int /\ BucketSeconds \in Int /\ BucketSeconds > 0
    BY DEF Stamps
  <2>2. ts % BucketSeconds \in Int
    BY <2>1, SMT
  <2> QED  BY <2>1, <2>2 DEF Bucket
<1> QED  BY <1>1 DEF Buckets

(* Merging adds the counts, and keeps to what both values keep to.         *)
LEMMA MergedRow ==
    ASSUME NEW r \in Row, NEW s \in Row
    PROVE  /\ Merged(r, s) \in Row
           /\ Merged(r, s).packets = r.packets + s.packets
BY DEF Merged, Row, Lesser, Greater

LEMMA MergedSince ==
    ASSUME NEW r \in Row, NEW s \in Row, NEW t \in Int,
           r.packets > 0 => r.first_ts >= t,
           s.packets > 0 => s.first_ts >= t
    PROVE  Merged(r, s).packets > 0 => Merged(r, s).first_ts >= t
BY DEF Merged, Row, Lesser, Greater

LEMMA MergedSpan ==
    ASSUME NEW r \in Row, NEW s \in Row, NEW b \in Int,
           r.packets > 0 => b =< r.first_ts /\ r.first_ts =< r.last_ts /\ r.last_ts < b + BucketSeconds,
           s.packets > 0 => b =< s.first_ts /\ s.first_ts =< s.last_ts /\ s.last_ts < b + BucketSeconds
    PROVE  LET m == Merged(r, s) IN
           m.packets > 0 => b =< m.first_ts /\ m.first_ts =< m.last_ts /\ m.last_ts < b + BucketSeconds
BY DEF Merged, Row, Lesser, Greater

LEMMA NoRowsFacts ==
    /\ NoRows \in Rows
    /\ \A b \in Buckets : NoRows[b].packets = 0
    /\ SpanInBucket(NoRows)
BY DEF NoRows, Rows, NoRow, Row, SpanInBucket

LEMMA InitCInv == Init => CInv
<1> SUFFICES ASSUME Init PROVE CInv
  OBVIOUS
<1>1. 1 \in Stamps
  BY DEF Stamps
<1>2. TypeOK
  <2>1. cutoff \in Int /\ lastPrune = Never
    BY DEF Init, Never
  <2>2. Zero \in [Buckets -> Nat]
    BY DEF Zero
  <2> QED  BY <1>1, <2>1, <2>2, NoRowsFacts DEF Init, TypeOK
<1>3. Handover /\ Spans /\ Young /\ Kept
  BY NoRowsFacts DEF Init, Handover, Spans, Young, Kept
<1>4. ExactCount
  <2>1. \A b \in Buckets : Zero[b] = 0
    BY DEF Zero
  <2> QED  BY <2>1, NoRowsFacts DEF Init, ExactCount
<1>5. Clocks
  BY DEF Init, Clocks, Never
<1> QED  BY <1>2, <1>3, <1>4, <1>5 DEF CInv

-----------------------------------------------------------------------------
(* The types of the clocks, for the arithmetic.                            *)
LEMMA Typed ==
    ASSUME CInv
    PROVE  /\ now \in Int /\ lastPacket \in Int /\ lastFlush \in Int /\ lastPrune \in Int
           /\ cutoff \in Int
           /\ \A b \in Buckets : /\ b \in Int
                                 /\ agg[b] \in Row /\ pending[b] \in Row /\ rows[b] \in Row
BY BucketsAreInts DEF CInv, TypeOK, Stamps, Never, Rows

LEMMA TickCInv == ASSUME CInv, Tick PROVE CInv'
<1>1. now \in Int /\ now' = now + 1 /\ now' \in Stamps
      /\ pc \in {"stopped", "wait", "write", "delete", "stamp"}
      /\ (pc # "stopped" => now < lastPacket + MaxGap)
      /\ UNCHANGED <<lastPacket, agg, pending, rows, lastFlush, lastPrune, cutoff, pc, stopping,
                     seen, expired, lost>>
  BY DEF Tick, CInv, TypeOK, Stamps, clocks, counts
<1>2. TypeOK'
  BY <1>1 DEF CInv, TypeOK
<1>3. Handover' /\ ExactCount' /\ Spans' /\ Young' /\ Kept'
  BY <1>1 DEF CInv, Handover, ExactCount, Spans, SpanInBucket, Young, Kept
<1>4. Clocks'
  BY <1>1, Typed DEF CInv, Clocks
<1> QED  BY <1>2, <1>3, <1>4 DEF CInv

LEMMA AddPacketCInv == ASSUME CInv, NEW ts \in Stamps, AddPacket(ts) PROVE CInv'
<1> DEFINE c == Bucket(ts)
           one == Single(ts)
<1>1. /\ c \in Buckets /\ c \in Int /\ c =< ts /\ ts < c + BucketSeconds /\ ts \in Int
  <2>1. c \in Buckets /\ c =< ts /\ ts < c + BucketSeconds
    BY BucketFacts
  <2>2. c \in Int
    BY <2>1, BucketsAreInts
  <2> QED  BY <2>1, <2>2 DEF Stamps
<1>2. /\ one \in Row /\ one.packets = 1 /\ one.first_ts = ts /\ one.last_ts = ts
  BY DEF Single, Row, Stamps
<1>3. /\ pc = "wait" /\ pc' = "flush" /\ lastPacket' = now /\ ts =< now /\ ts >= now - MaxLag
      /\ agg' = [agg EXCEPT ![c] = Merged(agg[c], one)]
      /\ seen' = [seen EXCEPT ![c] = seen[c] + 1]
      /\ UNCHANGED <<now, pending, rows, lastFlush, lastPrune, cutoff, stopping, expired, lost>>
  BY DEF AddPacket, clocks
<1> HIDE DEF c, one
<1>4. /\ Merged(agg[c], one) \in Row /\ Merged(agg[c], one).packets = agg[c].packets + 1
  BY <1>1, <1>2, MergedRow, Typed
<1>5. \A b \in Buckets : agg'[b] = IF b = c THEN Merged(agg[c], one) ELSE agg[b]
  BY <1>1, <1>3 DEF CInv, TypeOK, Rows
<1>6. TypeOK'
  BY <1>1, <1>3, <1>4 DEF CInv, TypeOK, Rows
<1>7. Handover'
  BY <1>3 DEF CInv, Handover
<1>8. ExactCount'
  <2> SUFFICES ASSUME NEW b \in Buckets
               PROVE  seen'[b] = agg'[b].packets + pending[b].packets + rows[b].packets
                                     + expired[b] + lost[b]
    BY <1>3 DEF ExactCount
  <2>1. /\ seen[b] \in Int /\ expired[b] \in Int /\ lost[b] \in Int
        /\ agg[b].packets \in Int /\ pending[b].packets \in Int /\ rows[b].packets \in Int
    BY Typed DEF CInv, TypeOK, Row
  <2>2. seen[b] = agg[b].packets + pending[b].packets + rows[b].packets + expired[b] + lost[b]
    BY DEF CInv, ExactCount
  <2>3. seen'[b] = IF b = c THEN seen[b] + 1 ELSE seen[b]
    BY <1>1, <1>3 DEF CInv, TypeOK
  <2>4. agg'[b].packets = IF b = c THEN agg[b].packets + 1 ELSE agg[b].packets
    BY <1>4, <1>5
  <2> QED  BY <2>1, <2>2, <2>3, <2>4
<1>9. Spans'
  <2>1. LET m == Merged(agg[c], one) IN
        m.packets > 0 => c =< m.first_ts /\ m.first_ts =< m.last_ts /\ m.last_ts < c + BucketSeconds
    BY <1>1, <1>2, MergedSpan, Typed DEF CInv, Spans, SpanInBucket
  <2> QED  BY <1>3, <1>5, <2>1 DEF CInv, Spans, SpanInBucket
<1>10. Clocks'
  BY <1>3, Typed DEF CInv, Clocks
<1>11. Young'
  <2>1. ts >= lastFlush - MaxLag
    BY <1>1, <1>3, Typed DEF CInv, Clocks
  <2>2. Merged(agg[c], one).packets > 0 => Merged(agg[c], one).first_ts >= lastFlush - MaxLag
    BY <1>1, <1>2, <2>1, MergedSince, Typed DEF CInv, Young
  <2> QED  BY <1>3, <1>5, <2>2 DEF CInv, Young
<1>12. Kept'
  <2>1. Dwarfs => c >= lastPrune - Retention - MaxGap
    BY <1>1, <1>3, Typed DEF CInv, Clocks, Dwarfs
  <2> QED  BY <1>3, <1>5, <2>1 DEF CInv, Kept
<1> QED  BY <1>6, <1>7, <1>8, <1>9, <1>10, <1>11, <1>12 DEF CInv

LEMMA SkipPacketCInv == ASSUME CInv, SkipPacket PROVE CInv'
<1>1. /\ pc = "wait" /\ pc' = "flush" /\ lastPacket' = now
      /\ UNCHANGED <<now, agg, pending, rows, lastFlush, lastPrune, cutoff, stopping, seen, expired, lost>>
  BY DEF SkipPacket, clocks, counts
<1>2. TypeOK' /\ Handover' /\ ExactCount' /\ Spans' /\ Kept'
  BY <1>1 DEF CInv, TypeOK, Handover, ExactCount, Spans, SpanInBucket, Kept
<1>3. Clocks' /\ Young'
  BY <1>1, Typed DEF CInv, Clocks, Young
<1> QED  BY <1>2, <1>3 DEF CInv

(* What taking the aggregate does, whether the flush is due or the last.   *)
LEMMA TakenCInv ==
    ASSUME CInv, pc \in {"wait", "flush", "prune", "delete", "stamp"}, TakeAggregate,
           stopping' \in BOOLEAN,
           UNCHANGED <<now, lastPacket, rows, lastFlush, lastPrune, cutoff, seen, expired, lost>>
    PROVE  CInv'
<1>1. pending = NoRows /\ pending' = agg /\ agg' = NoRows /\ pc' = "write"
  BY DEF CInv, Handover, TakeAggregate
<1>2. TypeOK' /\ Handover' /\ Spans'
  BY <1>1, NoRowsFacts DEF CInv, TypeOK, Handover, Spans, SpanInBucket
<1>3. ExactCount'
  <2> SUFFICES ASSUME NEW b \in Buckets
               PROVE  seen[b] = agg'[b].packets + pending'[b].packets + rows[b].packets
                                    + expired[b] + lost[b]
    BY DEF ExactCount
  <2>1. agg[b].packets \in Int /\ rows[b].packets \in Int
    BY Typed DEF Row
  <2>2. seen[b] = agg[b].packets + pending[b].packets + rows[b].packets + expired[b] + lost[b]
    BY DEF CInv, ExactCount
  <2>3. pending[b].packets = 0 /\ agg'[b].packets = 0 /\ pending'[b] = agg[b]
    BY <1>1, NoRowsFacts
  <2> QED  BY <2>1, <2>2, <2>3
<1>4. Clocks'
  BY <1>1, Typed DEF CInv, Clocks
<1>5. Young' /\ Kept'
  BY <1>1, NoRowsFacts DEF CInv, Young, Kept
<1> QED  BY <1>2, <1>3, <1>4, <1>5 DEF CInv

LEMMA MaybeFlushCInv == ASSUME CInv, MaybeFlush PROVE CInv'
<1>1. /\ pc = "flush"
      /\ UNCHANGED <<now, lastPacket, rows, lastFlush, lastPrune, cutoff, stopping, seen, expired, lost>>
  BY DEF MaybeFlush, clocks, counts
<1>2. CASE now - lastFlush >= FlushInterval
  <2>1. TakeAggregate
    BY <1>2 DEF MaybeFlush
  <2>2. stopping' \in BOOLEAN
    BY <1>1 DEF CInv, TypeOK
  <2> QED  BY <1>1, <2>1, <2>2, TakenCInv
<1>3. CASE ~(now - lastFlush >= FlushInterval)
  <2>1. pc' = "prune" /\ UNCHANGED <<agg, pending>>
    BY <1>3 DEF MaybeFlush
  <2>2. TypeOK' /\ Handover' /\ ExactCount' /\ Spans' /\ Kept'
    BY <1>1, <2>1 DEF CInv, TypeOK, Handover, ExactCount, Spans, SpanInBucket, Kept
  <2>3. lastPacket - lastFlush < FlushInterval /\ now = lastPacket
    BY <1>1, <1>3, Typed DEF CInv, Clocks
  <2>4. Clocks' /\ Young'
    BY <1>1, <2>1, <2>3, Typed DEF CInv, Clocks, Young
  <2> QED  BY <2>2, <2>4 DEF CInv
<1> QED  BY <1>2, <1>3

LEMMA FinishCInv == ASSUME CInv, Finish PROVE CInv'
BY TakenCInv DEF Finish, clocks, counts

LEMMA WriteRowsCInv == ASSUME CInv, WriteRows PROVE CInv'
<1>1. /\ pc = "write" /\ agg = NoRows /\ pending' = NoRows /\ lastFlush' = now
      /\ rows' = [b \in Buckets |-> Merged(rows[b], pending[b])]
      /\ pc' \in {"stopped", "prune"}
      /\ UNCHANGED <<now, lastPacket, agg, lastPrune, cutoff, stopping, seen, expired, lost>>
  BY DEF WriteRows, CInv, Handover, counts
<1>2. \A b \in Buckets : /\ rows'[b] \in Row
                         /\ rows'[b].packets = rows[b].packets + pending[b].packets
  BY <1>1, MergedRow, Typed
<1>3. TypeOK'
  BY <1>1, <1>2, NoRowsFacts DEF CInv, TypeOK, Rows
<1>4. Handover'
  BY <1>1 DEF Handover
<1>5. ExactCount'
  <2> SUFFICES ASSUME NEW b \in Buckets
               PROVE  seen[b] = agg[b].packets + pending'[b].packets + rows'[b].packets
                                    + expired[b] + lost[b]
    BY <1>1 DEF ExactCount
  <2>1. agg[b].packets \in Int /\ pending[b].packets \in Int /\ rows[b].packets \in Int
        /\ expired[b] \in Int /\ lost[b] \in Int
    BY Typed DEF CInv, TypeOK, Row
  <2>2. seen[b] = agg[b].packets + pending[b].packets + rows[b].packets + expired[b] + lost[b]
    BY DEF CInv, ExactCount
  <2>3. pending'[b].packets = 0
    BY <1>1, NoRowsFacts
  <2> QED  BY <1>2, <2>1, <2>2, <2>3
<1>6. Spans'
  <2>1. SpanInBucket(rows)'
    <3> SUFFICES ASSUME NEW b \in Buckets, rows'[b].packets > 0
                 PROVE  /\ b =< rows'[b].first_ts
                        /\ rows'[b].first_ts =< rows'[b].last_ts
                        /\ rows'[b].last_ts < b + BucketSeconds
      BY DEF SpanInBucket
    <3>1. rows'[b] = Merged(rows[b], pending[b])
      BY <1>1
    <3> QED  BY <3>1, MergedSpan, Typed DEF CInv, Spans, SpanInBucket
  <2>2. SpanInBucket(agg)' /\ SpanInBucket(pending)'
    BY <1>1, NoRowsFacts DEF SpanInBucket
  <2> QED  BY <2>1, <2>2 DEF Spans
<1>7. Clocks'
  BY <1>1, Typed DEF CInv, Clocks
<1>8. Young'
  BY <1>1, NoRowsFacts DEF Young
<1>9. Kept'
  <2> SUFFICES ASSUME Dwarfs, lastPrune # Never, NEW b \in Buckets,
                      agg'[b].packets > 0 \/ pending'[b].packets > 0 \/ rows'[b].packets > 0
               PROVE  b >= lastPrune - Retention - MaxGap
    BY <1>1 DEF Kept, Dwarfs
  <2>1. rows'[b].packets > 0
    BY <1>1, NoRowsFacts
  <2>2. rows[b].packets > 0 \/ pending[b].packets > 0
    BY <1>2, <2>1, Typed DEF Row
  <2> QED  BY <2>2 DEF CInv, Kept
<1> QED  BY <1>3, <1>4, <1>5, <1>6, <1>7, <1>8, <1>9 DEF CInv

LEMMA MaybePruneCInv == ASSUME CInv, MaybePrune PROVE CInv'
<1>1. /\ pc = "prune" /\ pending = NoRows
      /\ UNCHANGED <<now, lastPacket, agg, pending, rows, lastFlush, lastPrune, stopping,
                     seen, expired, lost>>
  BY DEF MaybePrune, CInv, Handover, counts
<1>2. CASE PruneDue
  <2>1. pc' = "delete" /\ cutoff' = now - Retention
    BY <1>2 DEF MaybePrune
  <2>2. TypeOK' /\ Handover' /\ ExactCount' /\ Spans' /\ Kept'
    BY <1>1, <2>1, Typed
    DEF CInv, TypeOK, Handover, ExactCount, Spans, SpanInBucket, Kept
  <2>3. Clocks' /\ Young'
    BY <1>1, <2>1, Typed DEF CInv, Clocks, Young
  <2> QED  BY <2>2, <2>3 DEF CInv
<1>3. CASE ~PruneDue
  <2>1. pc' = "wait" /\ UNCHANGED cutoff
    BY <1>3 DEF MaybePrune
  <2>2. TypeOK' /\ Handover' /\ ExactCount' /\ Spans' /\ Young' /\ Kept'
    BY <1>1, <2>1 DEF CInv, TypeOK, Handover, ExactCount, Spans, SpanInBucket, Young, Kept
  <2>3. Clocks'
    BY <1>1, <1>3, <2>1, Typed DEF CInv, Clocks, PruneDue
  <2> QED  BY <2>2, <2>3 DEF CInv
<1> QED  BY <1>2, <1>3

(* A prune deletes what its cutoff finds too old of the table; what is in  *)
(* memory is too young, if the retention dwarfs the rest.                  *)
LEMMA PruneRowsCInv == ASSUME CInv, PruneRows PROVE CInv'
<1>1. /\ pc = "delete" /\ pc' = "stamp" /\ pending = NoRows
      /\ UNCHANGED <<now, lastPacket, agg, pending, lastFlush, lastPrune, cutoff, stopping, seen, lost>>
  BY DEF PruneRows, CInv, Handover, clocks
<1>2. /\ rows' = [b \in Buckets |-> IF Expired(b) THEN NoRow ELSE rows[b]]
      /\ expired' = [b \in Buckets |-> expired[b] + IF Expired(b) THEN rows[b].packets ELSE 0]
  BY DEF PruneRows
<1>3. NoRow \in Row /\ NoRow.packets = 0
  BY DEF NoRow, Row
<1>4. TypeOK'
  <2>1. rows' \in Rows
    BY <1>2, <1>3 DEF CInv, TypeOK, Rows
  <2>2. \A b \in Buckets : expired[b] \in Nat /\ rows[b].packets \in Nat
    BY Typed DEF CInv, TypeOK, Row
  <2>3. expired' \in [Buckets -> Nat]
    BY <1>2, <2>2
  <2> QED  BY <1>1, <2>1, <2>3 DEF CInv, TypeOK
<1>5. Handover' /\ Young'
  BY <1>1 DEF CInv, Handover, Young
<1>6. ExactCount'
  <2> SUFFICES ASSUME NEW b \in Buckets
               PROVE  seen[b] = agg[b].packets + pending[b].packets + rows'[b].packets
                                    + expired'[b] + lost[b]
    BY <1>1 DEF ExactCount
  <2>1. agg[b].packets \in Int /\ pending[b].packets \in Int /\ rows[b].packets \in Int
        /\ expired[b] \in Int /\ lost[b] \in Int
    BY Typed DEF CInv, TypeOK, Row
  <2>2. seen[b] = agg[b].packets + pending[b].packets + rows[b].packets + expired[b] + lost[b]
    BY DEF CInv, ExactCount
  <2>3. CASE Expired(b)
    BY <1>2, <1>3, <2>1, <2>2, <2>3
  <2>4. CASE ~Expired(b)
    BY <1>2, <2>1, <2>2, <2>4
  <2> QED  BY <2>3, <2>4
<1>7. Spans'
  BY <1>1, <1>2, <1>3 DEF CInv, Spans, SpanInBucket
<1>8. Clocks'
  BY <1>1 DEF CInv, Clocks
<1>9. Kept'
  <2> SUFFICES ASSUME Dwarfs, NEW b \in Buckets,
                      agg[b].packets > 0 \/ pending[b].packets > 0 \/ rows'[b].packets > 0
               PROVE  /\ b >= cutoff
                      /\ lastPrune # Never => b >= lastPrune - Retention - MaxGap
    BY <1>1 DEF Kept
  <2>1. rows'[b].packets > 0 => ~Expired(b) /\ rows[b].packets > 0
    BY <1>2, <1>3
  <2>2. lastPrune # Never => b >= lastPrune - Retention - MaxGap
    BY <2>1 DEF CInv, Kept
  <2>3. CASE rows'[b].packets > 0
    BY <2>1, <2>2, <2>3, Typed DEF Expired
  <2>4. CASE agg[b].packets > 0
    <3>1. /\ agg[b].first_ts >= lastFlush - MaxLag
          /\ lastPacket - lastFlush < FlushInterval
          /\ cutoff = lastPacket - Retention
          /\ agg[b].first_ts < b + BucketSeconds
          /\ agg[b].first_ts \in Int
      BY <1>1, <2>4, Typed DEF CInv, Young, Spans, SpanInBucket, Row
    <3> QED  BY <2>2, <3>1, Typed DEF Dwarfs
  <2>5. pending[b].packets = 0
    BY <1>1, NoRowsFacts
  <2> QED  BY <2>3, <2>4, <2>5
<1> QED  BY <1>4, <1>5, <1>6, <1>7, <1>8, <1>9 DEF CInv

(* The time a prune is given is a gap after its cutoff, at most.           *)
LEMMA StampPruneCInv == ASSUME CInv, StampPrune PROVE CInv'
<1>1. /\ pc = "stamp" /\ pc' = "wait" /\ lastPrune' = now /\ cutoff' = Never
      /\ UNCHANGED <<now, lastPacket, agg, pending, rows, lastFlush, stopping,
                     seen, expired, lost>>
  BY DEF StampPrune, counts
<1>2. TypeOK' /\ Handover' /\ ExactCount' /\ Spans' /\ Young'
  BY <1>1 DEF CInv, TypeOK, Handover, ExactCount, Spans, SpanInBucket, Young, Never
<1>3. now =< lastPacket + MaxGap /\ lastPacket - Retention =< cutoff
  BY <1>1 DEF CInv, Clocks
<1>4. Clocks'
  BY <1>1, Typed DEF CInv, Clocks
<1>5. Kept'
  <2> SUFFICES ASSUME Dwarfs, NEW b \in Buckets,
                      agg[b].packets > 0 \/ pending[b].packets > 0 \/ rows[b].packets > 0
               PROVE  b >= now - Retention - MaxGap
    BY <1>1 DEF Kept
  <2>1. b >= cutoff
    BY <1>1 DEF CInv, Kept
  <2> QED  BY <1>3, <2>1, Typed
<1> QED  BY <1>2, <1>4, <1>5 DEF CInv

(* Dropping what is in memory loses it, and counts it as lost.             *)
LEMMA DroppedCInv ==
    ASSUME CInv, pc' = "stopped", agg' = NoRows, pending' = NoRows,
           lost' \in [Buckets -> Nat],
           \A b \in Buckets : lost'[b] = lost[b] + agg[b].packets + pending[b].packets,
           UNCHANGED <<now, lastPacket, rows, lastFlush, lastPrune, cutoff, stopping, seen, expired>>
    PROVE  CInv'
<1>1. TypeOK' /\ Handover' /\ Spans' /\ Young' /\ Kept'
  BY NoRowsFacts DEF CInv, TypeOK, Handover, Spans, SpanInBucket, Young, Kept
<1>2. ExactCount'
  <2> SUFFICES ASSUME NEW b \in Buckets
               PROVE  seen[b] = agg'[b].packets + pending'[b].packets + rows[b].packets
                                    + expired[b] + lost'[b]
    BY DEF ExactCount
  <2>1. agg[b].packets \in Int /\ pending[b].packets \in Int /\ rows[b].packets \in Int
        /\ expired[b] \in Int /\ lost[b] \in Int
    BY Typed DEF CInv, TypeOK, Row
  <2>2. seen[b] = agg[b].packets + pending[b].packets + rows[b].packets + expired[b] + lost[b]
    BY DEF CInv, ExactCount
  <2>3. agg'[b].packets = 0 /\ pending'[b].packets = 0
    BY NoRowsFacts
  <2> QED  BY <2>1, <2>2, <2>3
<1>3. Clocks'
  BY DEF CInv, Clocks
<1> QED  BY <1>1, <1>2, <1>3 DEF CInv

LEMMA CountedFacts ==
    ASSUME NEW count \in [Buckets -> Nat], NEW table \in Rows
    PROVE  /\ Counted(count, table) \in [Buckets -> Nat]
           /\ \A b \in Buckets : Counted(count, table)[b] = count[b] + table[b].packets
BY DEF Counted, Rows, Row

LEMMA FlushFailsCInv == ASSUME CInv, FlushFails PROVE CInv'
<1>1. /\ pc' = "stopped" /\ agg = NoRows /\ agg' = agg /\ pending' = NoRows
      /\ lost' = Counted(lost, pending)
      /\ UNCHANGED <<now, lastPacket, rows, lastFlush, lastPrune, cutoff, stopping, seen, expired>>
  BY DEF FlushFails, CInv, Handover, clocks
<1>2. /\ lost' \in [Buckets -> Nat]
      /\ \A b \in Buckets : lost'[b] = lost[b] + pending[b].packets
  BY <1>1, CountedFacts DEF CInv, TypeOK
<1>3. \A b \in Buckets : lost'[b] = lost[b] + agg[b].packets + pending[b].packets
  <2> TAKE b \in Buckets
  <2>1. agg[b].packets = 0 /\ lost[b] \in Int /\ pending[b].packets \in Int
    BY <1>1, NoRowsFacts, Typed DEF CInv, TypeOK, Row
  <2> QED  BY <1>2, <2>1
<1> QED  BY <1>1, <1>2, <1>3, DroppedCInv

LEMMA KilledCInv == ASSUME CInv, Killed PROVE CInv'
<1>1. /\ pc' = "stopped" /\ agg' = NoRows /\ pending' = NoRows
      /\ lost' = Counted(Counted(lost, pending), agg)
      /\ UNCHANGED <<now, lastPacket, rows, lastFlush, lastPrune, cutoff, stopping, seen, expired>>
  BY DEF Killed, clocks
<1>2. lost \in [Buckets -> Nat] /\ agg \in Rows /\ pending \in Rows
  BY DEF CInv, TypeOK
<1>3. /\ Counted(lost, pending) \in [Buckets -> Nat]
      /\ \A b \in Buckets : Counted(lost, pending)[b] = lost[b] + pending[b].packets
  BY <1>2, CountedFacts
<1>4. /\ lost' \in [Buckets -> Nat]
      /\ \A b \in Buckets : lost'[b] = Counted(lost, pending)[b] + agg[b].packets
  BY <1>1, <1>2, <1>3, CountedFacts
<1>5. \A b \in Buckets : lost'[b] = lost[b] + agg[b].packets + pending[b].packets
  <2> TAKE b \in Buckets
  <2>1. agg[b].packets \in Int /\ lost[b] \in Int /\ pending[b].packets \in Int
    BY <1>2, Typed DEF Row
  <2> QED  BY <1>3, <1>4, <2>1
<1> QED  BY <1>1, <1>4, <1>5, DroppedCInv

LEMMA StartCInv == ASSUME CInv, Start PROVE CInv'
<1>1. /\ pc = "stopped" /\ pc' = "wait" /\ stopping' = FALSE /\ lastFlush' = now
      /\ lastPrune' = Never /\ cutoff' = Never /\ lastPacket' = now /\ agg = NoRows /\ agg' = NoRows
      /\ pending = NoRows
      /\ UNCHANGED <<now, pending, rows, seen, expired, lost>>
  BY DEF Start, CInv, Handover, counts
<1>2. TypeOK' /\ Handover' /\ ExactCount' /\ Spans'
  <2>1. cutoff' \in Int
    BY <1>1 DEF Never
  <2> QED
    BY <1>1, <2>1, NoRowsFacts DEF CInv, TypeOK, Handover, ExactCount, Spans, SpanInBucket
<1>3. Clocks' /\ Young' /\ Kept'
  BY <1>1, NoRowsFacts, Typed DEF CInv, TypeOK, Stamps, Clocks, Young, Kept, Never
<1> QED  BY <1>2, <1>3 DEF CInv

LEMMA NextCInv == ASSUME CInv, [Next]_vars PROVE CInv'
<1>1. CASE UNCHANGED vars
  BY <1>1 DEF vars, clocks, counts, CInv, TypeOK, Handover, ExactCount, Spans, SpanInBucket,
              Clocks, Young, Kept
<1> QED
  BY <1>1, TickCInv, AddPacketCInv, SkipPacketCInv, MaybeFlushCInv, WriteRowsCInv,
     MaybePruneCInv, PruneRowsCInv, StampPruneCInv, FinishCInv, FlushFailsCInv, KilledCInv, StartCInv DEF Next

LEMMA CInvAlways == Spec => []CInv
BY InitCInv, NextCInv, PTL DEF Spec

-----------------------------------------------------------------------------
(* Collector: every reachable state is well typed.                         *)
THEOREM CollectorTypeCorrect == Spec => []TypeOK
<1>1. CInv => TypeOK
  BY DEF CInv
<1> QED  BY <1>1, CInvAlways, PTL

(* flush and prune: no packet is counted twice or forgotten.               *)
THEOREM EveryPacketCounted == Spec => []ExactCount
<1>1. CInv => ExactCount
  BY DEF CInv
<1> QED  BY <1>1, CInvAlways, PTL

(* flush_aggregates: merging late packets keeps a row to its bucket.       *)
THEOREM RowsKeepToBuckets == Spec => []RowSpan
<1>1. CInv => RowSpan
  BY DEF CInv, Spans, RowSpan
<1> QED  BY <1>1, CInvAlways, PTL

(* maybe_flush: a packet is late by the interval, one gap and its lag.     *)
THEOREM FlushedInTime == Spec => []FlushLag
<1>1. CInv => FlushLag
  <2> SUFFICES ASSUME CInv, pc = "wait", NEW b \in Buckets, agg[b].packets > 0
               PROVE  now - agg[b].first_ts < FlushInterval + MaxGap + MaxLag
    BY DEF FlushLag
  <2>1. /\ agg[b].first_ts >= lastFlush - MaxLag
        /\ lastPacket - lastFlush < FlushInterval
        /\ now =< lastPacket + MaxGap
        /\ agg[b].first_ts \in Int
    BY Typed DEF CInv, Young, Clocks, Row
  <2> QED  BY <2>1, Typed
<1> QED  BY <1>1, CInvAlways, PTL

(* maybe_prune: the table does not outgrow its window.                     *)
THEOREM TableStaysInWindow == Spec => []Window
<1>1. CInv => Window
  <2> SUFFICES ASSUME CInv, pc = "wait", lastPrune # Never, Dwarfs,
                      NEW b \in Buckets, rows[b].packets > 0
               PROVE  now - b < Retention + PruneInterval + 2 * MaxGap
    BY DEF Window, Dwarfs
  <2>1. Retention > 0
    BY DEF Dwarfs
  <2>2. /\ b >= lastPrune - Retention - MaxGap
        /\ lastPacket - lastPrune < PruneInterval
        /\ now =< lastPacket + MaxGap
    BY <2>1 DEF CInv, Kept, Clocks
  <2> QED  BY <2>2, Typed
<1> QED  BY <1>1, CInvAlways, PTL
=============================================================================
