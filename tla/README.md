# openvpn-metrics in TLA+

A verification project for `ovpn_metrics`, the collector that watches the
`tun` device of an OpenVPN server with tcpdump, attributes packets and DNS
queries to clients with the help of the server's status file, and keeps
aggregates in SQLite, where the command line reads them.  Line numbers below
are those of `src/ovpn_metrics/` unless a path says otherwise.

* [1. The system](#1-the-system): its parts, what each keeps and does, how they interact, what is hard
* [2. The modules](#2-the-modules): how each corresponds to the code
* [3. The runs](#3-the-runs): what TLC checks, with which bounds
* [4. The proofs](#4-the-proofs): what TLAPS proves, from what, and how
* [5. Where code and documents disagree](#5-where-code-and-documents-disagree)
* [6. What is not modelled](#6-what-is-not-modelled)
* [7. Plan](#7-plan)

`PROJECT.json` holds the same project as data: runs, the lines each definition
translates, the mutants each property is known to catch, and the hazards.

## 1. The system

### Parts

| part | state | operations | correct when |
|---|---|---|---|
| **StatusWatcher** (`collector.py` 20-62), a thread | `_routes`, address to client, under `_lock`; `_stop_event` | `refresh` every 10 s: read the status file, replace the map, record the sessions; `lookup` | a look-up gives the client that held the address, and changes are picked up in the end |
| **Collector** (`collector.py` 65-198), the main thread | `_agg`, `_last_flush`, `_last_prune` | `add_packet` (`classify`, then aggregate by time bucket), `flush`, `prune`, both when due after a packet, and a last `flush` | every packet of a client is counted once, in its bucket, under its client; flush and prune keep their intervals |
| **DnsCollector** and `_DnsThread` (`collector.py` 201-270), a thread | its own `_agg`, `_last_flush` | `add_query`, `flush` | as the Collector |
| **Database**, write side (`db.py` 72-246) | a SQLite file; one connection; `_lock`; `_client_ids`, a cache of ids | `client_id`, `flush_aggregates`, `flush_dns`, `record_sessions`, `prune`, `rdns_put`, `close` | rows belong to clients; a batch is stored whole or not at all; the write lock is given back |
| **Status file parser** (`status.py`) | none | `parse_status` of version 1 files, made of sections, and of tagged version 2 and 3 files | routes and sessions are true of the server, however the file was torn while it was read |
| **Captures** (`capture.py`) | a tcpdump process and its pipe | `start`, `lines`, `packets`, `stop`; `parse_line` | every tcpdump started is stopped; a line is read as the packet it was printed for |
| **run_collect** (`collector.py` 273-321) | the above | start the watcher and the DNS thread, run the collector, stop all in order | nothing is lost in an orderly exit, and it ends |
| **Resolver** (`resolve.py`), in every query command | the `rdns` table; worker threads | `resolve` | names are as young as the cache promises, and a query returns |
| **Queries** (`db.py` 256-489, `cli.py`) | none | SQL aggregations, limits, filters, exit codes | reports add up to each other and to what was stored; none denies what is there |
| **prune, vacuum** commands (`cli.py`) | none of their own | the Database methods, from another process | as Database |
| **doctor** (`doctor.py`, `sample` in `capture.py` 189-223) | a report; a tcpdump and a reader thread of its own | its checks one after the other, a bounded probe of the interface, an exit code | OK and FAIL mean what they say, and it comes to a result |
| **util**, service unit | none | conversions of text, deployment | |

### How they interact

```
   OpenVPN server --rewrites--> status file --polled by--> StatusWatcher ---.
        | tun                                               | _routes, _lock |
     tcpdump x2 --pipe--> Collector (main thread)  <--lookup-+               |
            `---pipe----> DnsCollector (thread)    <--lookup-'               |
                               |                                            |
                               '----> Database: one connection, _lock <-----'
                                          |
                                     SQLite file <---- other processes: queries, Resolver, prune, doctor
```

* Three threads share one `Database`: its `_lock` covers each method from the
  first statement to the commit, and is the only thing that keeps one
  thread's transaction apart from another's.
* Both collectors call `StatusWatcher.lookup`, once or twice for a packet; each call takes
  the watcher's `_lock` for itself.
* Other processes open the same file.  SQLite's write lock orders their
  transactions; nothing tells one process what another deleted.
* `run_collect` ends when the main thread's capture does; the other threads
  are daemons, joined for 5 seconds each.

### What is hard

* **Stale lookups**: a line is looked up when it is *read*, not when it was captured,
  in a map that is a poll and a rewrite old, and that may be installed long after it was
  read, while addresses change hands.
* **Torn files**: the server rewrites the status file in place.
* **A cache beside a transaction**: `_client_ids` is a Python dictionary; it
  does not roll back with the transaction that filled it, and does not see
  other processes' deletes.
* **Transactions and exceptions**: no method rolls back.  An exception that
  SQLite does not roll back for leaves the transaction open, with its
  write lock, for whichever thread comes next.
* **Intervals driven by packets**: flush and prune are looked at after a packet
  and at no other time.
* **Shutdown**: stop, join with a timeout, and close, against a thread that may
  not have begun and a database that another process may keep locked for
  longer than the join waits.
* **A budget against lookups that hang**, in several processes that share a cache.
* **Sessions kept young by polls**: whoever is connected stays in the table only as long
  as polls succeed more often than prunes look back.
* **Rows against windows**: a report selects whole rows by their first and last
  packet, groups, limits and filters, in an order that differs by command.
* **A diagnosis of a moving system**: doctor compares a status file read first with
  traffic sampled later, through a thread it may stop waiting for.

The list at the lines where they bite, with the properties aimed at each, is
`hazards` in `PROJECT.json`.

## 2. The modules

Time, rows and names are abstracted to what the properties tell apart; guards,
early returns, error paths and their order are kept.  Definitions marked
"Mutant" are not part of a model: each is a plausible mistake in the
definition after it, kept to show that a property catches it.

| module | models | uses |
|---|---|---|
| `Ledger` | what Database promises: a count by table, name and time, in a committed and a working copy | |
| `Database` | the write side of `db.py`, statement by statement | refines `Ledger` |
| `Attribution` | server, status file, watcher, `classify`, `add_query` | |
| `Collector` | the main thread's loop with its table, against the clock | |
| `Lifecycle` | threads, tcpdumps, `Database._lock`, shutdown | |
| `Sessions` | server, status file, `StatusWatcher.refresh`, the sessions table and prune, against time | |
| `Resolver` | `resolve.py` with the `rdns` table, in several processes | |
| `StatusFile` | `status.py` over whole and torn files | |
| `Queries` | the reads of `db.py` and the commands `clients`, `client`, `ip`, `dns`, `summary` | |
| `Doctor` | `doctor.py`, `TcpdumpCapture.sample`, `parse_line` | |
| `MC*` | symmetry sets and small inputs for TLC | |
| `*Proofs` | the theorems of each | |

### Database and Ledger

`disk` is the committed file, `work` what the collector's connection sees,
`inTxn` whether it holds SQLite's write lock.  A content is the `clients` table
(`id`) and, for each table, a count of entries by client id and time.  `pc` is the
next statement of the method that holds `_lock`: since every method holds it
from first to last, one `pc` stands for three threads.  Each SQL statement is an action
(`ClientIdCached`, `ClientIdStored`, `ClientIdInserted`, `Upsert`, `Commit`, a
`DeleteRows` for each table a prune goes through, `DeleteClients`), and so is clearing the cache (`ClearCache`), because an exception, a kill or
another process can come between any two.  `IsNextRowid` is SQLite's choice
of an id for `INTEGER PRIMARY KEY` without `AUTOINCREMENT`: a deleted
client's id may be given to another.

The faults are actions of their own, switched on by `Faults`: `Busy`
(`busy_timeout` runs out; `db.py:85`), `Interrupt` (an exception that leaves
the transaction open), `Rollback` (SQLite rolls back on a full disk or an I/O
error), `ManualPrune` (`openvpn-metrics prune` in another process), and always
`Restart`.  Three of them can leave a wrong id in the cache: another process's prune,
a rollback, and an exception between a prune's `DELETE FROM clients` and its
`_client_ids.clear()` (section 5).  `Shielded` restricts them to the moments when they do not, so
that the rest of the module can be checked with those faults present.  `adrift` remembers that a
method was left in the middle of its transaction, until a commit or a rollback ends it:
`AllOrNothing` and `LockReleased` hold up to that case, and say so.

`Ledger` has no ids, no cache and no clients table.  `Database` implements it
under `committed <- ByName(disk)`, `working <- ByName(work)`: a reader who joins
every table to `clients` by name, as all queries do, cannot tell that ids
exist, are cached, deleted and given out again.  A prune is one `Expire` for each table: one that is
left in the middle may be published in part by the next commit, which costs nobody anything, as the rows
had expired; one that is not left commits all of its tables at once (`AllOrNothing`).

### Attribution

`lease` is the server's truth, `file` what a reader would find now, `routes` the
watcher's map, `pipe` and `dnsPipe` what tcpdump printed and nobody read yet.
`NextPacket`, `ClassifySource` and `ClassifyDestination` are
separate because `classify` takes the watcher's lock once per lookup.  `refresh` is two steps:
`ReadStatus` takes a snapshot of the file, and `InstallRoutes` replaces the map by it,
whatever has happened to file, addresses and packets meanwhile.  `TearStatus` is a
rewrite met half way (`StatusFile` shows that this is what a torn file looks
like to the parser), `LoseStatus` a file that cannot be opened.  `credit` is the
attribution a step has just made.

The code never sees when an address changes hands, so it cannot credit every packet to the
client that held its address at capture, as no program can that looks addresses up later.  What it can
do is be wrong only about addresses that changed hands recently.  To say so, and for nothing
else, a packet carries the clients that held its addresses when it was captured and all that
held them since, and `had` all that held an address since the file, the snapshot and the map
were true (a torn file's old entries are as old as they were).  `RightClient`: a client is credited with
another's packet only if both are in one of these two sets.  Nothing is assumed of the
server; an address that rests until file, snapshot, map and pipes have forgotten its last
holder is always credited right.

### Collector

`now` is one clock for `time.time()` and `time.monotonic()`.  One client and one
flow stand for all, as keys never interact: rows differ by bucket.  A value is
`[packets, first_ts, last_ts]`, merged by `Merged` as both `add_packet` and the
`ON CONFLICT DO UPDATE` do.  A turn of the loop is `AddPacket` or `SkipPacket`,
`MaybeFlush` (with `WriteRows` when due), `MaybePrune`; a prune that is due takes its `cutoff`
from the clock first, deletes later (`PruneRows`), after whatever wait for `_lock` and
SQLite, and takes the time of `_last_prune` last (`StampPrune`).  `Finish` is the `finally` block,
`FlushFails` an exception out of the write, `Killed` the SIGTERM of `systemctl stop`,
which nothing handles, and `Start` the next process.  Time passes while the thread
waits for a packet or for SQLite.  `MaxLag` bounds how old a line is when it is read,
`MaxGap` how long the thread goes without one, the waits in a flush or a prune included.

### Lifecycle

Each of the three threads has a `pc`; a write is `want` (for `_lock`), `write`
(for SQLite), then back to where it came from.  `Stuck` is what can keep
a thread for longer than the 5 s of a join: SQLite locked by another process (whose
`busy_timeout` is 10 s), or a tcpdump nobody stops.  `lost` names the collectors that
aggregated something which never reached the file.  A tcpdump may die or not be installed,
and three things that cost something are recorded when they happen: `late` (the main
capture ended before the DNS thread had spawned its tcpdump), `contended` (another process
kept the file locked) and `cut` (a Ctrl-C fell into a flush).  A write may also fail at any time
because SQLite refuses it (a full disk, an I/O error), and `broken` names the collectors
that happened to.  The properties say which of these each guarantee excludes: `NoStray` only
`late`, `ClosedLast` also `contended`, `NothingLost` all four, the last for the collector it
happened to only.  `failed` is the exit code: a tcpdump that ends
with an error (`Eof(c, TRUE)`), one that cannot be started or a write that fails ends the main
thread by an exception and the DNS thread by a line in the log, which is why
`LossTold` speaks of the main thread only.

### Sessions

`connected` is the server's truth, `file` what it last wrote, `routes` the map, and
`seen` the `last_seen` of a row, as an age.  Ages saturate at `MaxAge`, so time has
no bound and liveness can be checked.  `Poll` is `refresh` with its
`record_sessions`; `PollUnstored` is one whose write fails after the map was
replaced, `PollTorn` one that meets a rewrite; `Restart` begins with an empty map.
`StatusPeriod` says how old the server lets its file get, `PollGap` how long no poll
succeeds; `Outages` lifts the latter while the file cannot be read.

### Resolver

Every process stamps itself (`started`), takes hits from the table and gives the
rest to at most `Workers` threads; `Finish` is when all returned or the budget is
spent, and writes what was found under the stamp.  Names change (`Rename`), and
a lookup may find nothing at any time, or never return.  `evidence` records when an outcome
was last true of an address.  `Prune` is the collector's, or the command's.

### StatusFile

`old` and `new` are the server's clients before and after a rewrite, `text` is what a reader
gets: a line is the sequence of its fields, a file the sequence of its lines.  `Readings`
lists it: the new file, its beginning followed by an end of the old one (`Mixed`),
its beginning cut within a line (`EndsWithin`), or its beginning followed by an old file
from within a line (`GoesOnWithin`); a cut falls into a field, before it or after it.
A seam within a line of each file joins two rows into one; no parser could tell it from a row, and
it is left out, as are two sessions of one name.
`tear` says which; `"header"` is a line that lost its beginning just so that a column
header looks like a tagged row.  A turn of a parser's loop is a step, `ParseTagged` of
`_parse_v23` and `ParseSectioned` of `_parse_v1`, and `Return` is the end, with
`_parse_v1`'s `Backfill`; `at` counts the lines taken and `snap` is the snapshot,
with `section` and `expect_header`.  `Withstood` says where the parser makes up for a cut.

### Queries

`traffic` and `dns_queries` have one shape: `item` is the remote IP or the domain, `sub` the
port with its protocol, or the query type.  `Store` is one packet or query reaching its
row by `FreshRow` or `Merged`, in any order of timestamps, `Prune` deletes buckets and
clients.  `log` remembers what the rows were made of, for the properties alone.
Every report is an operator named after its method, from the same pieces: `Joined`
with its `TimeClause`, `GroupBy`, `Limited`.  `ORDER BY last_seen LIMIT n` leaves ties to
SQLite, so a limited report is a set of possible answers (`Limited`, `Answers`).
Exit codes are those without `--json`, with which a command always returns 0.

### Doctor

`site` is what the doctor finds and cannot change: privileges, programs, interface,
which server's status file, the database.  `leased`, `file` and `captured` go on changing
while it works.  Each check is an action, in the order of `run_doctor`;
the probe is `StartProbe`, `StopProbe` (the sample window is over), `Joined` (the second
join, which may give up: `cut`), and what it makes of the sample.  `reader` is
a process of its own, taking `Printed` lines from the pipe and appending what `Parsed`
makes of them; it comes to the end of the output (`ReaderEnds`) or ends early by an exception that
is swallowed (`ReaderFails`).  An address is the sequence of its dotted fields, which is all that
`_split_host_port` looks at; `AsRead` is the packet that is read, which differs from the one printed
for IPv6 addresses with a dotted tail.  `DbRaises` is a database that opens and cannot be read,
which ends the doctor by a traceback.  `steady` remembers the addresses that were in use
without a break since the file was written: those the doctor has no excuse to miss.

## 3. The runs

All terminate without a bound on depth; symmetric constants are interchangeable in
the specification, and no liveness is checked under symmetry.  Deadlock is checked except
where the modelled system stops for good: Lifecycle (the process exits), Doctor
(its result) and StatusFile (`parse_status` returns).

| run | checks | shows |
|---|---|---|
| `database` | `OrphanFree`, `IInv`, `LockReleased`, `ImplementsLedger`, `AllOrNothing` | under all four faults where they spare the cache, no committed row loses its client, a flush or a prune is whole, the lock is given back, and ids are invisible by name |
| `attribution` | `TypeOK`, `RightClient` | a client is credited with another's packet only if the address passed between them since the map's file was true or the packet was captured, through torn and unreadable files and late installations |
| `sessions` | `ConnectedKept`, `SeenInTime`, `PickedUp`, `Forgotten` | whoever is connected stays in the table and comes back to the map; a `last_seen` is true; whoever left is forgotten |
| `collector` | `TypeOK`, `ExactCount`, `RowSpan`, `FlushLag`, `Window` | every packet in exactly one place; delays and the age of rows are bounded while packets come, with the waits of flush and prune |
| `lifecycle` | `TypeOK`, `NothingLost`, `ClosedLast`, `NoStray`, `LossTold`, `Terminates` | the process exits, under every fault; what an exit keeps, which fault costs it what, and what the exit code tells |
| `resolver` | `TypeOK`, `CacheHonest`, `FreshAnswer`, `Returns` | cached outcomes are real and not older than they look; answers keep to their time to live; a query returns though no lookup does |
| `status_file` | `ParseTypeOK`, `RoutesSound`, `SessionsSound`, `WholeFile` | what the parser makes of a file that is whole, cut off, or torn with its seam in one line at most |
| `queries` | `TypeOK`, `RowsTrue`, `NothingDenied`, `Balanced`, `Bracketed` | for every window: no report denies what was stored, the reports add up to each other and to what happened, and a window counts nothing outside the buckets it begins and ends in |
| `doctor` | `SampleTrue`, `SilenceTrue`, `AllClear`, `NoFalseAlarm`, `Terminates` | the sample is what was captured, as far as the reader came; silence, OK and FAIL have their reasons; the doctor comes to a result or ends by a damaged database |

Three runs leave the type invariant to the proofs: of `database` it is a conjunct of `IInv`, of
`sessions` and `doctor` it is `SessionsTypeCorrect` and `DoctorTypeCorrect`.  The runs whose
`expect` is `violation` are in section 5.

### Bounds, and why they are enough

* **Database**: two clients and two ids, so that an id can go to the other client;
  two tables, so that a client can live on in one when the other is pruned; two
  times, so that a prune can split them; batches of two, so that a fault can come
  between two entries, and two rows for them.  Which entries are in flight matters,
  not how many.
* **Attribution**: three clients taking turns on one address, inside `--vpn-subnet`, against one
  outside the VPN: an address can pass on twice while a snapshot waits or a packet is under way, and
  addresses do not interact, except in packets between clients, which are in the proofs only.  One line in
  each pipe is enough to be stale.
* **Sessions**: two sessions; a file up to 2 old, a poll every 2, and prunes that keep
  2 (all that `ConnectedKept` needs) and 4; ages up to 5 are told apart, one more than the
  longest that is kept, so that a session can be on either side of both.
* **Collector**: bucket 2, flush 1, prune 2, retention 4, a clock to 8, 2 packets a
  bucket, gaps of 1, which a prune may spend waiting: long enough for a bucket to be filled by two flushes, expire and be
  brought back by a late one; the retention is the least that satisfies the premise of `Window`.
* **Lifecycle**: pipes of two lines, because a line waiting behind a flush is the
  case that can lose something.
* **Resolver**: two processes on one address, so that each can
  overwrite the other's entry; one name and the failure are the two outcomes, a clock of 8 with times to live of 3 and 2
  leaves room for an entry to be stored, to expire, and to be stored anew.
* **StatusFile**: every pair of servers with two clients and two addresses, one of them with
  a network behind it: 237 thousand files to begin with, in two formats.
* **Queries**: two clients, addresses and ports, times 1 to 3 in buckets of two, so that a
  window can begin and end inside a bucket, before and after its rows; three packets, so that
  one row has two and another remains.
* **Doctor**: a client with an IPv4 and one with an IPv6 address, a TCP packet with
  ports, an incoming one without, and one from an IPv6 address with a dotted tail; two packets pass, and the pipe holds one
  line, so that tcpdump, the reader and the doctor have to wait for each other.

### Fairness

* `PickedUp`, `Forgotten`: weak fairness of the server's rewrite (OpenVPN writes the file every
  few seconds), of making the file readable again and of prunes; strong fairness of
  time and of polls that read a whole file and can store it.  The watcher loops for ever and
  swallows every exception; a poll that always falls into a rewrite is excluded, as the
  two intervals are not in step.  `Forgotten` needs prunes to recur, which they do
  while packets come (`collector.py:193`).
* `Terminates` of Lifecycle: weak fairness of each thread's steps, and strong fairness of
  getting `_lock`, whose holders give it back for seconds at a time.  Nothing is assumed of
  tcpdump or of other processes.
* `Returns`: time passes and a join with a timeout returns; nothing is assumed of lookups.
* `Terminates` of Doctor: the main thread runs.  Nothing is assumed of tcpdump or of the reader,
  which is why both joins have to have a timeout.

## 4. The proofs

Each `*Proofs` module proves, for every value of the constants, what the
runs show for small ones.  The constants are as in the `ASSUME`s of the modules
(numbers are naturals, model values differ), plus what is named here.

| module | theorems | under |
|---|---|---|
| `DatabaseProofs` | `TypeCorrect`, `NoIdleLock` (`LockReleased`), `OrphansNeedStaleIds` | |
| | `OwnersKept` (`OrphanFree`), `ContentsSound` (`IInv`), `MethodsAtomic` (`AllOrNothing`), `LedgerImplemented` | `CacheSpared`: `Shielded`, or no fault but `busy` |
| `AttributionProofs` | `AttributionTypeCorrect`, `NoMisattribution` (`RightClient`) | |
| `CollectorProofs` | `CollectorTypeCorrect`, `EveryPacketCounted` (`ExactCount`), `RowsKeepToBuckets` (`RowSpan`), `FlushedInTime` (`FlushLag`), `TableStaysInWindow` (`Window`) | |
| `LifecycleProofs` | `LifecycleTypeCorrect`, `ExitLosesNothing` (`NothingLost`), `ConnectionOutlivesThreads` (`ClosedLast`), `CapturesStopped` (`NoStray`), `ExitCodeTells` (`LossTold`) | |
| `StatusProofs` | `ParserTypeCorrect` (`ParseTypeOK`), `TornRoutesSound` (`RoutesSound`), `TornSessionsSound` (`SessionsSound`), `WholeFileKnown` (`WholeFile`) | |
| | `SessionsTypeCorrect`, `LastSeenIsTrue` (`SeenInTime`) | |
| | `ConnectedNeverPruned` (`ConnectedKept`) | `PollsInTime`: no `Outages`, and `PollGap` within all that is kept |
| `ResolverProofs` | `ResolverTypeCorrect`, `CacheNeverLies` (`CacheHonest`), `AnswersAreFresh` (`FreshAnswer`) | |
| `QueriesProofs` | `QueriesTypeCorrect`, `RowsAreTrue` (`RowsTrue`), `NoPacketDenied` (`NothingDenied`), `OverviewsBracket` (`Bracketed`), `BooksBalance` (`Balanced`) | |
| `DoctorProofs` | `LinesAreRead`, `DoctorTypeCorrect`, `SampleIsTrue`, `SilenceIsTrue`, `AllClearIsTrue`, `AlarmsAreTrue` (`NoFalseAlarm`) | |

**Database.**  `OrphanFree` speaks of the file; a row gets there from `work`, with an id that came
from the cache or was fetched by an earlier statement.  So `IInv` adds:
ids are unique in both contents; `work` has no orphan either; outside a transaction
the two contents agree; cached ids are those of `work`, except between a
prune's `DELETE FROM clients` and its `_client_ids.clear()`, where no upsert can
come since `_lock` is held; and the id about to be used is the cached one.
With unique ids an upsert changes one name's count only (`UpsertedByName`), a
new client starts with no rows (`InsertedByName`, from no orphans and an unused id),
and deleting clients without rows changes nobody's counts (`ClientsPrunedByName`):
the steps of `Ledger`.  `AllOrNothing` needs to know in the middle of a flush what its
commit will add at the end: `Progress` says that, by name, `work` is `disk` plus one for each entry of
the batch that is not left to do, and `PruneProgress` that in the middle of a prune it is `disk` without
what expired in the tables it has been through.

`CacheSpared` assumes the faults away that would leave a wrong id cached, and
`database_manual_prune` shows that without it `OrphanFree` fails.  `OrphansNeedStaleIds` says that
there is no other way to fail: under every fault, the step that makes the first row
without a client is an upsert under a cached id that is no longer that of its name.

**Attribution.**  The strengthening is `HadInv`.  The sets of holders begin at different times and all
grow by every `Connect` since, so that of any two sets of one address the one that began
earlier contains the other (`Nested`); each copy of the routes names, for each address, one
of those who had it since (`MapsWitness`), and so does each packet.  A credited client is in
the set of the map, the client at capture in that of the packet; one of the two contains the other.

**Collector.**  `CInv` adds to the properties the state of the hand-over between
aggregate and table (`Handover`), where the clocks may be (`Clocks`), that what is
aggregated is younger than a flush interval and a gap (`Young`), and that the table holds
nothing the last prune should have removed (`Kept`), which it measures from the cutoff while a
prune is under way, and from a gap before `_last_prune` after that.  `Kept` is where the premise
of `Window` comes from: a flush after a prune brings no bucket back that the
prune would have deleted only if `Retention >= FlushInterval + MaxLag + BucketSeconds`.

**Lifecycle.**  `LInv` relates each thread's place to the state of its tcpdump
(`Places`), its aggregate and batch to its place (`Books`), and the main thread's
progress through the `finally` block to the other threads' ends (`Order`), as far as
`late` and `contended` let it wait for them; what is lost without these and `cut` is lost by a
collector in `broken`.

**Sessions.**  `SeenInTime` becomes inductive with `FileTrue`: whoever the file lists was there
when it was written.  For `ConnectedKept`, `KInv` says that whoever was stored
once is in every file from then on and was seen no longer ago than the last whole poll;
with `PollGap =< keep` no prune reaches that far.

**Resolver.**  `RInv` relates a process's batch to its misses (`Batches`) and every result it has
to the evidence for it (`Answers`); `CacheHonest` is inductive with these,
because the stamp written is taken before the lookups, so an
entry can look older than it is, and never younger.

**Queries.**  `RowsTrue` is inductive with the uniqueness of keys in `TypeOK`: a
stored packet goes into one row, whose span it widens (`StoreRowsTrue`).  From there
`NothingDenied` is a matter of following a packet through a report: its row is in
the window (`EventJoined`), so its group has a line (`GroupByLines`), and a limit
of at least one leaves a non-empty report non-empty (`LimitedKeeps`).
For totals `CInv` adds that a row's count is the number of its packets (`CountsTrue`).
The totals are folds, and what a fold computes for every set cannot be shown by induction here; but a fold
is a recursive function on the subsets of a finite set, and a smallest subset on which it
were wrong (`SmallestSet`) would have a smaller one.  So a sum over disjoint parts is the
cardinality of their union (`SumOfParts`), the rows of any set count the packets of that set
(`CountIsEvents`), and however rows are divided their parts count as much as the whole (`PartsCount`):
each conjunct of `Balanced` divides the same rows in two ways.  For `Bracketed` a bucket lies within a
`BucketSeconds` of its packets (`BucketNear`), so the rows of a window hold
every packet of it, and of those outside only such as share a bucket with its begin or end.  `ItemsAssumption`, that
there are finitely many addresses and domains, is what a sum over all of them needs.

**StatusFile.**  The proof goes from the lines of a whole file (`ReadLines`, `CutRow` and
`CutOffRow` for what a cut leaves of one) to those of a torn one (`FileInv`: a row that can be
taken for a client's or a route's is of one of the two servers, wherever the parser withstands the cut), then to
the effect of one line on the snapshot (`TaggedStep`, `SectionedStep`) and of `Backfill`
(`BackfillSound`), so that `SnapInv`, that every route and session so far is of one of the two, is inductive.
The column titles have as many fields as a row: what keeps them out of version 1 sessions is
`expect_header`, so `FileInv` also says where they are.  `WholeFile` needs the converse,
that nothing is missed: `WholeInv` says what the parser has after each line of
a whole file, and at its end that is `Whole`.  `WordsAssumption`: names are
finitely many, and no name is an address, a title or a tag.

**Doctor.**  `LinesAreRead` says that splitting and classifying a line undoes what
tcpdump's notation does, but for IPv6 addresses with a dotted tail in lines without ports, of which
it says what becomes of them (`AsRead`); it rests on the number of fields addresses of either
family have.  `SampleInv` adds that every captured packet is in the sample or in
the pipe and that nothing else is in either; a reader that came to the end of the output left
nothing in the pipe.  `Silent`, `Verdict` and `Blamed` relate what
was said so far, and the worst level, to what was found; `SteadyInFile` says that a
steady client is in the file and in what was read of it whole.

**Only model-checked**: liveness (`PickedUp`, `Forgotten`, `Returns`, `Terminates` twice), which
needs `ENABLED`, and that is out of the provers' reach; and the three properties of the
next section, which do not hold.  Every invariant and every step property of
a run that passes is a theorem.

## 5. Where code and documents disagree

Each is a run that TLC finds violated, with the shortest course of events.

| run, property | code | document | what happens |
|---|---|---|---|
| `database_manual_prune`, `OrphanFree` | `client_id`, `db.py:96` | `src/README.md:206`, prune is "safe while the collector is running" | the other process deletes a client whose rows expired; the collector's next flush uses the cached id and inserts rows that join with no client, so reports by client never show them |
| `collector_idle_flush`, `FlushedOnTime` | `run`, `collector.py:192` | `src/README.md:179-181`, flushed every interval | no packet, no flush: the last packets before a quiet time stay in memory |
| `sessions_outage`, `ConnectedKept` | `refresh`, `collector.py:34` | `src/README.md:211-212`, "Currently-connected clients are never pruned" | while the status file cannot be read no session is touched; once that lasts longer than the retention, a prune deletes the sessions of clients that are connected |

Smaller ones that no run is spent on: as with the flush, an idle tunnel prunes
nothing (`collector.py:193`, `src/README.md:201-202`); `prune` compares the start of a
bucket with the cutoff (`db.py:195`), so the bucket the cutoff falls into goes with
packets newer than the cutoff, where the docstring has "last touched before the cutoff"
(`db.py:187-188`); and of two clients that exchange traffic the receiver gets the
packet when the sender connected after the last poll (`collector.py:128`), where
`src/README.md:274` has the originating one.

Of the reports: `--since` and `--until` are documented as "only include traffic after WHEN" and
"before WHEN" (`cli.py:34-38`), but rows are selected whole (`db.py:261-266`), so that packets
outside the window are counted which share a bucket with its begin or its end.  `Bracketed` says
that it goes no further.

Three that the properties leave out by name: an id cached inside a transaction that SQLite
rolls back stays cached and is used by the next method (`db.py:106`), and a Ctrl-C between a prune's
`DELETE FROM clients` and its `_client_ids.clear()` leaves the ids of deleted clients cached for
the methods that follow (`db.py:206-216`; `Shielded` excludes both); and a `stop` that comes before the DNS capture's `start` is lost
(`capture.py:181`), so that the tcpdump started next outlives the collector, where
`capture.py:162` has "managing the subprocess lifecycle" (`late` excludes it).

Without a document to contradict: a `CLIENT_LIST` or
`ROUTING_TABLE` row of a tagged file that lost its end is taken as it is, with a name
or an address cut short, and so is a client row of a version 1 file that lost
its beginning, whose session may even have no name (`status.py:147` does not look;
`Withstood` in `StatusFile` is where the properties stop).
Of the reports again: `client NAME --ip X --limit N` limits first and filters then (`cli.py:306-309`), and
may say that there was no traffic with X; `dns --domain` takes no notice of `--client` and
`--contains`, `dns --timeline` of `--contains`, and `ip --client` counts with `--timeline` only.
Of the doctor: a reader that fails (`capture.py:208`) leaves no trace, so that "0 packets seen", with its hint that
tcpdump saw no traffic (`doctor.py:150-162`), may be said of packets that were captured and not read;
the last number of an IPv6 address with a dotted tail (`::ffff:10.8.0.6`) is taken for a port where
the line has none (`capture.py:58`); a database that opens and cannot be read ends it by a traceback
instead of a line (`doctor.py:200-213`); "NONE mapped" also follows from clients that connected after it read the
status file (`doctor.py:224`); "mapped" says nothing of whose file it is when two
servers use the same addresses; its look at the database creates one where there was none
(`doctor.py:193-213`).

## 6. What is not modelled

* **`dns.py`**: the pattern of a DNS question, without state; its address prefix is
  the one of `parse_line`.  The DnsCollector's aggregation has no module of its own: its rows are
  those of Queries, its flush is Database's, its thread Lifecycle's, its attribution Attribution's.
* **StdinCapture**: Lifecycle's capture without a process.
* **util**: conversions of text (durations, sizes, subnets, dates), without state.
* **vacuum**: SQLite's own operation; it leaves the content as it is.  **Service unit**: deployment.
* **Presentation**: tables, JSON, host names beside addresses, and `--json`'s exit codes.
* **Bytes**: summed as packets are; `sessions` keeps the server's counters as they are.
* **Power loss**: `synchronous=NORMAL` may lose the last commits (`db.py:84`); `Restart` keeps every commit.
* **tcpdump's stderr**: a pipe that nobody reads while it runs (`capture.py:156`); how much
  tcpdump prints there is not in this code.
* **Wall-clock steps**: the models have one clock.
* **A second Ctrl-C** during the shutdown itself, which would skip what is left of it.
* **Two collectors on one file**: Database has one, and other processes that prune, as another
  collector would.
* **A server that stops writing its status file**: Sessions assumes `StatusPeriod`; of one that
  has stopped, every poll says that its clients are there now (`collector.py:33`).
* **Timelines' `LIMIT`**: `client_timeline`, `ip_timeline` and `dns_timeline` are modelled whole; the limit of
  the overviews is modelled.
* **Two sessions of one name** (`duplicate-cn`), and a status file whose seam falls within a line of
  both files at once (StatusFile).
* In Resolver, a write that fails with "database is locked" ends the command (`db.py:243`): it stops there.

## 7. Plan

Done, in this order: Database with its ledger (the state everything else ends up in),
Attribution (what the program is for), Collector, Lifecycle, Resolver, StatusFile, Sessions,
Queries, Doctor, and the proofs of all of them.  Left:

1. **DNS collector**: its aggregation against the clock, sharing Collector's operators, with a
   prune that another thread makes; `dns.py`'s patterns beside `parse_line`.
2. **Composition** of Collector and Database: a traffic flush as Collector
   sees it (one step) implemented by Database's statements.
3. **Status file**: two sessions of one name in version 1, where `Backfill` gives both one address.
