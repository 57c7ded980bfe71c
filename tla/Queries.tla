------------------------------ MODULE Queries ------------------------------
(***************************************************************************)
(* What the reports of the command line make of the stored rows: the reads *)
(* of db.Database and the commands clients, client, ip, dns and summary.   *)
(*                                                                         *)
(* traffic and dns_queries have the same shape here: `item` is the remote  *)
(* IP or the domain, `sub` the remote port and protocol or the query type, *)
(* `count` packets or queries (bytes are summed like packets).  `log`      *)
(* remembers, for the properties alone, what the rows were made of.        *)
(* Rows of pruned clients do not occur: that is Database's OrphanFree.     *)
(***************************************************************************)
EXTENDS Integers, FiniteSets, FiniteSetsExt

CONSTANTS
    Clients,        \* common names
    Items,          \* remote IPs, domains
    Subs,           \* remote ports with their protocol, query types
    BucketSeconds,
    MaxTime,        \* bound: timestamps are 1 .. MaxTime
    MaxStored       \* bound: packets and queries in the log

ASSUME NumbersAssumption ==
    /\ BucketSeconds \in Nat \ {0}
    /\ MaxTime \in Nat
    /\ MaxStored \in Nat

(* Addresses and domain names have a greatest length.                      *)
ASSUME ItemsAssumption == IsFiniteSet(Items)

VARIABLES
    names,  \* the clients table
    rows,   \* the traffic and dns_queries tables
    log     \* the packets and queries in them

vars == <<names, rows, log>>

Times      == 1 .. MaxTime
Unset      == 0
Tables     == {"traffic", "dns"}
Directions == {"out", "in"}

(* The n-th packet or query that is like this.                             *)
Events == [table : Tables, client : Clients, item : Items, sub : Subs,
           direction : Directions, ts : Times, n : 1 .. MaxStored]

Rows == [table : Tables, client : Clients, item : Items, sub : Subs,
         direction : Directions, bucket : Int,
         count : Nat, first_ts : Times, last_ts : Times]

BucketOf(ts) == ts - (ts % BucketSeconds)

(* The unique key of a row, and of the row an event belongs to.            *)
Key(r)   == <<r.table, r.client, r.item, r.sub, r.direction, r.bucket>>
KeyOf(e) == <<e.table, e.client, e.item, e.sub, e.direction, BucketOf(e.ts)>>

Of(e, r) == Key(r) = KeyOf(e)

(* Rows belong to clients, and no two of them have the same key.           *)
TypeOK ==
    /\ names \subseteq Clients
    /\ rows \subseteq Rows
    /\ log \subseteq Events
    /\ \A r \in rows : r.client \in names
    /\ \A r, s \in rows : Key(r) = Key(s) => r = s

-----------------------------------------------------------------------------
Init ==
    /\ names = {}
    /\ rows = {}
    /\ log = {}

Lesser(a, b)  == IF a < b THEN a ELSE b
Greater(a, b) == IF a < b THEN b ELSE a

(* The row of an event's key.                                              *)
Row(e, count, first_ts, last_ts) ==
    [table |-> e.table, client |-> e.client, item |-> e.item, sub |-> e.sub,
     direction |-> e.direction, bucket |-> BucketOf(e.ts),
     count |-> count, first_ts |-> first_ts, last_ts |-> last_ts]

FreshRow(e) == Row(e, 1, e.ts, e.ts)

(* Mutant: the last packet stored, not the latest, is last_ts.             *)
MergedLast(r, e) == Row(e, r.count + 1, Lesser(r.first_ts, e.ts), e.ts)

(* ON CONFLICT DO UPDATE, packet by packet.                                *)
Merged(r, e) == Row(e, r.count + 1, Lesser(r.first_ts, e.ts), Greater(r.last_ts, e.ts))

(* Mutant: no ON CONFLICT clause, and no unique key that would call for it. *)
InsertedAnyway(e) == {}

StoredIn(e) == {r \in rows : Of(e, r)}

(* A packet or query reaches the file, with its client.                    *)
Store(e) ==
    /\ e \notin log
    /\ Cardinality(log) < MaxStored
    /\ e.n > 1 => [e EXCEPT !.n = @ - 1] \in log
    /\ e.table = "dns" => e.direction = "out"
    /\ names' = names \cup {e.client}
    /\ rows' = (rows \ StoredIn(e)) \cup
                   (IF StoredIn(e) = {} THEN {FreshRow(e)}
                    ELSE {Merged(r, e) : r \in StoredIn(e)})
    /\ log' = log \cup {e}

(* record_sessions knows clients without any traffic.                      *)
StoreSession(c) ==
    /\ names' = names \cup {c}
    /\ UNCHANGED <<rows, log>>

(* prune: old rows, then clients without rows or sessions.                 *)
Prune(cutoff, sessions) ==
    /\ rows' = {r \in rows : r.bucket >= cutoff}
    /\ log' = {e \in log : BucketOf(e.ts) >= cutoff}
    /\ names' = {c \in names : c \in sessions \/ \E r \in rows' : r.client = c}

Next ==
    \/ \E e \in Events : Store(e)
    \/ \E c \in Clients : StoreSession(c)
    \/ \E cutoff \in Times, sessions \in SUBSET Clients : Prune(cutoff, sessions)

Spec == Init /\ [][Next]_vars

-----------------------------------------------------------------------------
(* The WHERE clauses.  A window is [since, until], each possibly unset.    *)

Windows == [since : Times \cup {Unset}, until : Times \cup {Unset}]
Always  == [since |-> Unset, until |-> Unset]

(* Mutant: a row is in the window if it begins there.                      *)
BeginsIn(r, w) ==
    /\ w.since # Unset => r.first_ts >= w.since
    /\ w.until # Unset => r.first_ts =< w.until

(* Mutant: a row is in the window if its bucket is.                        *)
BucketIn(r, w) ==
    /\ w.since # Unset => r.bucket >= w.since
    /\ w.until # Unset => r.bucket =< w.until

(* _time_clause, _dns_time_clause: the row's span and the window overlap.  *)
TimeClause(r, w) ==
    /\ w.since # Unset => r.last_ts >= w.since
    /\ w.until # Unset => r.first_ts =< w.until

Joined(table, w) == {r \in rows : r.table = table /\ r.client \in names /\ TimeClause(r, w)}

Count(R) == SumFunction([r \in R |-> r.count])

(* One line of a report: GROUP BY some columns.                            *)
Line(R) ==
    [out   |-> Count({r \in R : r.direction = "out"}),
     in    |-> Count({r \in R : r.direction = "in"}),
     total |-> Count(R),
     clients |-> Cardinality({r.client : r \in R}),
     first_seen |-> Min({r.first_ts : r \in R}),
     last_seen  |-> Max({r.last_ts : r \in R})]

At(r, columns) == [c \in columns |-> r[c]]

GroupBy(R, columns) ==
    {[by |-> v, line |-> Line({r \in R : At(r, columns) = v})] :
        v \in {At(r, columns) : r \in R}}

(* ORDER BY last_seen DESC LIMIT n: ties may fall either way; 0 is no      *)
(* limit.                                                                  *)
Limited(lines, n) ==
    IF n = 0 THEN {lines}
    ELSE {S \in SUBSET lines :
             /\ Cardinality(S) = Lesser(n, Cardinality(lines))
             /\ \A a \in S, b \in lines \ S : a.line.last_seen >= b.line.last_seen}

(* list_clients: the WHERE clause is applied to the outer join, so that    *)
(* with a window a client without rows in it is not listed.                *)
list_clients(w) ==
    {[client |-> c,
      remote_ips |-> Cardinality({r.item : r \in {s \in Joined("traffic", w) : s.client = c}}),
      total |-> Count({r \in Joined("traffic", w) : r.client = c})] :
        c \in {d \in names : w = Always \/ \E r \in Joined("traffic", w) : r.client = d}}

(* Mutant: ports in the grouping, whether asked for or not.                *)
overview_by_port(client, w, by_port) ==
    GroupBy({r \in Joined("traffic", w) : r.client = client}, {"item", "sub"})

client_overview(client, w, by_port) ==
    GroupBy({r \in Joined("traffic", w) : r.client = client},
            IF by_port THEN {"item", "sub"} ELSE {"item"})

client_timeline(client, ips, w) ==
    {r \in Joined("traffic", w) : r.client = client /\ r.item \in ips}

ip_overview(ip, w) == GroupBy({r \in Joined("traffic", w) : r.item = ip}, {"client"})

ip_timeline(ip, clients, w) ==
    {r \in Joined("traffic", w) : r.item = ip /\ r.client \in clients}

dns_domains(clients, domains, w) ==
    GroupBy({r \in Joined("dns", w) : r.client \in clients /\ r.item \in domains}, {"item"})

dns_domain_clients(domain, w) ==
    GroupBy({r \in Joined("dns", w) : r.item = domain}, {"client"})

dns_timeline(clients, domains, w) ==
    {r \in Joined("dns", w) : r.client \in clients /\ r.item \in domains}

(* summary does not join: it counts the rows as they are.                  *)
summary ==
    LET traffic == {r \in rows : r.table = "traffic"} IN
    [clients    |-> Cardinality(names),
     remote_ips |-> Cardinality({r.item : r \in traffic}),
     total      |-> Count(traffic)]

-----------------------------------------------------------------------------
(* The commands: the lines they show and the code they exit with.  Where   *)
(* there are several, any may be the answer.                               *)

Answers(reports) ==
    {[lines |-> R, code |-> IF R = {} THEN 1 ELSE 0] : R \in reports}

(* client NAME: --limit is SQL's, --ip a filter over what it left.         *)
cmd_client(client, ips, w, by_port, n) ==
    Answers({{l \in R : l.by["item"] \in ips} :
                R \in Limited(client_overview(client, w, by_port), n)})

cmd_ip(ip, w, n) == Answers(Limited(ip_overview(ip, w), n))

cmd_dns(clients, contained, w, n) == Answers(Limited(dns_domains(clients, contained, w), n))

cmd_dns_domain(domain, w, n) == Answers(Limited(dns_domain_clients(domain, w), n))

-----------------------------------------------------------------------------
(* Every row is true: it spans the packets that went into it and begins    *)
(* and ends with one, all within its bucket; and every packet that was     *)
(* stored and not pruned is in one.                                        *)
RowsTrue ==
    /\ \A e \in log : \E r \in rows : Of(e, r) /\ r.first_ts =< e.ts /\ e.ts =< r.last_ts
    /\ \A r \in rows : \E e, f \in log :
          /\ Of(e, r) /\ e.ts = r.first_ts
          /\ Of(f, r) /\ f.ts = r.last_ts

Within(e, since, until) ==
    /\ since # Unset => e.ts >= since
    /\ until # Unset => e.ts =< until

(* "no traffic recorded" is never said when there was some: whatever the   *)
(* window, client and ip find every packet in it, and dns every query.     *)
(* (client does so as long as --limit does not cut off what --ip asks for.)*)
NothingDenied ==
    \A e \in log, w \in Windows : Within(e, w.since, w.until) =>
        IF e.table = "dns"
        THEN \A n \in 0 .. 1 :
                /\ \A a \in cmd_dns({e.client}, {e.item}, w, n) : a.code = 0
                /\ \A a \in cmd_dns_domain(e.item, w, n) : a.code = 0
        ELSE \A n \in 0 .. 1 :
                /\ \A a \in cmd_ip(e.item, w, n) : a.code = 0
                /\ \A by_port \in BOOLEAN :
                      /\ \A a \in cmd_client(e.client, Items, w, by_port, n) : a.code = 0
                      /\ \A a \in cmd_client(e.client, {e.item}, w, by_port, 0) : a.code = 0

LinesTotal(lines) == SumFunction([l \in lines |-> l.line.total])

ListTotal(list) == SumFunction([l \in list |-> l.total])

(* The books balance: over any window, the clients' totals, their          *)
(* overviews with and without ports, the overviews of the addresses and    *)
(* the timelines add up to the same, the summary's without a window, which *)
(* is every packet that was stored and not pruned.  So do the queries of a *)
(* domain, those of its clients and its timeline.                          *)
Balanced ==
    /\ \A w \in Windows :
          /\ \A l \in list_clients(w), by_port \in BOOLEAN :
                l.total = LinesTotal(client_overview(l.client, w, by_port))
          /\ \A l \in list_clients(w) :
                /\ l.remote_ips = Cardinality(client_overview(l.client, w, FALSE))
                /\ l.total = Count(client_timeline(l.client, Items, w))
          /\ \A ip \in Items : LinesTotal(ip_overview(ip, w)) = Count(ip_timeline(ip, Clients, w))
          /\ ListTotal(list_clients(w)) =
                SumFunction([ip \in Items |-> LinesTotal(ip_overview(ip, w))])
    /\ summary.total = Cardinality({e \in log : e.table = "traffic"})
    /\ summary.total = ListTotal(list_clients(Always))
    /\ summary.clients = Cardinality(list_clients(Always))
    /\ \A w \in Windows, d \in Items : \A l \in dns_domains(Clients, {d}, w) :
          /\ l.line.total = LinesTotal(dns_domain_clients(d, w))
          /\ l.line.clients = Cardinality(dns_domain_clients(d, w))
          /\ l.line.total = Count(dns_timeline(Clients, {d}, w))

(* What an overview counts for a window is all that happened in it, and    *)
(* nothing but that from the other buckets than those in which the window  *)
(* begins and ends: of these it may count what lies outside (--since says  *)
(* "only include traffic after WHEN", cli.py:36).  A window that begins    *)
(* where a bucket does counts nothing from before it.                      *)
Bracketed ==
    \A w \in Windows, c \in Clients : \A l \in client_overview(c, w, FALSE) :
        LET mine == {e \in log : /\ e.table = "traffic" /\ e.client = c
                                 /\ e.item = l.by["item"]} IN
        /\ l.line.total >= Cardinality({e \in mine : Within(e, w.since, w.until)})
        /\ l.line.total =< Cardinality({e \in mine :
               /\ w.since # Unset => BucketOf(e.ts) >= BucketOf(w.since)
               /\ w.until # Unset => BucketOf(e.ts) =< BucketOf(w.until)})
        /\ l.line.out + l.line.in = l.line.total
        /\ w = Always => /\ l.line.first_seen = Min({e.ts : e \in mine})
                         /\ l.line.last_seen = Max({e.ts : e \in mine})
=============================================================================
