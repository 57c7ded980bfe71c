------------------------------- MODULE Ledger -------------------------------
(***************************************************************************)
(* What ovpn_metrics.db.Database promises its callers.                     *)
(*                                                                         *)
(* The callers (traffic flush, DNS flush, status watcher) know clients by  *)
(* common name only.  Surrogate ids, the _client_ids cache and the rows of *)
(* the clients table are how Database keeps the promise, and none of them  *)
(* appears here: a ledger is one count per table, client name and time,    *)
(* in two copies, the committed one and the one being worked on.           *)
(***************************************************************************)
EXTENDS Integers

CONSTANTS
    Clients,    \* common names
    Tables,     \* traffic, dns, sessions
    MaxTime     \* bound: buckets and last_seen stamps are 1 .. MaxTime

Times  == 1 .. MaxTime
NoTime == 0

VARIABLES
    committed,  \* what a reader of the database file sees
    working     \* what the writing connection sees

vars == <<committed, working>>

Blank == [tbl \in Tables |-> [k \in Clients \X Times |-> 0]]

(* An entry of client c is added at time t; a session that was last seen   *)
(* at `from` moves to t instead of being added.                            *)
Entered(book, tbl, c, from, t) ==
    [book EXCEPT ![tbl] =
        [k \in Clients \X Times |->
            @[k] + (IF k = <<c, t>> THEN 1 ELSE 0)
                 - (IF k = <<c, from>> THEN 1 ELSE 0)]]

(* Everything older than the cutoff is forgotten, in some of the tables.   *)
Expired(book, tables, cutoff) ==
    [tbl \in Tables |->
        [k \in Clients \X Times |->
            IF tbl \in tables /\ k[2] < cutoff THEN 0 ELSE book[tbl][k]]]

-----------------------------------------------------------------------------
Init ==
    /\ committed = Blank
    /\ working = Blank

Enter(tbl, c, from, t) ==
    /\ from # NoTime => tbl = "sessions" /\ working[tbl][<<c, from>>] > 0
    /\ working' = Entered(working, tbl, c, from, t)
    /\ UNCHANGED committed

(* A prune goes through the tables one by one.  Left in the middle, what   *)
(* it forgot so far may still be published.                                *)
Expire(tbl, cutoff) ==
    /\ working' = Expired(working, {tbl}, cutoff)
    /\ UNCHANGED committed

Publish ==
    /\ committed' = working
    /\ UNCHANGED working

Discard ==
    /\ working' = committed
    /\ UNCHANGED committed

(* Another process expires old entries between two transactions.           *)
ExpireOutside(cutoff) ==
    /\ working = committed
    /\ committed' = Expired(committed, Tables, cutoff)
    /\ working' = committed'

Next ==
    \/ \E tbl \in Tables, c \in Clients, t \in Times, from \in Times \cup {NoTime} :
          Enter(tbl, c, from, t)
    \/ \E tbl \in Tables, cutoff \in 0 .. MaxTime + 1 : Expire(tbl, cutoff)
    \/ \E cutoff \in 1 .. MaxTime + 1 : ExpireOutside(cutoff)
    \/ Publish
    \/ Discard

Spec == Init /\ [][Next]_vars
=============================================================================
