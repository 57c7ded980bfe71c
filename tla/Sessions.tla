------------------------------ MODULE Sessions ------------------------------
(***************************************************************************)
(* Who `openvpn-metrics sessions` and the route map take to be connected:  *)
(* the server's sessions, its status file, StatusWatcher.refresh, which    *)
(* turns the file into routes and rows of the sessions table, and prune,   *)
(* which deletes rows that were not seen for a while.                      *)
(*                                                                         *)
(* A session is what the key of the table tells apart: common name, real   *)
(* address and connected_since; its address in the VPN is as good as its   *)
(* name here.  last_seen is kept as an age, the time since then, and ages  *)
(* saturate: the specification has no bound on time.                       *)
(***************************************************************************)
EXTENDS Naturals

CONSTANTS
    Sessions,       \* connections clients may have with the server
    StatusPeriod,   \* the server rewrites its status file within this time
    PollGap,        \* a poll reads the file whole and stores it within this time
    Keeps,          \* --retention of the collector, --keep of the prune command
    MaxAge,         \* bound: greater ages are not told apart
    Outages         \* TRUE: the file may be unreadable for longer than PollGap

ASSUME PeriodsAssumption ==
    /\ StatusPeriod \in Nat
    /\ PollGap \in Nat
    /\ MaxAge \in Nat
    /\ Keeps \subseteq 0 .. MaxAge - 1
    /\ Outages \in BOOLEAN

VARIABLES
    connected,  \* sessions the server has
    file,       \* sessions the status file lists
    fileAge,    \* since the server wrote it
    readable,   \* the watcher can open it
    routes,     \* StatusWatcher._routes
    seen,       \* sessions.last_seen, as an age; Never without a row
    known,      \* connected sessions that have been stored since they connected
    stale,      \* since a poll has read the file whole and stored it
    gone        \* since the server last had the session

vars == <<connected, file, fileAge, readable, routes, seen, known, stale, gone>>

Ages  == 0 .. MaxAge
Never == MaxAge + 1

TypeOK ==
    /\ connected \subseteq Sessions
    /\ file \subseteq Sessions
    /\ fileAge \in 0 .. StatusPeriod
    /\ readable \in BOOLEAN
    /\ routes \subseteq Sessions
    /\ seen \in [Sessions -> Ages \cup {Never}]
    /\ known \subseteq connected
    /\ stale \in Ages
    /\ gone \in [Sessions -> Ages]

Init ==
    /\ connected = {}
    /\ file = {}
    /\ fileAge = 0
    /\ readable \in BOOLEAN
    /\ routes = {}
    /\ seen = [s \in Sessions |-> Never]
    /\ known = {}
    /\ stale = 0
    /\ gone = [s \in Sessions |-> MaxAge]

-----------------------------------------------------------------------------
(* The OpenVPN server.                                                     *)

(* A new session has a real address or a connected_since of its own.       *)
Connect(s) ==
    /\ s \notin connected \cup file \cup routes
    /\ seen[s] = Never
    /\ connected' = connected \cup {s}
    /\ gone' = [gone EXCEPT ![s] = 0]
    /\ UNCHANGED <<file, fileAge, readable, routes, seen, known, stale>>

Disconnect(s) ==
    /\ s \in connected
    /\ connected' = connected \ {s}
    /\ known' = known \ {s}
    /\ UNCHANGED <<file, fileAge, readable, routes, seen, stale, gone>>

WriteStatus ==
    /\ file' = connected
    /\ fileAge' = 0
    /\ UNCHANGED <<connected, readable, routes, seen, known, stale, gone>>

(* The file is moved, or its permissions change; they are put right.       *)
LoseStatus ==
    /\ readable' = FALSE
    /\ UNCHANGED <<connected, file, fileAge, routes, seen, known, stale, gone>>

RestoreStatus ==
    /\ ~readable
    /\ readable' = TRUE
    /\ UNCHANGED <<connected, file, fileAge, routes, seen, known, stale, gone>>

-----------------------------------------------------------------------------
(* Mutant: only new sessions are stored.                                   *)
StoredOnce(read) ==
    /\ seen' = [s \in Sessions |-> IF s \in read /\ seen[s] = Never THEN 0 ELSE seen[s]]
    /\ known' = known \cup (read \cap connected)

(* Mutant: a session that is not listed any more is stored again.          *)
StoredFromRoutes(read) ==
    /\ seen' = [s \in Sessions |-> IF s \in read \cup routes THEN 0 ELSE seen[s]]
    /\ known' = known \cup (read \cap connected)

(* record_sessions(snap.clients, time.time()); not called for no clients,  *)
(* which would store nothing either.                                       *)
Stored(read) ==
    /\ seen' = [s \in Sessions |-> IF s \in read THEN 0 ELSE seen[s]]
    /\ known' = known \cup (read \cap connected)

(* Mutant: the old routes stay in the map.                                 *)
AddRoutes(read) ==
    /\ readable
    /\ routes' = routes \cup read

(* StatusWatcher.refresh up to the sessions: None for an unreadable file   *)
(* returns at once.                                                        *)
ReplaceRoutes(read) ==
    /\ readable
    /\ routes' = read

Poll ==
    /\ ReplaceRoutes(file)
    /\ Stored(file)
    /\ stale' = 0
    /\ UNCHANGED <<connected, file, fileAge, readable, gone>>

(* record_sessions fails (the database is locked, the disk is full); run   *)
(* logs it and goes on.  The routes are those of the new file all the same.*)
PollUnstored ==
    /\ ReplaceRoutes(file)
    /\ UNCHANGED <<connected, file, fileAge, readable, seen, known, stale, gone>>

(* The server is rewriting the file: the reader finds some entries of the  *)
(* old one and of the new one.                                             *)
PollTorn(read) ==
    /\ read \subseteq file \cup connected
    /\ ReplaceRoutes(read)
    /\ Stored(read)
    /\ file' = connected
    /\ fileAge' = 0
    /\ UNCHANGED <<connected, readable, stale, gone>>

(* The collector's process ends and the next one starts with no routes.    *)
Restart ==
    /\ routes' = {}
    /\ UNCHANGED <<connected, file, fileAge, readable, seen, known, stale, gone>>

(* Mutant: clock and retention are in different units, so nothing is old.  *)
NothingPruned(keep) ==
    /\ UNCHANGED <<connected, file, fileAge, readable, routes, seen, known, stale, gone>>

(* DELETE FROM sessions WHERE last_seen < time.time() - keep.              *)
Prune(keep) ==
    /\ seen' = [s \in Sessions |-> IF seen[s] > keep THEN Never ELSE seen[s]]
    /\ UNCHANGED <<connected, file, fileAge, readable, routes, known, stale, gone>>

Older(age) == IF age < MaxAge THEN age + 1 ELSE age

Tick ==
    /\ fileAge < StatusPeriod
    /\ stale >= PollGap => Outages /\ ~readable
    /\ fileAge' = fileAge + 1
    /\ seen' = [s \in Sessions |-> Older(seen[s])]
    /\ stale' = Older(stale)
    /\ gone' = [s \in Sessions |-> IF s \in connected THEN 0 ELSE Older(gone[s])]
    /\ UNCHANGED <<connected, file, readable, routes, known>>

-----------------------------------------------------------------------------
Server ==
    \/ \E s \in Sessions : Connect(s) \/ Disconnect(s)
    \/ WriteStatus
    \/ LoseStatus
    \/ RestoreStatus

Watcher ==
    \/ Poll
    \/ PollUnstored
    \/ \E read \in SUBSET Sessions : PollTorn(read)
    \/ Restart

Next ==
    \/ Server
    \/ Watcher
    \/ \E keep \in Keeps : Prune(keep)
    \/ Tick

Spec == Init /\ [][Next]_vars

(* Time passes, the server writes its file again and again and somebody    *)
(* makes it readable; polls that find a whole file and a free database     *)
(* recur, and so do packets, after which the collector prunes.             *)
FairSpec ==
    /\ Spec
    /\ WF_vars(WriteStatus)
    /\ WF_vars(RestoreStatus)
    /\ SF_vars(Tick)
    /\ SF_vars(Poll)
    /\ \A keep \in Keeps : WF_vars(Prune(keep))

-----------------------------------------------------------------------------
(* A client that is connected and has been stored is not pruned: the polls *)
(* keep its session young.  (They do as long as they come within what is   *)
(* kept, which is what PollGap and Keeps are chosen for.)                  *)
ConnectedKept == \A s \in known : seen[s] # Never

(* A last_seen is true: the server had the session at that time, or not    *)
(* longer before it than a status file may be old.                         *)
SeenInTime ==
    \A s \in Sessions : seen[s] # Never => gone[s] =< seen[s] + StatusPeriod

(* The map follows the server: while a session stays, or stays away, the   *)
(* map keeps coming back to saying so.                                     *)
PickedUp ==
    \A s \in Sessions :
        /\ <>[](s \in connected) => []<>(s \in routes)
        /\ <>[](s \notin connected) => []<>(s \notin routes)

(* A session that is over is forgotten in the end: polls of files that do  *)
(* not list it cannot keep it.                                             *)
Forgotten ==
    \A s \in Sessions : <>[](s \notin connected) => <>[](seen[s] = Never)
=============================================================================
