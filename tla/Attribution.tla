---------------------------- MODULE Attribution ----------------------------
(***************************************************************************)
(* Who gets the credit for a packet: the OpenVPN server and its status     *)
(* file, the watcher thread that polls it into a route map                 *)
(* (collector.StatusWatcher), and the two threads that look addresses up   *)
(* in that map, one for traffic (Collector.classify) and one for DNS       *)
(* queries (DnsCollector.add_query).                                       *)
(*                                                                         *)
(* A packet is looked up when its line comes out of tcpdump's pipe, not    *)
(* when it was captured, in a map that was read from a file some time      *)
(* after the server wrote it and installed some time after it was read.    *)
(* For the properties only, each packet carries who held its addresses at  *)
(* capture, and each copy of the routes and each packet carries who has    *)
(* held the address since the copy was true or the packet was captured.    *)
(* classify takes the watcher's lock once per lookup, so the map may       *)
(* change between the two lookups.  The sessions that refresh records      *)
(* after it has installed the map are in module Sessions.                  *)
(***************************************************************************)
EXTENDS Naturals, Sequences, Functions

CONSTANTS
    Clients,        \* common names
    Ips,            \* addresses the VPN hands out
    Remote,         \* any address outside the VPN
    Nobody,         \* no client
    Subnet,         \* the --vpn-subnet addresses
    KeepUnmapped,   \* --keep-unmapped
    MaxPipe,        \* bound: lines waiting in a tcpdump pipe
    Faults          \* what the status file may suffer

ASSUME NamesAssumption ==
    /\ Nobody \notin Clients
    /\ Remote \notin Ips
    /\ Subnet \subseteq Ips
    /\ \A ip \in Ips : <<"unmapped", ip>> \notin Clients \cup {Nobody}
ASSUME OptionsAssumption ==
    /\ KeepUnmapped \in BOOLEAN
    /\ MaxPipe \in Nat
    /\ Faults \subseteq {"torn", "unreadable"}

VARIABLES
    lease,      \* the client each address is leased to
    file,       \* the routes a reader of the status file finds in it
    readable,   \* the file can be opened
    snap,       \* the snapshot refresh read last
    reading,    \* it has not installed it yet
    routes,     \* StatusWatcher._routes
    had,        \* who held each address since file, snap, routes were true
    pipe,       \* captured packets on their way to the traffic collector
    dnsPipe,    \* captured queries on their way to the DNS collector
    pc,         \* the traffic collector's next step
    pkt,        \* the packet it is classifying
    credit      \* the attribution the last step made

server  == <<lease, file, readable>>
watcher == <<snap, reading, routes>>
pipes   == <<pipe, dnsPipe>>
traffic == <<pc, pkt>>
vars    == <<server, watcher, had, pipes, traffic, credit>>

Holders == Clients \cup {Nobody}
Maps    == [Ips -> Holders]
Hads    == [Ips -> SUBSET Clients]
Packets == [src : Ips \cup {Remote}, dst : Ips \cup {Remote}, from : Holders, to : Holders,
            fromHad : SUBSET Clients, toHad : SUBSET Clients]
Labels  == Clients \cup {<<"unmapped", ip>> : ip \in Ips}

NoPacket == [src |-> Remote, dst |-> Remote, from |-> Nobody, to |-> Nobody,
             fromHad |-> {}, toHad |-> {}]

(* An attribution: the label, the client that held the address at capture, *)
(* and who held it since the map was true and since the capture.           *)
Credits == [label : Labels \cup {Nobody}, held : Holders, since : SUBSET SUBSET Clients]

NoCredit == [label |-> Nobody, held |-> Nobody, since |-> {}]

HolderOf(map, ip) == IF ip \in Ips THEN map[ip] ELSE Nobody

(* Who holds the address now: where every `had` begins.                    *)
HeldNow(ip) == IF ip \in Ips THEN {lease[ip]} \ {Nobody} ELSE {}

HeldSinceMap(ip) == IF ip \in Ips THEN had.routes[ip] ELSE {}

TypeOK ==
    /\ lease \in Maps
    /\ file \in Maps
    /\ readable \in BOOLEAN
    /\ snap \in Maps
    /\ reading \in BOOLEAN
    /\ routes \in Maps
    /\ had \in [file : Hads, snap : Hads, routes : Hads]
    /\ pipe \in Seq(Packets) /\ Len(pipe) =< MaxPipe
    /\ dnsPipe \in Seq(Packets) /\ Len(dnsPipe) =< MaxPipe
    /\ pc \in {"idle", "src", "dst"}
    /\ pkt \in Packets
    /\ credit \in Credits

-----------------------------------------------------------------------------
NoRoutes == [ip \in Ips |-> Nobody]

(* run_collect polls the file once before anything is captured.            *)
Init ==
    /\ lease \in Maps
    /\ file = lease
    /\ \/ readable = TRUE /\ routes = file
       \/ readable = FALSE /\ routes = NoRoutes /\ "unreadable" \in Faults
    /\ snap = routes
    /\ reading = FALSE
    /\ LET now == [ip \in Ips |-> HeldNow(ip)] IN
       had = [file |-> now, snap |-> now, routes |-> now]
    /\ pipe = <<>>
    /\ dnsPipe = <<>>
    /\ pc = "idle"
    /\ pkt = NoPacket
    /\ credit = NoCredit

-----------------------------------------------------------------------------
(* The OpenVPN server, as far as the status file shows it.                 *)

(* What a packet underway remembers when the address goes to c.            *)
Witnessed(p, c, ip) ==
    [p EXCEPT !.fromHad = IF p.src = ip THEN @ \cup {c} ELSE @,
              !.toHad   = IF p.dst = ip THEN @ \cup {c} ELSE @]

Connect(c, ip) ==
    /\ lease[ip] = Nobody
    /\ lease' = [lease EXCEPT ![ip] = c]
    /\ had' = [had EXCEPT !.file[ip] = @ \cup {c}, !.snap[ip] = @ \cup {c},
                          !.routes[ip] = @ \cup {c}]
    /\ pipe' = [n \in DOMAIN pipe |-> Witnessed(pipe[n], c, ip)]
    /\ dnsPipe' = [n \in DOMAIN dnsPipe |-> Witnessed(dnsPipe[n], c, ip)]
    /\ pkt' = Witnessed(pkt, c, ip)
    /\ UNCHANGED <<file, readable, watcher, pc>>

Disconnect(ip) ==
    /\ lease[ip] # Nobody
    /\ lease' = [lease EXCEPT ![ip] = Nobody]
    /\ UNCHANGED <<file, readable, watcher, had, pipes, traffic>>

(* The file is rewritten in place: a reader may find entries missing, or   *)
(* those of the previous write.                                            *)
Rewrite(missing, old) ==
    /\ file' = [ip \in Ips |-> IF ip \in missing THEN Nobody
                               ELSE IF ip \in old THEN file[ip] ELSE lease[ip]]
    /\ had' = [had EXCEPT !.file = [ip \in Ips |-> IF ip \in old THEN @[ip] ELSE HeldNow(ip)]]
    /\ UNCHANGED <<lease, watcher, pipes, traffic>>

WriteStatus ==
    /\ Rewrite({}, {})
    /\ readable' = TRUE

TearStatus(missing, old) ==
    /\ "torn" \in Faults
    /\ readable
    /\ Rewrite(missing, old)
    /\ UNCHANGED readable

LoseStatus ==
    /\ "unreadable" \in Faults
    /\ readable
    /\ readable' = FALSE
    /\ UNCHANGED <<lease, file, watcher, had, pipes, traffic>>

-----------------------------------------------------------------------------
(* tcpdump prints a line.  The server forwards a packet from an address    *)
(* only for the client that holds it.                                      *)

Captured(src, dst) ==
    [src |-> src, dst |-> dst, from |-> HolderOf(lease, src), to |-> HolderOf(lease, dst),
     fromHad |-> HeldNow(src), toHad |-> HeldNow(dst)]

Capture(src, dst) ==
    /\ Len(pipe) < MaxPipe
    /\ src \in Ips => lease[src] # Nobody
    /\ src # dst
    /\ pipe' = Append(pipe, Captured(src, dst))
    /\ UNCHANGED <<server, watcher, had, dnsPipe, traffic>>

CaptureQuery(src) ==
    /\ Len(dnsPipe) < MaxPipe
    /\ lease[src] # Nobody
    /\ dnsPipe' = Append(dnsPipe, Captured(src, Remote))
    /\ UNCHANGED <<server, watcher, had, pipe, traffic>>

-----------------------------------------------------------------------------
(* StatusWatcher.refresh reads the file, before it takes its lock; it      *)
(* returns if it cannot.                                                   *)
ReadStatus ==
    /\ ~reading
    /\ readable
    /\ snap' = file
    /\ reading' = TRUE
    /\ had' = [had EXCEPT !.snap = had.file]
    /\ UNCHANGED <<server, routes, pipes, traffic>>

(* Mutant: the new routes are merged into the old ones.                    *)
InstallMerged ==
    /\ reading
    /\ routes' = [ip \in Ips |-> IF snap[ip] # Nobody THEN snap[ip] ELSE routes[ip]]
    /\ reading' = FALSE
    /\ had' = [had EXCEPT !.routes = had.snap]
    /\ UNCHANGED <<server, snap, pipes, traffic>>

(* Then it replaces the map, whatever has become of the file.              *)
InstallRoutes ==
    /\ reading
    /\ routes' = snap
    /\ reading' = FALSE
    /\ had' = [had EXCEPT !.routes = had.snap]
    /\ UNCHANGED <<server, snap, pipes, traffic>>

(* Mutant: --keep-unmapped without the subnet test.                        *)
ClientForAny(ip) ==
    IF HolderOf(routes, ip) # Nobody THEN HolderOf(routes, ip)
    ELSE IF KeepUnmapped THEN <<"unmapped", ip>> ELSE Nobody

(* Collector._client_for.                                                  *)
ClientFor(ip) ==
    IF HolderOf(routes, ip) # Nobody THEN HolderOf(routes, ip)
    ELSE IF KeepUnmapped /\ ip \in Subnet THEN <<"unmapped", ip>> ELSE Nobody

NextPacket ==
    /\ pc = "idle"
    /\ pipe # <<>>
    /\ pkt' = Head(pipe)
    /\ pipe' = Tail(pipe)
    /\ pc' = "src"
    /\ UNCHANGED <<server, watcher, had, dnsPipe>>

Credited(label, ip, held, heldSince) ==
    credit' = [label |-> label, held |-> held, since |-> {HeldSinceMap(ip), heldSince}]

Done == pc' = "idle" /\ pkt' = NoPacket

(* Collector.classify, first lookup: the source, direction "out".          *)
ClassifySource ==
    /\ pc = "src"
    /\ IF ClientFor(pkt.src) # Nobody
       THEN Credited(ClientFor(pkt.src), pkt.src, pkt.from, pkt.fromHad) /\ Done
       ELSE pc' = "dst" /\ credit' = NoCredit /\ UNCHANGED pkt
    /\ UNCHANGED <<server, watcher, had, pipes>>

(* Second lookup: the destination, direction "in"; no client, no credit.   *)
ClassifyDestination ==
    /\ pc = "dst"
    /\ Credited(ClientFor(pkt.dst), pkt.dst, pkt.to, pkt.toHad)
    /\ Done
    /\ UNCHANGED <<server, watcher, had, pipes>>

(* DnsCollector.add_query: the querying address, never "unmapped:".        *)
AddQuery ==
    /\ dnsPipe # <<>>
    /\ dnsPipe' = Tail(dnsPipe)
    /\ LET q == Head(dnsPipe) IN
       Credited(HolderOf(routes, q.src), q.src, q.from, q.fromHad)
    /\ UNCHANGED <<server, watcher, had, pipe, traffic>>

-----------------------------------------------------------------------------
Server ==
    \/ \E c \in Clients, ip \in Ips : Connect(c, ip)
    \/ \E ip \in Ips : Disconnect(ip)
    \/ WriteStatus
    \/ \E missing, old \in SUBSET Ips : TearStatus(missing, old)
    \/ LoseStatus

Quiet ==
    \/ Server
    \/ \E src, dst \in Ips \cup {Remote} : Capture(src, dst)
    \/ \E src \in Ips : CaptureQuery(src)
    \/ ReadStatus
    \/ InstallRoutes
    \/ NextPacket

Next ==
    \/ Quiet /\ credit' = NoCredit
    \/ ClassifySource
    \/ ClassifyDestination
    \/ AddQuery

Spec == Init /\ [][Next]_vars

-----------------------------------------------------------------------------
(* A client is credited with what another one sent or received only if the *)
(* address changed hands between the two within the age of what classify   *)
(* went by: both have held it since the status file was true that the map  *)
(* was read from, or both since the packet was captured.  However late the *)
(* poll, its installation and the lookup are, an address that does not     *)
(* change hands in that time is credited to its holder.                    *)
RightClient ==
    credit.label \in Clients /\ credit.held \in Clients /\ credit.label # credit.held =>
        \E S \in credit.since : {credit.label, credit.held} \subseteq S
=============================================================================
