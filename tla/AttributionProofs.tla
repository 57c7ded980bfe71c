-------------------------- MODULE AttributionProofs --------------------------
(***************************************************************************)
(* Proofs about Attribution, for every value of its constants.             *)
(***************************************************************************)
EXTENDS Attribution, TLAPS

-----------------------------------------------------------------------------
(* The pipes.                                                              *)

LEMMA RangeAppend ==
    ASSUME NEW S, NEW s \in Seq(S), NEW x \in S
    PROVE  Range(Append(s, x)) \subseteq Range(s) \cup {x}
BY DEF Range

LEMMA RangeTaken ==
    ASSUME NEW S, NEW s \in Seq(S), s # <<>>
    PROVE  /\ Head(s) \in S
           /\ Tail(s) \in Seq(S)
           /\ Len(Tail(s)) = Len(s) - 1
           /\ Head(s) \in Range(s)
           /\ Range(Tail(s)) \subseteq Range(s)
<1>1. Len(s) \in Nat /\ Len(s) >= 1
  OBVIOUS
<1>2. Head(s) = s[1] /\ 1 \in DOMAIN s
  BY <1>1
<1>3. \A n \in DOMAIN Tail(s) : Tail(s)[n] = s[n + 1] /\ n + 1 \in DOMAIN s
  BY <1>1
<1> QED  BY <1>1, <1>2, <1>3 DEF Range

(* The packets whose line has not been attributed yet.                     *)
Underway == Range(pipe) \cup Range(dnsPipe) \cup {pkt}

-----------------------------------------------------------------------------
(* Types.                                                                  *)

LEMMA LabelTypes ==
    ASSUME TypeOK, NEW ip \in Ips \cup {Remote}
    PROVE  /\ HolderOf(routes, ip) \in Holders
           /\ ClientFor(ip) \in Labels \cup {Nobody}
           /\ ClientFor(ip) \in Clients => ip \in Ips /\ ClientFor(ip) = routes[ip]
<1>1. HolderOf(routes, ip) \in Holders
  BY DEF TypeOK, HolderOf, Maps, Holders
<1>2. CASE HolderOf(routes, ip) # Nobody
  BY <1>1, <1>2 DEF ClientFor, HolderOf, Labels, Holders
<1>3. CASE HolderOf(routes, ip) = Nobody /\ KeepUnmapped /\ ip \in Subnet
  <2>1. ClientFor(ip) = <<"unmapped", ip>> /\ ip \in Ips
    BY <1>3, NamesAssumption DEF ClientFor
  <2> QED  BY <1>1, <2>1, NamesAssumption DEF Labels
<1>4. CASE HolderOf(routes, ip) = Nobody /\ ~(KeepUnmapped /\ ip \in Subnet)
  BY <1>1, <1>4, NamesAssumption DEF ClientFor
<1> QED  BY <1>1, <1>2, <1>3, <1>4

LEMMA HeldTypes ==
    ASSUME TypeOK
    PROVE  /\ \A ip \in Ips \cup {Remote} : HeldNow(ip) \in SUBSET Clients
           /\ \A ip \in Ips \cup {Remote} : HeldSinceMap(ip) \in SUBSET Clients
           /\ \A src, dst \in Ips \cup {Remote} : Captured(src, dst) \in Packets
<1>1. ASSUME NEW ip \in Ips \cup {Remote}
      PROVE  /\ HeldNow(ip) \in SUBSET Clients
             /\ HeldSinceMap(ip) \in SUBSET Clients
             /\ HolderOf(lease, ip) \in Holders
  BY <1>1 DEF TypeOK, Maps, Hads, Holders, HeldNow, HeldSinceMap, HolderOf
<1> QED  BY <1>1 DEF Captured, Packets

LEMMA InitType == ASSUME Init PROVE TypeOK
<1>1. NoRoutes \in Maps /\ NoPacket \in Packets /\ NoCredit \in Credits
  BY DEF NoRoutes, NoPacket, NoCredit, Maps, Holders, Packets, Credits
<1>2. <<>> \in Seq(Packets) /\ Len(<<>>) =< MaxPipe
  BY OptionsAssumption
<1>3. [ip \in Ips |-> HeldNow(ip)] \in Hads
  BY DEF Init, Maps, Hads, Holders, HeldNow
<1>4. had \in [file : Hads, snap : Hads, routes : Hads]
  BY <1>3 DEF Init
<1> QED  BY <1>1, <1>2, <1>4 DEF Init, TypeOK

LEMMA WitnessedType ==
    ASSUME NEW p \in Packets, NEW c \in Clients, NEW ip \in Ips
    PROVE  Witnessed(p, c, ip) \in Packets
BY DEF Witnessed, Packets

LEMMA WitnessedPipe ==
    ASSUME NEW s \in Seq(Packets), NEW c \in Clients, NEW ip \in Ips
    PROVE  /\ [n \in DOMAIN s |-> Witnessed(s[n], c, ip)] \in Seq(Packets)
           /\ Len([n \in DOMAIN s |-> Witnessed(s[n], c, ip)]) = Len(s)
           /\ Range([n \in DOMAIN s |-> Witnessed(s[n], c, ip)])
                  = {Witnessed(p, c, ip) : p \in Range(s)}
<1>1. DOMAIN s = 1 .. Len(s) /\ Len(s) \in Nat
  OBVIOUS
<1>2. \A n \in 1 .. Len(s) : Witnessed(s[n], c, ip) \in Packets
  BY <1>1, WitnessedType
<1> QED  BY <1>1, <1>2 DEF Range

LEMMA NextType == ASSUME TypeOK, [Next]_vars PROVE TypeOK'
<1> USE DEF server, watcher, pipes, traffic
<1>0. credit' = NoCredit => credit' \in Credits
  BY DEF NoCredit, Credits, Holders
<1>1. ASSUME NEW c \in Clients, NEW ip \in Ips, Connect(c, ip), credit' = NoCredit PROVE TypeOK'
  <2>1. lease' \in Maps
    BY <1>1 DEF TypeOK, Connect, Maps, Holders
  <2>2. had' \in [file : Hads, snap : Hads, routes : Hads]
    BY <1>1 DEF TypeOK, Connect, Hads
  <2>3. pkt' \in Packets
    BY <1>1, WitnessedType DEF TypeOK, Connect
  <2>4. /\ pipe' \in Seq(Packets) /\ Len(pipe') =< MaxPipe
        /\ dnsPipe' \in Seq(Packets) /\ Len(dnsPipe') =< MaxPipe
    BY <1>1, WitnessedPipe DEF TypeOK, Connect
  <2> QED  BY <1>0, <1>1, <2>1, <2>2, <2>3, <2>4 DEF TypeOK, Connect
<1>2. ASSUME NEW ip \in Ips, Disconnect(ip), credit' = NoCredit PROVE TypeOK'
  BY <1>0, <1>2 DEF TypeOK, Disconnect, Maps, Holders
<1>3. ASSUME NEW missing \in SUBSET Ips, NEW old \in SUBSET Ips, Rewrite(missing, old),
             readable' \in BOOLEAN, credit' = NoCredit
      PROVE  TypeOK'
  <2>1. file' \in Maps
    BY <1>3 DEF TypeOK, Rewrite, Maps, Holders
  <2>2. had' \in [file : Hads, snap : Hads, routes : Hads]
    <3>1. [ip \in Ips |-> IF ip \in old THEN had.file[ip] ELSE HeldNow(ip)] \in Hads
      BY HeldTypes DEF TypeOK, Hads
    <3> QED  BY <1>3, <3>1 DEF TypeOK, Rewrite
  <2> QED  BY <1>0, <1>3, <2>1, <2>2 DEF TypeOK, Rewrite
<1>4. ASSUME WriteStatus \/ LoseStatus, credit' = NoCredit PROVE TypeOK'
  BY <1>0, <1>3, <1>4 DEF WriteStatus, LoseStatus, TypeOK
<1>5. ASSUME NEW missing \in SUBSET Ips, NEW old \in SUBSET Ips, TearStatus(missing, old),
             credit' = NoCredit
      PROVE  TypeOK'
  BY <1>3, <1>5 DEF TearStatus, TypeOK
<1>6. ASSUME NEW src \in Ips \cup {Remote}, NEW dst \in Ips \cup {Remote}, Capture(src, dst),
             credit' = NoCredit
      PROVE  TypeOK'
  BY <1>0, <1>6, HeldTypes, OptionsAssumption DEF TypeOK, Capture
<1>7. ASSUME NEW src \in Ips, CaptureQuery(src), credit' = NoCredit PROVE TypeOK'
  BY <1>0, <1>7, HeldTypes, OptionsAssumption DEF TypeOK, CaptureQuery
<1>8. ASSUME ReadStatus \/ InstallRoutes, credit' = NoCredit PROVE TypeOK'
  <2>1. had' \in [file : Hads, snap : Hads, routes : Hads]
    BY <1>8 DEF TypeOK, ReadStatus, InstallRoutes
  <2> QED  BY <1>0, <1>8, <2>1 DEF TypeOK, ReadStatus, InstallRoutes
<1>9. ASSUME NextPacket, credit' = NoCredit PROVE TypeOK'
  <2>1. Head(pipe) \in Packets /\ Tail(pipe) \in Seq(Packets) /\ Len(Tail(pipe)) =< MaxPipe
    BY <1>9, RangeTaken, OptionsAssumption DEF TypeOK, NextPacket
  <2> QED  BY <1>0, <1>9, <2>1 DEF TypeOK, NextPacket
<1>10. ASSUME NEW label \in Labels \cup {Nobody}, NEW ip \in Ips \cup {Remote},
              NEW held \in Holders, NEW heldSince \in SUBSET Clients,
              Credited(label, ip, held, heldSince)
       PROVE  credit' \in Credits
  BY <1>10, HeldTypes DEF Credited, Credits
<1>11. pkt \in Packets /\ NoPacket \in Packets
  BY DEF TypeOK, NoPacket, Packets, Holders
<1>12. CASE ClassifySource
  <2>1. /\ ClientFor(pkt.src) \in Labels \cup {Nobody} /\ pkt.from \in Holders
        /\ pkt.src \in Ips \cup {Remote} /\ pkt.fromHad \in SUBSET Clients
    BY <1>11, LabelTypes DEF Packets
  <2>2. credit' \in Credits
    BY <1>0, <1>10, <1>12, <2>1 DEF ClassifySource
  <2> QED  BY <1>11, <1>12, <2>2 DEF TypeOK, ClassifySource, Done
<1>13. CASE ClassifyDestination
  <2>1. /\ ClientFor(pkt.dst) \in Labels \cup {Nobody} /\ pkt.to \in Holders
        /\ pkt.dst \in Ips \cup {Remote} /\ pkt.toHad \in SUBSET Clients
    BY <1>11, LabelTypes DEF Packets
  <2>2. credit' \in Credits
    BY <1>10, <1>13, <2>1 DEF ClassifyDestination
  <2> QED  BY <1>11, <1>13, <2>2 DEF TypeOK, ClassifyDestination, Done
<1>14. CASE AddQuery
  <2> DEFINE q == Head(dnsPipe)
  <2>1. q \in Packets /\ Tail(dnsPipe) \in Seq(Packets) /\ Len(Tail(dnsPipe)) =< MaxPipe
    BY <1>14, RangeTaken, OptionsAssumption DEF TypeOK, AddQuery
  <2>2. Credited(HolderOf(routes, q.src), q.src, q.from, q.fromHad)
    BY <1>14 DEF AddQuery
  <2> HIDE DEF q
  <2>3. HolderOf(routes, q.src) \in Labels \cup {Nobody} /\ q.src \in Ips \cup {Remote}
    BY <2>1, LabelTypes DEF Packets, Labels, Holders
  <2>4. credit' \in Credits
    BY <1>10, <2>1, <2>2, <2>3 DEF Packets
  <2> QED  BY <1>14, <2>1, <2>4 DEF TypeOK, AddQuery
<1>15. CASE UNCHANGED vars
  BY <1>15 DEF TypeOK, vars
<1> QED  BY <1>1, <1>2, <1>4, <1>5, <1>6, <1>7, <1>8, <1>9, <1>12, <1>13, <1>14, <1>15
            DEF Next, Quiet, Server

(* Every variable keeps its type: whatever the file says, a credit goes to *)
(* a client, to an "unmapped:" label of an address of the VPN, or to none. *)
THEOREM AttributionTypeCorrect == Spec => []TypeOK
BY InitType, NextType, PTL DEF Spec

-----------------------------------------------------------------------------
(* The holders since then.                                                 *)

(* S is what a copy of the routes, or a packet underway, has for ip.       *)
IsHad(ip, S) ==
    \/ S \in {had.file[ip], had.snap[ip], had.routes[ip]}
    \/ \E p \in Underway : p.src = ip /\ p.fromHad = S
    \/ \E p \in Underway : p.dst = ip /\ p.toHad = S

(* Of two copies or packets, the older one has seen whom the other saw.    *)
Nested ==
    \A ip \in Ips : \A S, T \in SUBSET Clients :
        IsHad(ip, S) /\ IsHad(ip, T) => S \subseteq T \/ T \subseteq S

(* All have seen the present holder ..                                     *)
Current ==
    \A ip \in Ips : \A S \in SUBSET Clients : IsHad(ip, S) => HeldNow(ip) \subseteq S

(* .. and the one they name.                                               *)
MapsWitness ==
    \A ip \in Ips :
        /\ file[ip] \in had.file[ip] \cup {Nobody}
        /\ snap[ip] \in had.snap[ip] \cup {Nobody}
        /\ routes[ip] \in had.routes[ip] \cup {Nobody}

Witness(p) == /\ p.src \in Ips => p.from \in p.fromHad \cup {Nobody}
              /\ p.dst \in Ips => p.to \in p.toHad \cup {Nobody}

HadInv ==
    /\ Nested
    /\ Current
    /\ MapsWitness
    /\ \A p \in Underway : Witness(p)

LEMMA InitHadInv == ASSUME Init PROVE HadInv
<1>1. Underway = {NoPacket}
  BY DEF Init, Underway, Range
<1>2. ASSUME NEW ip \in Ips, NEW S, IsHad(ip, S) PROVE S = HeldNow(ip)
  <2>1. ip # NoPacket.src /\ ip # NoPacket.dst
    BY NamesAssumption DEF NoPacket
  <2> QED  BY <1>1, <1>2, <2>1 DEF Init, IsHad
<1>3. MapsWitness
  BY DEF Init, MapsWitness, NoRoutes, HeldNow
<1>4. Witness(NoPacket)
  BY DEF Witness, NoPacket
<1> QED  BY <1>1, <1>2, <1>3, <1>4 DEF HadInv, Nested, Current

(* A step that connects nobody only forgets, or begins with the present.   *)
LEMMA NothingNew ==
    ASSUME HadInv,
           \A ip \in Ips : lease'[ip] \in {lease[ip], Nobody},
           \A ip \in Ips : {had'.file[ip], had'.snap[ip], had'.routes[ip]} \subseteq
               {had.file[ip], had.snap[ip], had.routes[ip], HeldNow(ip)},
           MapsWitness',
           \A p \in Underway' :
               \/ p \in Underway
               \/ /\ Witness(p)
                  /\ p.src \in Ips => p.fromHad = HeldNow(p.src)
                  /\ p.dst \in Ips => p.toHad = HeldNow(p.dst)
    PROVE  HadInv'
<1>1. ASSUME NEW ip \in Ips, NEW S, IsHad(ip, S)'
      PROVE  IsHad(ip, S) \/ S = HeldNow(ip)
  <2>1. CASE S \in {had'.file[ip], had'.snap[ip], had'.routes[ip]}
    BY <2>1 DEF IsHad
  <2>2. ASSUME NEW p \in Underway', p.src = ip /\ p.fromHad = S PROVE  IsHad(ip, S) \/ S = HeldNow(ip)
    BY <2>2 DEF IsHad
  <2>3. ASSUME NEW p \in Underway', p.dst = ip /\ p.toHad = S PROVE  IsHad(ip, S) \/ S = HeldNow(ip)
    BY <2>3 DEF IsHad
  <2> QED  BY <1>1, <2>1, <2>2, <2>3 DEF IsHad
<1>2. \A ip \in Ips : HeldNow(ip)' \subseteq HeldNow(ip)
  BY DEF HeldNow
<1>3. Nested' /\ Current'
  BY <1>1, <1>2 DEF HadInv, Nested, Current
<1>4. \A p \in Underway' : Witness(p)
  BY DEF HadInv
<1> QED  BY <1>3, <1>4 DEF HadInv

(* A connection is seen by all copies and by all packets underway.         *)
LEMMA ConnectHadInv ==
    ASSUME TypeOK, HadInv, NEW c \in Clients, NEW ip \in Ips, Connect(c, ip)
    PROVE  HadInv'
<1> DEFINE seen(jp, S) == IF jp = ip THEN S \cup {c} ELSE S
<1>1. Underway' = {Witnessed(p, c, ip) : p \in Underway}
  <2>1. /\ Range(pipe') = {Witnessed(p, c, ip) : p \in Range(pipe)}
        /\ Range(dnsPipe') = {Witnessed(p, c, ip) : p \in Range(dnsPipe)}
    BY WitnessedPipe DEF TypeOK, Connect
  <2> QED  BY <2>1 DEF Underway, Connect
<1>2. Underway \subseteq Packets
  BY DEF TypeOK, Underway, Range
<1>3. ASSUME NEW p \in Underway
      PROVE  LET w == Witnessed(p, c, ip) IN
             /\ w.src = p.src /\ w.dst = p.dst /\ w.from = p.from /\ w.to = p.to
             /\ w.fromHad = seen(p.src, p.fromHad)
             /\ w.toHad = seen(p.dst, p.toHad)
  BY <1>2 DEF Witnessed, Packets
<1>4. ASSUME NEW jp \in Ips
      PROVE  /\ had'.file[jp] = seen(jp, had.file[jp])
             /\ had'.snap[jp] = seen(jp, had.snap[jp])
             /\ had'.routes[jp] = seen(jp, had.routes[jp])
  BY DEF TypeOK, Hads, Connect
<1>5. ASSUME NEW jp \in Ips, NEW S \in SUBSET Clients, IsHad(jp, S)'
      PROVE  \E R \in SUBSET Clients : IsHad(jp, R) /\ S = seen(jp, R)
  <2>1. \A R : IsHad(jp, R) => R \in SUBSET Clients
    BY <1>2 DEF IsHad, TypeOK, Hads, Packets
  <2>2. CASE S \in {had'.file[jp], had'.snap[jp], had'.routes[jp]}
    BY <1>4, <2>1, <2>2 DEF IsHad
  <2>3. ASSUME NEW w \in Underway', w.src = jp /\ w.fromHad = S
        PROVE  \E R \in SUBSET Clients : IsHad(jp, R) /\ S = seen(jp, R)
    <3>1. PICK p \in Underway : w = Witnessed(p, c, ip)
      BY <1>1
    <3>2. p.src = jp /\ S = seen(jp, p.fromHad)
      BY <1>3, <2>3, <3>1
    <3>3. IsHad(jp, p.fromHad)
      BY <3>2 DEF IsHad
    <3> QED  BY <2>1, <3>2, <3>3
  <2>4. ASSUME NEW w \in Underway', w.dst = jp /\ w.toHad = S
        PROVE  \E R \in SUBSET Clients : IsHad(jp, R) /\ S = seen(jp, R)
    <3>1. PICK p \in Underway : w = Witnessed(p, c, ip)
      BY <1>1
    <3>2. p.dst = jp /\ S = seen(jp, p.toHad)
      BY <1>3, <2>4, <3>1
    <3>3. IsHad(jp, p.toHad)
      BY <3>2 DEF IsHad
    <3> QED  BY <2>1, <3>2, <3>3
  <2> QED  BY <1>5, <2>2, <2>3, <2>4 DEF IsHad
<1>6. \A jp \in Ips : HeldNow(jp)' \subseteq seen(jp, HeldNow(jp))
  BY DEF HeldNow, Connect, TypeOK, Maps
<1>7. Nested'
  BY <1>5 DEF HadInv, Nested
<1>8. Current'
  BY <1>5, <1>6 DEF HadInv, Current
<1>9. MapsWitness'
  BY <1>4 DEF HadInv, MapsWitness, Connect, watcher
<1>10. ASSUME NEW w \in Underway' PROVE Witness(w)
  <2>1. PICK p \in Underway : w = Witnessed(p, c, ip)
    BY <1>1
  <2>2. Witness(p)
    BY DEF HadInv
  <2>3. /\ w.src = p.src /\ w.dst = p.dst /\ w.from = p.from /\ w.to = p.to
        /\ p.fromHad \subseteq w.fromHad /\ p.toHad \subseteq w.toHad
    BY <1>3, <2>1
  <2> QED  BY <2>2, <2>3 DEF Witness
<1> QED  BY <1>7, <1>8, <1>9, <1>10 DEF HadInv

LEMMA RewriteHadInv ==
    ASSUME TypeOK, HadInv, NEW missing \in SUBSET Ips, NEW old \in SUBSET Ips,
           Rewrite(missing, old)
    PROVE  HadInv'
<1>1. /\ UNCHANGED <<lease, snap, routes>> /\ Underway' = Underway
      /\ \A ip \in Ips : /\ file'[ip] \in {Nobody, lease[ip], file[ip]}
                         /\ ip \notin old => file'[ip] \in {Nobody, lease[ip]}
  BY DEF Rewrite, Underway, watcher, pipes, traffic
<1>2. ASSUME NEW ip \in Ips
      PROVE  /\ had'.file[ip] = IF ip \in old THEN had.file[ip] ELSE HeldNow(ip)
             /\ had'.snap[ip] = had.snap[ip] /\ had'.routes[ip] = had.routes[ip]
  BY DEF Rewrite, TypeOK, Hads
<1>3. ASSUME NEW ip \in Ips
      PROVE  /\ file'[ip] \in had'.file[ip] \cup {Nobody}
             /\ snap'[ip] \in had'.snap[ip] \cup {Nobody}
             /\ routes'[ip] \in had'.routes[ip] \cup {Nobody}
  <2>1. HeldNow(ip) \subseteq had.file[ip] /\ lease[ip] \in HeldNow(ip) \cup {Nobody}
    BY DEF HadInv, Current, IsHad, HeldNow, TypeOK, Hads
  <2> QED  BY <1>1, <1>2, <2>1 DEF HadInv, MapsWitness
<1>4. MapsWitness'
  BY <1>3 DEF MapsWitness
<1> QED  BY <1>1, <1>2, <1>4, NothingNew

LEMMA NextHadInv == ASSUME TypeOK, HadInv, [Next]_vars PROVE HadInv'
<1> USE DEF server, watcher, pipes, traffic
<1>1. ASSUME UNCHANGED <<file, snap, routes, had>> PROVE MapsWitness'
  BY <1>1 DEF HadInv, MapsWitness
<1>2. ASSUME UNCHANGED <<lease, file, snap, routes, had>>,
             \A p \in Underway' :
               \/ p \in Underway
               \/ /\ Witness(p)
                  /\ p.src \in Ips => p.fromHad = HeldNow(p.src)
                  /\ p.dst \in Ips => p.toHad = HeldNow(p.dst)
      PROVE  HadInv'
  BY <1>1, <1>2, NothingNew
<1>3. ASSUME NEW ip \in Ips, Disconnect(ip) PROVE HadInv'
  <2>1. Underway' = Underway /\ UNCHANGED <<file, snap, routes, had>>
    BY <1>3 DEF Disconnect, Underway
  <2>2. \A jp \in Ips : lease'[jp] \in {lease[jp], Nobody}
    BY <1>3 DEF Disconnect, TypeOK, Maps
  <2> QED  BY <1>1, <2>1, <2>2, NothingNew
<1>4. CASE LoseStatus
  BY <1>2, <1>4 DEF LoseStatus, Underway
<1>5. ASSUME NEW src \in Ips \cup {Remote}, NEW dst \in Ips \cup {Remote}
      PROVE  LET new == Captured(src, dst) IN
             /\ Witness(new)
             /\ new.src \in Ips => new.fromHad = HeldNow(new.src)
             /\ new.dst \in Ips => new.toHad = HeldNow(new.dst)
  BY DEF Captured, Witness, HolderOf, HeldNow
<1>6. ASSUME NEW src \in Ips \cup {Remote}, NEW dst \in Ips \cup {Remote},
             Capture(src, dst)
      PROVE  HadInv'
  <2>1. Range(pipe') \subseteq Range(pipe) \cup {Captured(src, dst)}
    BY <1>6, HeldTypes, RangeAppend DEF TypeOK, Capture
  <2>2. \A p \in Underway' : p \in Underway \/ p = Captured(src, dst)
    BY <1>6, <2>1 DEF Underway, Capture
  <2> QED  BY <1>2, <1>5, <1>6, <2>2 DEF Capture
<1>7. ASSUME NEW src \in Ips, CaptureQuery(src) PROVE HadInv'
  <2>1. Range(dnsPipe') \subseteq Range(dnsPipe) \cup {Captured(src, Remote)}
    BY <1>7, HeldTypes, RangeAppend DEF TypeOK, CaptureQuery
  <2>2. \A p \in Underway' : p \in Underway \/ p = Captured(src, Remote)
    BY <1>7, <2>1 DEF Underway, CaptureQuery
  <2> QED  BY <1>2, <1>5, <1>7, <2>2 DEF CaptureQuery
<1>8. CASE ReadStatus
  <2>1. /\ had'.file = had.file /\ had'.snap = had.file /\ had'.routes = had.routes
        /\ UNCHANGED <<lease, file, routes>> /\ snap' = file /\ Underway' = Underway
    BY <1>8 DEF ReadStatus, Underway, TypeOK
  <2>2. MapsWitness'
    BY <2>1 DEF HadInv, MapsWitness
  <2> QED  BY <2>1, <2>2, NothingNew
<1>9. CASE InstallRoutes
  <2>1. /\ had'.file = had.file /\ had'.snap = had.snap /\ had'.routes = had.snap
        /\ UNCHANGED <<lease, file, snap>> /\ routes' = snap /\ Underway' = Underway
    BY <1>9 DEF InstallRoutes, Underway, TypeOK
  <2>2. MapsWitness'
    BY <2>1 DEF HadInv, MapsWitness
  <2> QED  BY <2>1, <2>2, NothingNew
<1>10. CASE NextPacket
  <2>1. Head(pipe) \in Range(pipe) /\ Range(Tail(pipe)) \subseteq Range(pipe)
    BY <1>10, RangeTaken DEF TypeOK, NextPacket
  <2>2. \A p \in Underway' : p \in Underway
    BY <1>10, <2>1 DEF NextPacket, Underway
  <2> QED  BY <1>2, <1>10, <2>2 DEF NextPacket
<1>11. CASE ClassifySource \/ ClassifyDestination
  <2>1. /\ UNCHANGED <<lease, file, snap, routes, had, pipe, dnsPipe>>
        /\ pkt' \in {pkt, NoPacket}
    BY <1>11 DEF ClassifySource, ClassifyDestination, Done
  <2>2. Witness(NoPacket) /\ NoPacket.src \notin Ips /\ NoPacket.dst \notin Ips
    BY NamesAssumption DEF NoPacket, Witness
  <2>3. \A p \in Underway' : p \in Underway \/ p = NoPacket
    BY <2>1 DEF Underway
  <2> QED  BY <1>2, <2>1, <2>2, <2>3
<1>12. CASE AddQuery
  <2>1. Range(Tail(dnsPipe)) \subseteq Range(dnsPipe)
    BY <1>12, RangeTaken DEF TypeOK, AddQuery
  <2>2. \A p \in Underway' : p \in Underway
    BY <1>12, <2>1 DEF AddQuery, Underway
  <2> QED  BY <1>2, <1>12, <2>2 DEF AddQuery
<1>13. CASE UNCHANGED vars
  BY <1>2, <1>13 DEF vars, Underway
<1>14. CASE Server
  BY <1>3, <1>4, <1>14, ConnectHadInv, RewriteHadInv DEF Server, WriteStatus, TearStatus
<1> QED  BY <1>6, <1>7, <1>8, <1>9, <1>10, <1>11, <1>12, <1>13, <1>14 DEF Next, Quiet

-----------------------------------------------------------------------------
(* The credit.                                                             *)

LEMMA NextRightClient ==
    ASSUME TypeOK, HadInv, RightClient, [Next]_vars
    PROVE  RightClient'
<1> USE DEF server, watcher, pipes, traffic
<1>1. ASSUME NEW ip \in Ips, NEW held \in Clients, NEW S \in SUBSET Clients,
             IsHad(ip, S), held \in S, routes[ip] \in Clients
      PROVE  \E T \in {HeldSinceMap(ip), S} : {routes[ip], held} \subseteq T
  <2>1. IsHad(ip, had.routes[ip]) /\ routes[ip] \in had.routes[ip]
    BY <1>1, NamesAssumption DEF IsHad, HadInv, MapsWitness
  <2>2. had.routes[ip] \in SUBSET Clients /\ HeldSinceMap(ip) = had.routes[ip]
    BY DEF TypeOK, Hads, HeldSinceMap
  <2>3. S \subseteq had.routes[ip] \/ had.routes[ip] \subseteq S
    BY <1>1, <2>1, <2>2 DEF HadInv, Nested
  <2> QED  BY <1>1, <2>1, <2>2, <2>3
<1>2. ASSUME NEW p \in Underway, p \in Packets,
             Credited(ClientFor(p.src), p.src, p.from, p.fromHad)
      PROVE  RightClient'
  <2>1. SUFFICES ASSUME ClientFor(p.src) \in Clients, p.from \in Clients
                 PROVE  \E T \in {HeldSinceMap(p.src), p.fromHad} :
                            {ClientFor(p.src), p.from} \subseteq T
    BY <1>2 DEF RightClient, Credited
  <2>2. p.src \in Ips /\ ClientFor(p.src) = routes[p.src]
    BY <1>2, <2>1, LabelTypes DEF Packets
  <2>3. IsHad(p.src, p.fromHad) /\ p.from \in p.fromHad /\ p.fromHad \in SUBSET Clients
    BY <1>2, <2>1, <2>2, NamesAssumption DEF IsHad, HadInv, Witness, Packets
  <2> QED  BY <1>1, <2>1, <2>2, <2>3
<1>3. ASSUME NEW p \in Underway, p \in Packets,
             Credited(ClientFor(p.dst), p.dst, p.to, p.toHad)
      PROVE  RightClient'
  <2>1. SUFFICES ASSUME ClientFor(p.dst) \in Clients, p.to \in Clients
                 PROVE  \E T \in {HeldSinceMap(p.dst), p.toHad} :
                            {ClientFor(p.dst), p.to} \subseteq T
    BY <1>3 DEF RightClient, Credited
  <2>2. p.dst \in Ips /\ ClientFor(p.dst) = routes[p.dst]
    BY <1>3, <2>1, LabelTypes DEF Packets
  <2>3. IsHad(p.dst, p.toHad) /\ p.to \in p.toHad /\ p.toHad \in SUBSET Clients
    BY <1>3, <2>1, <2>2, NamesAssumption DEF IsHad, HadInv, Witness, Packets
  <2> QED  BY <1>1, <2>1, <2>2, <2>3
<1>4. pkt \in Underway /\ pkt \in Packets
  BY DEF Underway, TypeOK
<1>5. credit' = NoCredit => RightClient'
  BY NamesAssumption DEF NoCredit, RightClient
<1>6. CASE ClassifySource
  BY <1>2, <1>4, <1>5, <1>6 DEF ClassifySource
<1>7. CASE ClassifyDestination
  BY <1>3, <1>4, <1>7 DEF ClassifyDestination
<1>8. CASE AddQuery
  <2> DEFINE q == Head(dnsPipe)
  <2>1. q \in Underway /\ q \in Packets
    BY <1>8, RangeTaken DEF TypeOK, AddQuery, Underway
  <2>2. Credited(HolderOf(routes, q.src), q.src, q.from, q.fromHad)
    BY <1>8 DEF AddQuery
  <2> HIDE DEF q
  <2>3. CASE HolderOf(routes, q.src) = Nobody
    BY <2>2, <2>3, NamesAssumption DEF Credited, RightClient
  <2>4. CASE HolderOf(routes, q.src) # Nobody
    BY <1>2, <2>1, <2>2, <2>4 DEF ClientFor
  <2> QED  BY <2>3, <2>4
<1>9. CASE UNCHANGED vars
  BY <1>9 DEF RightClient, vars
<1> QED  BY <1>5, <1>6, <1>7, <1>8, <1>9 DEF Next

(* However the status file is torn or lost, however late it is read, the   *)
(* map installed and a packet looked up, and whatever happens between      *)
(* classify's two lookups: a client is credited with what another one sent *)
(* or received only if the address passed between the two in that time.    *)
THEOREM NoMisattribution == Spec => []RightClient
<1> DEFINE Inv == TypeOK /\ HadInv /\ RightClient
<1>1. Init => Inv
  <2>1. Init => RightClient
    BY NamesAssumption DEF Init, NoCredit, RightClient
  <2> QED  BY <2>1, InitType, InitHadInv
<1>2. Inv /\ [Next]_vars => Inv'
  BY NextType, NextHadInv, NextRightClient
<1>3. Inv => RightClient
  OBVIOUS
<1> QED  BY <1>1, <1>2, <1>3, PTL DEF Spec
=============================================================================
