---------------------------- MODULE DoctorProofs ----------------------------
(***************************************************************************)
(* What holds of the doctor and of the parser of tcpdump's lines for all   *)
(* addresses, ports and lengths, any traffic and pipes of any length.      *)
(***************************************************************************)
EXTENDS Doctor, TLAPS

LEMMA FirstOfSeq ==
    ASSUME NEW S, NEW s \in Seq(S), Len(s) = 4
    PROVE  s[1] \in S
OBVIOUS

LEMMA NatSeq ==
    ASSUME NEW a \in Seq(Nat), Len(a) = 4
    PROVE  a \in Seq(Int) /\ a[1] \in Nat
<1>1. a[1] \in Nat
  BY FirstOfSeq
<1>2. a \in Seq(Int)
  OBVIOUS
<1>3. QED  BY <1>1, <1>2

LEMMA AddressSeq ==
    ASSUME NEW a, IsIPv4(a) \/ IsIPv6(a)
    PROVE  /\ a \in Seq(Int)
           /\ Len(a) = IF IsIPv4(a) \/ Tailed(a) THEN 4 ELSE 1
           /\ IsIPv4(a) => ~IsIPv6(a)
<1>1. IsIPv4(a) => a \in Seq(Int) /\ Len(a) = 4 /\ a[1] \in Nat
  BY NatSeq DEF IsIPv4
<1>2. IsIPv6(a) => a \in Seq(Int) /\ Len(a) \in {1, 4} /\ a[1] < 0
  BY DEF IsIPv6
<1>3. \A n \in Nat : ~(n < 0)
  OBVIOUS
<1>4. QED  BY <1>1, <1>2, <1>3 DEF Tailed

LEMMA Appended ==
    ASSUME NEW a \in Seq(Int), NEW x \in Int
    PROVE  Len(Append(a, x)) = Len(a) + 1 /\ Append(a, x)[Len(a) + 1] = x
OBVIOUS

LEMMA Shortened ==
    ASSUME NEW a \in Seq(Int), NEW x \in Int
    PROVE  SubSeq(Append(a, x), 1, Len(a)) = a
<1>1. SubSeq(Append(a, x), 1, Len(a)) \in Seq(Int)
  OBVIOUS
<1>2. Len(SubSeq(Append(a, x), 1, Len(a))) = Len(a)
  OBVIOUS
<1>3. \A i \in 1 .. Len(a) : SubSeq(Append(a, x), 1, Len(a))[i] = a[i]
  OBVIOUS
<1>4. QED  BY <1>1, <1>2, <1>3

(* An address with a port behind it is split into the two again.           *)
LEMMA SplitPort ==
    ASSUME NEW a \in Seq(Int), NEW is_ipv6 \in BOOLEAN, NEW port \in Nat,
           Len(a) >= 1, is_ipv6 \/ Len(a) = 4
    PROVE  Split(Append(a, port), is_ipv6) = [host |-> a, port |-> port]
<1> DEFINE fields == Append(a, port)
<1>1. Len(fields) = Len(a) + 1 /\ fields[Len(a) + 1] = port
  <2>1. port \in Int /\ Len(a) \in Nat
    OBVIOUS
  <2>2. QED  BY <2>1, Appended
<1>2. SubSeq(fields, 1, Len(fields) - 1) = a
  BY <1>1, Shortened
<1>3. Len(fields) > 1 /\ fields[Len(fields)] >= 0 /\ (is_ipv6 \/ Len(fields) = 5)
  <2>1. Len(a) \in Nat
    OBVIOUS
  <2>2. fields[Len(fields)] = port /\ Len(fields) = Len(a) + 1
    BY <1>1
  <2> HIDE DEF fields
  <2>3. Len(fields) > 1 /\ fields[Len(fields)] >= 0
    BY <2>1, <2>2
  <2>4. Len(a) = 4 => Len(fields) = 5
    BY <2>2
  <2>5. QED  BY <2>3, <2>4
<1> HIDE DEF fields
<1>4. Split(fields, is_ipv6) = [host |-> a, port |-> port]
  BY <1>1, <1>2, <1>3 DEF Split
<1>5. QED  BY <1>4 DEF fields

(* An address alone is left alone, unless it is IPv6 with a dotted tail.   *)
LEMMA SplitBare ==
    ASSUME NEW a, IsIPv4(a) \/ IsIPv6(a)
    PROVE  Split(a, ~IsIPv4(a)) = [host |-> Host(a), port |-> Port(a)]
<1>1. CASE IsIPv4(a)
  <2>1. Len(a) = 4 /\ ~Tailed(a)
    BY <1>1, AddressSeq DEF Tailed
  <2>2. QED  BY <1>1, <2>1 DEF Split, Host, Port
<1>2. CASE ~IsIPv4(a) /\ ~Tailed(a)
  <2>1. Len(a) = 1
    BY <1>2, AddressSeq
  <2>2. QED  BY <1>2, <2>1 DEF Split, Host, Port
<1>3. CASE ~IsIPv4(a) /\ Tailed(a)
  <2>1. Len(a) = 4 /\ a[4] >= 0
    BY <1>3 DEF Tailed, IsIPv6
  <2>2. QED  BY <1>3, <2>1 DEF Split, Host, Port
<1>4. QED  BY <1>1, <1>2, <1>3

(* The same of what tcpdump prints of an end of a packet.                  *)
LEMMA SplitToken ==
    ASSUME NEW p \in Packets, NEW a, NEW port \in Nat, NEW is_ipv6 \in BOOLEAN,
           IsIPv4(a) \/ IsIPv6(a), is_ipv6 = ~IsIPv4(a)
    PROVE  Split(Token(p, a, port), is_ipv6) =
               IF p.proto = "icmp" THEN [host |-> Host(a), port |-> Port(a)]
                                   ELSE [host |-> a, port |-> port]
<1>1. CASE p.proto = "icmp"
  BY <1>1, SplitBare DEF Token
<1>2. CASE p.proto # "icmp"
  <2>1. a \in Seq(Int) /\ Len(a) = IF IsIPv4(a) \/ Tailed(a) THEN 4 ELSE 1
    BY AddressSeq
  <2>2. Len(a) >= 1 /\ (is_ipv6 \/ Len(a) = 4)
    <3>1. CASE IsIPv4(a)
      <4>1. Len(a) = 4
        BY <2>1, <3>1
      <4>2. QED  BY <4>1
    <3>2. CASE ~IsIPv4(a)
      <4>1. Len(a) \in {1, 4}
        BY <2>1
      <4>2. Len(a) >= 1
        BY <4>1
      <4>3. QED  BY <3>2, <4>2
    <3>3. QED  BY <3>1, <3>2
  <2>3. QED  BY <1>2, <2>1, <2>2, SplitPort DEF Token
<1>3. QED  BY <1>1, <1>2

(* A packet is read as it was, unless its address is of that kind and no   *)
(* port follows it.                                                        *)
LEMMA ReadAsItWas ==
    ASSUME NEW p \in Packets, p.proto # "icmp" \/ (~Tailed(p.src) /\ ~Tailed(p.dst))
    PROVE  AsRead(p) = p
<1>1. CASE p.proto # "icmp"
  BY <1>1 DEF AsRead
<1>2. CASE p.proto = "icmp"
  <2>1. p.sport = 0 /\ p.dport = 0
    BY <1>2 DEF Packets
  <2>2. /\ Host(p.src) = p.src /\ Port(p.src) = p.sport
        /\ Host(p.dst) = p.dst /\ Port(p.dst) = p.dport
    BY <1>2, <2>1 DEF Host, Port
  <2>3. QED  BY <1>2, <2>2 DEF AsRead, Packets
<1>3. QED  BY <1>1, <1>2

(* A line is read as the packet it was printed for: hosts, ports, protocol *)
(* and length survive the way through tcpdump's notation and parse_line;   *)
(* except that the last field of an IPv6 address with a dotted tail        *)
(* (::ffff:10.8.0.6) is taken for a port, where no port follows it.        *)
THEOREM LinesAreRead ==
    \A p \in Packets :
        /\ Parsed(Printed(p)) = AsRead(p)
        /\ p.proto # "icmp" \/ (~Tailed(p.src) /\ ~Tailed(p.dst)) => AsRead(p) = p
<1> SUFFICES ASSUME NEW p \in Packets
             PROVE  Parsed(Printed(p)) = AsRead(p)
  BY ReadAsItWas
<1> DEFINE v6 == ~IsIPv4(p.src)
           line == Printed(p)
<1>0. p \in [src : Addresses, dst : Addresses, proto : {"tcp", "udp", "icmp"},
             sport : Ports \cup {0}, dport : Ports \cup {0}, length : Lengths]
  BY DEF Packets
<1>1. /\ IsIPv4(p.src) \/ IsIPv6(p.src)
      /\ IsIPv4(p.dst) \/ IsIPv6(p.dst)
      /\ IsIPv4(p.src) = IsIPv4(p.dst)
  BY <1>0, AddressesAssumption DEF Packets
<1>2. p.sport \in Nat /\ p.dport \in Nat /\ p.length \in Nat /\ p.proto \in {"tcp", "udp", "icmp"}
  <2>1. p.sport \in Ports \cup {0} /\ p.dport \in Ports \cup {0} /\ p.length \in Lengths
    BY <1>0
  <2>2. Ports \subseteq Nat /\ Lengths \subseteq Nat
    BY NumbersAssumption
  <2>3. p.proto \in {"tcp", "udp", "icmp"}
    BY <1>0
  <2>4. \A n \in Ports \cup {0} : n \in Nat
    BY <2>2
  <2>5. QED  BY <2>1, <2>2, <2>3, <2>4
<1> DEFINE icmp == p.proto = "icmp"
           src  == IF icmp THEN Host(p.src) ELSE p.src
           dst  == IF icmp THEN Host(p.dst) ELSE p.dst
           sport == IF icmp THEN Port(p.src) ELSE p.sport
           dport == IF icmp THEN Port(p.dst) ELSE p.dport
<1>4. (line.family = "IP6") = v6
  BY DEF Printed
<1>5. Split(line.src, v6) = [host |-> src, port |-> sport]
  <2>1. line.src = Token(p, p.src, p.sport)
    BY DEF Printed
  <2>2. QED  BY <1>1, <1>2, <2>1, SplitToken
<1>6. Split(line.dst, v6) = [host |-> dst, port |-> dport]
  <2>1. line.dst = Token(p, p.dst, p.dport) /\ v6 = ~IsIPv4(p.dst)
    BY <1>1 DEF Printed
  <2>2. QED  BY <1>1, <1>2, <2>1, SplitToken
<1>7. Proto(line.word) = p.proto
  BY <1>2 DEF Printed, Proto
<1>8. Number(IF p.proto = "tcp" THEN line.second ELSE line.length) = p.length
  BY <1>2 DEF Printed, Number, None
<1>9. AsRead(p) = [src |-> src, sport |-> sport, dst |-> dst, dport |-> dport,
                   proto |-> p.proto, length |-> p.length]
  <2>1. p = [src |-> p.src, sport |-> p.sport, dst |-> p.dst, dport |-> p.dport,
             proto |-> p.proto, length |-> p.length]
    BY DEF Packets
  <2>2. CASE icmp
    BY <2>1, <2>2 DEF AsRead
  <2>3. CASE ~icmp
    BY <2>1, <2>3 DEF AsRead
  <2>4. QED  BY <2>2, <2>3
<1> HIDE DEF line, v6, src, dst, sport, dport
<1>10. Parsed(line) = [src |-> src, sport |-> sport, dst |-> dst, dport |-> dport,
                       proto |-> p.proto, length |-> p.length]
  BY <1>4, <1>5, <1>6, <1>7, <1>8 DEF Parsed
<1>11. QED  BY <1>9, <1>10 DEF line
-----------------------------------------------------------------------------
(* What Read appends for a line of the pipe.                               *)
LEMMA LinesAppended ==
    ASSUME NEW line \in Lines, AppendParsed(line)
    PROVE  \/ line = Noise /\ packets' = packets
           \/ \E p \in Packets : line = Printed(p) /\ packets' = packets \cup {AsRead(p)}
<1>1. CASE line = Noise
  BY <1>1 DEF AppendParsed
<1>2. CASE line # Noise
  <2>1. PICK p \in Packets : line = Printed(p)
    BY <1>2 DEF Lines
  <2>2. packets' = packets \cup {AsRead(p)}
    BY <1>2, <2>1, LinesAreRead DEF AppendParsed
  <2>3. QED  BY <2>1, <2>2
<1>3. QED  BY <1>1, <1>2

(* The worst line is never forgotten.                                      *)
LEMMA WorstKept ==
    ASSUME worst \in Levels, NEW level \in Levels, NEW title, Line(level, title)
    PROVE  /\ worst' \in Levels
           /\ worst' = "OK" <=> worst = "OK" /\ level = "OK"
           /\ worst' = "FAIL" <=> worst = "FAIL" \/ level = "FAIL"
           /\ said' = said \cup {title}
BY DEF Line, Levels, Order

LEMMA TypeInit == Init => TypeOK
<1> SUFFICES ASSUME Init
             PROVE  TypeOK
  OBVIOUS
<1>1. stdout \in Seq(Lines) /\ captured \subseteq [packet : Packets, steady : BOOLEAN]
  BY DEF Init
<1>2. QED  BY <1>1 DEF Init, TypeOK, Levels

LEMMA TypeStep == TypeOK /\ [Next]_vars => TypeOK'
<1> SUFFICES ASSUME TypeOK, [Next]_vars
             PROVE  TypeOK'
  OBVIOUS
<1> USE DEF server, probe
<1>1. CASE UNCHANGED vars
  BY <1>1 DEF TypeOK, vars
<1>2. ASSUME NEW a \in Leases, Connect(a) \/ Disconnect(a)
      PROVE  TypeOK'
  BY <1>2 DEF TypeOK, Connect, Disconnect
<1>3. CASE WriteStatus
  BY <1>3 DEF TypeOK, WriteStatus
<1>4. ASSUME NEW p \in Traffic, Capture(p)
      PROVE  TypeOK'
  <2>1. p \in Packets /\ Printed(p) \in Lines
    BY TrafficAssumption DEF Lines
  <2>2. stdout' \in Seq(Lines)
    BY <1>4, <2>1 DEF TypeOK, Capture
  <2>3. captured' \subseteq [packet : Packets, steady : BOOLEAN]
    <3>1. PICK b \in BOOLEAN : b = ({p.src, p.dst} \cap steady # {})
      OBVIOUS
    <3>2. captured' = captured \cup {[packet |-> p, steady |-> b]}
      BY <1>4, <3>1 DEF Capture
    <3>3. QED  BY <2>1, <3>2 DEF TypeOK
  <2>4. QED  BY <1>4, <2>2, <2>3 DEF TypeOK, Capture
<1>5. CASE PrintNoise
  <2>1. stdout' \in Seq(Lines)
    BY <1>5 DEF TypeOK, PrintNoise, Lines
  <2>2. QED  BY <1>5, <2>1 DEF TypeOK, PrintNoise
<1>6. CASE TcpdumpFails
  BY <1>6 DEF TypeOK, TcpdumpFails
<1>7. CASE Read
  <2>1. Head(stdout) \in Lines /\ stdout' \in Seq(Lines)
    BY <1>7 DEF TypeOK, Read
  <2>2. packets' \subseteq {AsRead(p) : p \in Packets}
    BY <1>7, <2>1, LinesAppended DEF TypeOK, Read
  <2>3. QED  BY <1>7, <2>1, <2>2 DEF TypeOK, Read
<1>8. CASE ReaderEnds \/ ReaderFails
  BY <1>8 DEF TypeOK, ReaderEnds, ReaderFails
<1>9. CASE CheckPrivileges
  BY <1>9, WorstKept DEF TypeOK, CheckPrivileges, Goto, Levels
<1>10. CASE CheckTcpdump
  BY <1>10, WorstKept DEF TypeOK, CheckTcpdump, Goto, Levels
<1>11. CASE CheckInterface
  <2>1. worst' \in Levels
    BY <1>11, WorstKept DEF TypeOK, CheckInterface, Sites, Levels
  <2>2. QED  BY <1>11, <2>1 DEF TypeOK, CheckInterface, Goto
<1>12. CASE CheckNoStatus
  BY <1>12, WorstKept DEF TypeOK, CheckNoStatus, Goto, Levels
<1>13. ASSUME NEW routes \in SUBSET Leases, CheckStatus(routes)
       PROVE  TypeOK'
  BY <1>13, WorstKept DEF TypeOK, CheckStatus, Goto, Levels
<1>14. CASE SkipProbe
  BY <1>14, WorstKept DEF TypeOK, SkipProbe, Goto, Levels
<1>15. CASE StartProbe
  BY <1>15, WorstKept DEF TypeOK, StartProbe, Goto, Levels
<1>16. CASE StartFails
  BY <1>16, WorstKept DEF TypeOK, StartFails, Goto, Levels
<1>17. CASE StopProbe
  BY <1>17 DEF TypeOK, StopProbe, Goto, Quiet
<1>18. CASE Joined
  BY <1>18 DEF TypeOK, Joined, Join, Goto, Quiet
<1>19. CASE ProbeFailed
  BY <1>19, WorstKept DEF TypeOK, ProbeFailed, Goto, Levels
<1>20. CASE ProbeSilent
  BY <1>20, WorstKept DEF TypeOK, ProbeSilent, Goto, Levels
<1>21. CASE ProbeSaw
  BY <1>21 DEF TypeOK, ProbeSaw, Goto, Quiet
<1>22. CASE MapSample
  BY <1>22, WorstKept DEF TypeOK, MapSample, Goto, Levels
<1>23. CASE CheckDb
  <2>1. worst' \in Levels
    BY <1>23, WorstKept DEF TypeOK, CheckDb, Sites, Levels
  <2>2. QED  BY <1>23, <2>1 DEF TypeOK, CheckDb, Goto
<1>24. CASE DbRaises
  BY <1>24 DEF TypeOK, DbRaises, Goto, Quiet
<1>25. QED
  BY <1>1, <1>2, <1>3, <1>4, <1>5, <1>6, <1>7, <1>8, <1>9, <1>10, <1>11, <1>12, <1>13,
     <1>14, <1>15, <1>16, <1>17, <1>18, <1>19, <1>20, <1>21, <1>22, <1>23, <1>24
     DEF Next, Environment, Reader, run_doctor, Probe

(* The doctor's state has its type: in particular the reader's list holds  *)
(* packets only, and never the None of a line that is none.                *)
THEOREM DoctorTypeCorrect == Spec => []TypeOK
BY TypeInit, TypeStep, PTL DEF Spec
-----------------------------------------------------------------------------
(* The sample.  Every captured packet is in it or in the pipe, nothing     *)
(* else is, and once tcpdump has stopped only the reader takes from them.  *)

Waiting(p) == \E i \in 1 .. Len(stdout) : stdout[i] = Printed(p)

Wire == {c.packet : c \in captured}

Sampled == {AsRead(p) : p \in Wire}

ToProbeYet == ToRead \/ pc = "probe"

Idle == ToProbeYet => tcpdump = "none" /\ reader = "none" /\ captured = {} /\ packets = {}

Piped == \A i \in 1 .. Len(stdout) : stdout[i] = Noise \/ \E p \in Wire : stdout[i] = Printed(p)

NoneLost == \A p \in Wire : AsRead(p) \in packets \/ Waiting(p)

Stopped ==
    /\ ~ToProbeYet /\ pc # "sampling" => tcpdump # "running"
    /\ reader = "done" => tcpdump # "running" /\ stdout = <<>>
    /\ pc \in {"sampling", "stopping"} => reader # "none"
    /\ pc \in {"counting", "mapping"} /\ ~cut => reader \in {"done", "failed"}

SampleInv ==
    /\ TypeOK
    /\ Idle
    /\ packets \subseteq Sampled
    /\ Piped
    /\ NoneLost
    /\ Stopped

LEMMA PrintedIsPacket == \A p \in Packets : Printed(p) # Noise
<1> SUFFICES ASSUME NEW p \in Packets, Printed(p) = Noise
             PROVE  FALSE
  OBVIOUS
<1>1. Printed(p).family \in {"IP", "IP6"}
  BY DEF Printed
<1>2. Noise.family = "ARP"
  BY DEF Noise
<1>3. QED  BY <1>1, <1>2

LEMMA WireTyped == TypeOK => Wire \subseteq Packets
BY DEF TypeOK, Wire

LEMMA SampleInit == Init => SampleInv
<1> SUFFICES ASSUME Init
             PROVE  SampleInv
  OBVIOUS
<1>1. TypeOK
  BY TypeInit
<1>2. Wire = {} /\ Len(stdout) = 0 /\ packets \subseteq Sampled
  BY DEF Init, Wire
<1>3. Piped /\ NoneLost
  BY <1>2 DEF Piped, NoneLost
<1>4. QED  BY <1>1, <1>2, <1>3 DEF Init, SampleInv, Idle, Stopped, ToProbeYet, ToRead

(* A step that leaves the packets alone.                                   *)
LEMMA SampleRest ==
    ASSUME SampleInv, TypeOK', UNCHANGED <<captured, stdout, packets>>, Idle', Stopped'
    PROVE  SampleInv'
<1>1. Wire' = Wire /\ Sampled' = Sampled
  BY DEF Wire, Sampled
<1>2. Piped' /\ NoneLost'
  BY <1>1 DEF SampleInv, Piped, NoneLost, Waiting
<1>3. QED  BY <1>1, <1>2 DEF SampleInv

LEMMA SampleCapture ==
    ASSUME SampleInv, TypeOK', NEW p \in Packets, Capture(p)
    PROVE  SampleInv'
<1> DEFINE n == Len(stdout)
<1>1. TypeOK /\ stdout \in Seq(Lines) /\ n \in Nat
  BY DEF SampleInv, TypeOK
<1>2. Wire' = Wire \cup {p}
  <2> DEFINE c == [packet |-> p, steady |-> {p.src, p.dst} \cap steady # {}]
  <2>1. captured' = captured \cup {c} /\ c.packet = p
    BY DEF Capture
  <2> HIDE DEF c
  <2>2. QED  BY <2>1 DEF Wire
<1>3. /\ Len(stdout') = n + 1
      /\ \A i \in 1 .. n : stdout'[i] = stdout[i]
      /\ stdout'[n + 1] = Printed(p)
  <2>1. Printed(p) \in Lines
    BY DEF Lines
  <2>2. QED  BY <1>1, <2>1 DEF Capture
<1>4. Piped'
  BY <1>1, <1>2, <1>3 DEF SampleInv, Piped
<1>5. NoneLost'
  <2>1. Waiting(p)'
    BY <1>1, <1>3 DEF Waiting
  <2>2. ASSUME NEW q, Waiting(q)
        PROVE  Waiting(q)'
    BY <1>1, <1>3, <2>2 DEF Waiting
  <2>3. packets' = packets
    BY DEF Capture
  <2>4. QED  BY <1>2, <2>1, <2>2, <2>3 DEF SampleInv, NoneLost
<1>6. Idle' /\ Stopped'
  BY DEF SampleInv, Capture, Idle, Stopped, ToProbeYet, ToRead
<1>7. packets' \subseteq Sampled'
  <2>1. packets' = packets /\ Sampled \subseteq Sampled'
    BY <1>2 DEF Capture, Sampled
  <2>2. QED  BY <2>1 DEF SampleInv
<1>8. QED  BY <1>4, <1>5, <1>6, <1>7 DEF SampleInv

LEMMA SampleNoise ==
    ASSUME SampleInv, TypeOK', PrintNoise
    PROVE  SampleInv'
<1> DEFINE n == Len(stdout)
<1>1. TypeOK /\ stdout \in Seq(Lines) /\ n \in Nat
  BY DEF SampleInv, TypeOK
<1>2. Wire' = Wire
  BY DEF PrintNoise, Wire
<1>3. /\ Len(stdout') = n + 1
      /\ \A i \in 1 .. n : stdout'[i] = stdout[i]
      /\ stdout'[n + 1] = Noise
  <2>1. Noise \in Lines
    BY DEF Lines
  <2>2. QED  BY <1>1, <2>1 DEF PrintNoise
<1>4. Piped'
  BY <1>1, <1>2, <1>3 DEF SampleInv, Piped
<1>5. NoneLost'
  <2>1. ASSUME NEW q, Waiting(q)
        PROVE  Waiting(q)'
    BY <1>1, <1>3, <2>1 DEF Waiting
  <2>2. packets' = packets
    BY DEF PrintNoise
  <2>3. QED  BY <1>2, <2>1, <2>2 DEF SampleInv, NoneLost
<1>6. Idle' /\ Stopped'
  BY DEF SampleInv, PrintNoise, Idle, Stopped, ToProbeYet, ToRead
<1>7. packets' \subseteq Sampled'
  <2>1. packets' = packets /\ Sampled' = Sampled
    BY <1>2 DEF PrintNoise, Sampled
  <2>2. QED  BY <2>1 DEF SampleInv
<1>8. QED  BY <1>4, <1>5, <1>6, <1>7 DEF SampleInv

LEMMA SampleRead ==
    ASSUME SampleInv, TypeOK', Read
    PROVE  SampleInv'
<1> DEFINE line == Head(stdout)
           n    == Len(stdout)
<1>1. TypeOK /\ stdout \in Seq(Lines) /\ stdout # <<>> /\ n \in Nat
  BY DEF SampleInv, TypeOK, Read
<1>2. n >= 1 /\ line = stdout[1] /\ line \in Lines
  BY <1>1
<1>3. /\ Len(stdout') = n - 1
      /\ \A i \in 1 .. n - 1 : stdout'[i] = stdout[i + 1]
  BY <1>1, <1>2 DEF Read
<1>4. Wire' = Wire
  BY DEF Read, Wire
<1>5. \/ line = Noise /\ packets' = packets
      \/ \E p \in Packets : line = Printed(p) /\ packets' = packets \cup {AsRead(p)}
  <2>1. AppendParsed(line)
    BY DEF Read
  <2>2. QED  BY <1>2, <2>1, LinesAppended
<1>6. packets \subseteq packets'
  BY <1>5
<1>7. ASSUME NEW p \in Wire, line = Printed(p)
      PROVE  AsRead(p) \in packets'
  <2>1. p \in Packets /\ line # Noise
    BY <1>1, <1>7, WireTyped, PrintedIsPacket
  <2>2. PICK q \in Packets : line = Printed(q) /\ packets' = packets \cup {AsRead(q)}
    BY <1>5, <2>1
  <2>3. AsRead(q) = AsRead(p)
    BY <1>7, <2>1, <2>2, LinesAreRead
  <2>4. QED  BY <2>2, <2>3
<1>8. packets' \subseteq Sampled'
  <2>0. Sampled' = Sampled
    BY <1>4 DEF Sampled
  <2>1. CASE line = Noise
    <3>1. packets' = packets
      BY <1>5, <2>1, PrintedIsPacket
    <3>2. QED  BY <2>0, <3>1 DEF SampleInv
  <2>2. CASE line # Noise
    <3>1. PICK p \in Wire : line = Printed(p)
      BY <1>1, <1>2, <2>2 DEF SampleInv, Piped
    <3>2. PICK q \in Packets : line = Printed(q) /\ packets' = packets \cup {AsRead(q)}
      BY <1>5, <2>2
    <3>3. AsRead(q) = AsRead(p)
      BY <1>1, <3>1, <3>2, WireTyped, LinesAreRead
    <3>4. AsRead(p) \in Sampled
      BY <3>1 DEF Sampled
    <3>5. QED  BY <2>0, <3>2, <3>3, <3>4 DEF SampleInv
  <2>3. QED  BY <2>1, <2>2
<1>9. Piped'
  BY <1>1, <1>2, <1>3, <1>4 DEF SampleInv, Piped
<1>10. NoneLost'
  <2> SUFFICES ASSUME NEW p \in Wire
               PROVE  AsRead(p) \in packets' \/ Waiting(p)'
    BY <1>4 DEF NoneLost
  <2>1. CASE AsRead(p) \in packets
    BY <1>6, <2>1
  <2>2. CASE Waiting(p)
    <3>1. PICK i \in 1 .. n : stdout[i] = Printed(p)
      BY <2>2 DEF Waiting
    <3>2. CASE i = 1
      BY <1>2, <1>7, <3>1, <3>2
    <3>3. CASE i # 1
      <4>1. i - 1 \in 1 .. n - 1 /\ stdout'[i - 1] = Printed(p)
        BY <1>1, <1>3, <3>1, <3>3
      <4>2. QED  BY <1>3, <4>1 DEF Waiting
    <3>4. QED  BY <3>2, <3>3
  <2>3. QED  BY <2>1, <2>2 DEF SampleInv, NoneLost
<1>11. Idle' /\ Stopped'
  BY DEF SampleInv, Read, Idle, Stopped, ToProbeYet, ToRead
<1>12. QED  BY <1>8, <1>9, <1>10, <1>11 DEF SampleInv
LEMMA SampleStep == SampleInv /\ [Next]_vars => SampleInv'
<1> SUFFICES ASSUME SampleInv, [Next]_vars
             PROVE  SampleInv'
  OBVIOUS
<1> USE DEF server, probe
<1>0. TypeOK /\ TypeOK'
  BY TypeStep DEF SampleInv
<1>1. CASE UNCHANGED vars
  BY <1>0, <1>1, SampleRest DEF SampleInv, Idle, Stopped, ToProbeYet, ToRead, vars
<1>2. ASSUME NEW a \in Leases, Connect(a) \/ Disconnect(a)
      PROVE  SampleInv'
  BY <1>0, <1>2, SampleRest
     DEF SampleInv, Idle, Stopped, ToProbeYet, ToRead, Connect, Disconnect
<1>3. CASE WriteStatus
  BY <1>0, <1>3, SampleRest DEF SampleInv, Idle, Stopped, ToProbeYet, ToRead, WriteStatus
<1>4. ASSUME NEW p \in Traffic, Capture(p)
      PROVE  SampleInv'
  BY <1>0, <1>4, SampleCapture, TrafficAssumption
<1>5. CASE PrintNoise
  BY <1>0, <1>5, SampleNoise
<1>6. CASE TcpdumpFails
  BY <1>0, <1>6, SampleRest DEF SampleInv, Idle, Stopped, ToProbeYet, ToRead, TcpdumpFails
<1>7. CASE Read
  BY <1>0, <1>7, SampleRead
<1>8. CASE ReaderEnds \/ ReaderFails
  BY <1>0, <1>8, SampleRest
     DEF SampleInv, Idle, Stopped, ToProbeYet, ToRead, ReaderEnds, ReaderFails
<1>9. CASE CheckPrivileges \/ CheckTcpdump \/ CheckInterface \/ CheckNoStatus
  BY <1>0, <1>9, SampleRest
     DEF SampleInv, Idle, Stopped, ToProbeYet, ToRead, Goto,
         CheckPrivileges, CheckTcpdump, CheckInterface, CheckNoStatus
<1>10. ASSUME NEW routes \in SUBSET Leases, CheckStatus(routes)
       PROVE  SampleInv'
  BY <1>0, <1>10, SampleRest
     DEF SampleInv, Idle, Stopped, ToProbeYet, ToRead, Goto, CheckStatus
<1>11. CASE SkipProbe
  BY <1>0, <1>11, SampleRest DEF SampleInv, Idle, Stopped, ToProbeYet, ToRead, Goto, SkipProbe
<1>12. CASE StartProbe
  BY <1>0, <1>12, SampleRest DEF SampleInv, Idle, Stopped, ToProbeYet, ToRead, Goto, StartProbe
<1>13. CASE StartFails
  BY <1>0, <1>13, SampleRest DEF SampleInv, Idle, Stopped, ToProbeYet, ToRead, Goto, StartFails
<1>14. CASE StopProbe
  BY <1>0, <1>14, SampleRest DEF SampleInv, Idle, Stopped, ToProbeYet, ToRead, Goto, StopProbe
<1>15. CASE Joined
  <2>1. reader \in {"none", "running", "done", "failed"}
    BY <1>0 DEF TypeOK
  <2>2. QED
    BY <1>0, <1>15, <2>1, SampleRest
       DEF SampleInv, Idle, Stopped, ToProbeYet, ToRead, Goto, Joined, Join
<1>16. CASE ProbeFailed \/ ProbeSilent \/ ProbeSaw \/ MapSample \/ CheckDb \/ DbRaises
  BY <1>0, <1>16, SampleRest
     DEF SampleInv, Idle, Stopped, ToProbeYet, ToRead, Goto,
         ProbeFailed, ProbeSilent, ProbeSaw, MapSample, CheckDb, DbRaises
<1>17. QED
  BY <1>1, <1>2, <1>3, <1>4, <1>5, <1>6, <1>7, <1>8, <1>9, <1>10, <1>11, <1>12, <1>13,
     <1>14, <1>15, <1>16
     DEF Next, Environment, Reader, run_doctor, Probe

LEMMA SampleHolds == Spec => []SampleInv
BY SampleInit, SampleStep, PTL DEF Spec

(* Server, clients and tcpdump matter as long as tcpdump may capture.      *)
LEMMA EnvironmentEnds ==
    ASSUME SampleInv, ToRead \/ pc = "probe" \/ tcpdump = "running"
    PROVE  pc \notin {"stopping", "counting", "mapping", "db", "done", "raised"}
BY DEF SampleInv, Stopped, ToProbeYet, ToRead

(* The sample is true: the reader's list holds captured packets, read as   *)
(* AsRead says, and all of them when it has come to the end of the output. *)
THEOREM SampleIsTrue == Spec => []SampleTrue
<1>1. SampleInv => SampleTrue
  <2> SUFFICES ASSUME SampleInv
               PROVE  SampleTrue
    OBVIOUS
  <2>0. Sampled = {AsRead(c.packet) : c \in captured}
    BY DEF Sampled, Wire
  <2>1. packets \subseteq Sampled
    BY DEF SampleInv
  <2>2. CASE reader = "done"
    <3>1. Len(stdout) = 0
      BY <2>2 DEF SampleInv, Stopped
    <3>2. \A p \in Wire : AsRead(p) \in packets
      BY <3>1 DEF SampleInv, NoneLost, Waiting
    <3>3. packets = Sampled
      BY <2>1, <3>2 DEF Sampled
    <3>4. QED  BY <2>0, <3>3 DEF SampleTrue
  <2>3. QED  BY <2>0, <2>1, <2>2 DEF SampleTrue
<1>2. QED  BY <1>1, SampleHolds, PTL

-----------------------------------------------------------------------------
(* Silence.  Nothing passes any more when "0 packets seen" is said.        *)

Silent ==
    "silence" \in said =>
        /\ pc \in {"db", "done", "raised"}
        /\ ~cut /\ reader # "failed" => captured = {}

LEMMA SaidKept ==
    ASSUME NEW level, NEW title, title # "silence", Line(level, title)
    PROVE  "silence" \in said' => "silence" \in said
BY DEF Line

LEMMA SilentStep == SampleInv /\ Silent /\ [Next]_vars => Silent'
<1> SUFFICES ASSUME SampleInv, Silent, [Next]_vars
             PROVE  Silent'
  OBVIOUS
<1> USE DEF server, probe
<1>1. CASE UNCHANGED vars
  BY <1>1 DEF Silent, vars
<1>2. CASE pc \notin {"db", "done", "raised"} /\ (Environment \/ Reader)
  BY <1>2 DEF Silent, Environment, Reader, Connect, Disconnect, WriteStatus, Capture,
              PrintNoise, TcpdumpFails, Read, ReaderEnds, ReaderFails
<1>3. CASE CheckPrivileges \/ CheckTcpdump \/ CheckInterface \/ CheckNoStatus
  BY <1>3, SaidKept DEF Silent, Goto, CheckPrivileges, CheckTcpdump, CheckInterface, CheckNoStatus
<1>4. ASSUME NEW routes \in SUBSET Leases, CheckStatus(routes)
      PROVE  Silent'
  BY <1>4, SaidKept DEF Silent, Goto, CheckStatus
<1>5. CASE SkipProbe \/ StartProbe \/ StartFails \/ StopProbe \/ Joined
  BY <1>5, SaidKept DEF Silent, Goto, Quiet, SkipProbe, StartProbe, StartFails, StopProbe, Joined
<1>6. CASE ProbeFailed \/ ProbeSaw \/ MapSample \/ CheckDb \/ DbRaises
  BY <1>6, SaidKept
     DEF Silent, Goto, Quiet, ProbeFailed, ProbeSaw, MapSample, CheckDb, DbRaises
<1>7. CASE ProbeSilent
  <2>1. pc = "counting" /\ packets = {} /\ UNCHANGED <<captured, cut, reader>>
    BY <1>7 DEF ProbeSilent, Goto
  <2>2. ~cut /\ reader # "failed" => captured = {}
    <3> SUFFICES ASSUME ~cut, reader # "failed"
                 PROVE  captured = {}
      OBVIOUS
    <3>1. Len(stdout) = 0
      BY <2>1 DEF SampleInv, Stopped
    <3>2. Wire = {}
      BY <2>1, <3>1 DEF SampleInv, NoneLost, Waiting
    <3>3. QED  BY <3>2 DEF Wire
  <2>3. QED  BY <1>7, <2>1, <2>2 DEF Silent, ProbeSilent, Goto
<1>8. QED
  BY <1>1, <1>2, <1>3, <1>4, <1>5, <1>6, <1>7, EnvironmentEnds DEF Next, run_doctor, Probe

(* "0 packets seen" is the truth about the interface, unless the reader    *)
(* was still running when the doctor counted, or had failed.               *)
THEOREM SilenceIsTrue == Spec => []SilenceTrue
<1>1. Init => Silent
  BY DEF Init, Silent
<1>2. Silent => SilenceTrue
  BY DEF Silent, SilenceTrue
<1>3. QED  BY <1>1, <1>2, SilentStep, SampleHolds, PTL DEF Spec
-----------------------------------------------------------------------------
(* What the worst line so far says of the checks that were made.           *)

Verdict ==
    /\ pc # "privileges" /\ worst = "OK" => site.root
    /\ pc \notin {"privileges", "tcpdump"} /\ worst # "FAIL" => site.tcpdump
    /\ pc \notin {"privileges", "tcpdump", "interface"} =>
           /\ worst = "OK" => site.interface = "listed"
           /\ worst # "FAIL" => site.interface # "missing"
    /\ ~ToRead /\ worst # "FAIL" => site.status # "unreadable"
    /\ pc \in {"db", "done"} /\ worst = "OK" => \E p \in Wire : Maps(p)
    /\ pc = "done" =>
           /\ worst = "OK" => site.db = "filled"
           /\ worst # "FAIL" => site.db # "bad"

(* A misread address is nobody's.                                          *)
LEMMA HostMapped ==
    ASSUME NEW a \in Addresses, snap = NoFile \/ snap \subseteq Leases, Host(a) \in snap
    PROVE  a \in snap
<1>1. CASE ~Tailed(a)
  BY <1>1 DEF Host
<1>2. CASE Tailed(a)
  <2>1. Len(Host(a)) = 3
    BY <1>2 DEF Host, Tailed, IsIPv6
  <2>2. snap = NoFile => Len(Host(a)) = 0
    BY DEF NoFile
  <2>3. snap \subseteq Leases => Len(Host(a)) # 3
    <3>1. Leases \subseteq Addresses
      BY DEF Addresses
    <3>2. \A b \in Addresses : Len(b) \in {1, 4}
      BY AddressesAssumption DEF IsIPv4, IsIPv6
    <3>3. QED  BY <3>1, <3>2
  <2>4. QED  BY <2>1, <2>2, <2>3
<1>3. QED  BY <1>1, <1>2

LEMMA ReadMapped ==
    ASSUME TypeOK, NEW p \in Packets, Maps(AsRead(p))
    PROVE  Maps(p)
<1>1. p.src \in Addresses /\ p.dst \in Addresses
  BY DEF Packets
<1>2. AsRead(p).src \in {p.src, Host(p.src)} /\ AsRead(p).dst \in {p.dst, Host(p.dst)}
  BY DEF AsRead, Packets
<1>3. QED  BY <1>1, <1>2, HostMapped DEF Maps, TypeOK

LEMMA VerdictStep == SampleInv /\ Verdict /\ [Next]_vars => Verdict'
<1> SUFFICES ASSUME SampleInv, Verdict, [Next]_vars
             PROVE  Verdict'
  OBVIOUS
<1> USE DEF server, probe
<1>0. TypeOK /\ worst \in Levels /\ packets \subseteq Sampled
  BY DEF SampleInv, TypeOK
<1>1. CASE UNCHANGED vars
  BY <1>1 DEF Verdict, ToRead, Wire, Maps, vars
<1>2. CASE pc \notin {"db", "done", "raised"} /\ (Environment \/ Reader)
  BY <1>2 DEF Verdict, ToRead, Environment, Reader, Connect, Disconnect, WriteStatus, Capture,
              PrintNoise, TcpdumpFails, Read, ReaderEnds, ReaderFails
<1>3. CASE CheckPrivileges
  BY <1>0, <1>3, WorstKept DEF Verdict, ToRead, CheckPrivileges, Goto, Levels
<1>4. CASE CheckTcpdump
  BY <1>0, <1>4, WorstKept DEF Verdict, ToRead, CheckTcpdump, Goto, Levels
<1>5. CASE CheckInterface
  BY <1>0, <1>5, WorstKept DEF Verdict, ToRead, CheckInterface, Goto, Levels
<1>6. CASE CheckNoStatus
  BY <1>0, <1>6, WorstKept DEF Verdict, ToRead, CheckNoStatus, Goto, Levels
<1>7. ASSUME NEW routes \in SUBSET Leases, CheckStatus(routes)
      PROVE  Verdict'
  BY <1>0, <1>7, WorstKept DEF Verdict, ToRead, CheckStatus, Goto, Levels
<1>8. CASE SkipProbe
  BY <1>0, <1>8, WorstKept DEF Verdict, ToRead, SkipProbe, Goto, Levels
<1>9. CASE StartProbe
  BY <1>0, <1>9, WorstKept DEF Verdict, ToRead, StartProbe, Goto, Levels
<1>10. CASE StartFails
  BY <1>0, <1>10, WorstKept DEF Verdict, ToRead, StartFails, Goto, Levels
<1>11. CASE StopProbe \/ Joined \/ ProbeSaw
  BY <1>11 DEF Verdict, ToRead, StopProbe, Joined, ProbeSaw, Goto, Quiet
<1>12. CASE ProbeFailed
  BY <1>0, <1>12, WorstKept DEF Verdict, ToRead, ProbeFailed, Goto, Levels
<1>13. CASE ProbeSilent
  BY <1>0, <1>13, WorstKept DEF Verdict, ToRead, ProbeSilent, Goto, Levels
<1>14. CASE MapSample
  <2>1. worst' = "OK" => worst = "OK" /\ \E p \in packets : Maps(p)
    BY <1>0, <1>14, WorstKept DEF MapSample, Levels
  <2>2. worst' # "FAIL" => worst # "FAIL"
    BY <1>0, <1>14, WorstKept DEF MapSample, Levels
  <2>3. UNCHANGED <<site, captured, snap>> /\ Wire' = Wire
    BY <1>14 DEF MapSample, Wire
  <2>4. \A p : Maps(p)' = Maps(p)
    BY <2>3 DEF Maps
  <2>5. worst' = "OK" => \E p \in Wire' : Maps(p)'
    <3> SUFFICES ASSUME worst' = "OK"
                 PROVE  \E p \in Wire : Maps(p)
      BY <2>3, <2>4
    <3>1. PICK p \in Wire : Maps(AsRead(p))
      BY <1>0, <2>1 DEF Sampled
    <3>2. p \in Packets
      BY <1>0, WireTyped
    <3>3. QED  BY <1>0, <3>1, <3>2, ReadMapped
  <2>6. pc = "mapping" /\ pc' = "db"
    BY <1>14 DEF MapSample, Goto
  <2>7. QED  BY <2>1, <2>2, <2>3, <2>5, <2>6 DEF Verdict, ToRead
<1>15. CASE CheckDb
  <2>1. /\ worst' = "OK" => worst = "OK" /\ site.db = "filled"
        /\ worst' # "FAIL" => worst # "FAIL" /\ site.db # "bad"
    BY <1>0, <1>15, WorstKept DEF CheckDb, Levels
  <2>2. UNCHANGED <<site, captured, snap>> /\ Wire' = Wire
    BY <1>15 DEF CheckDb, Wire
  <2>3. \A p : Maps(p)' = Maps(p)
    BY <2>2 DEF Maps
  <2>4. pc = "db" /\ pc' = "done"
    BY <1>15 DEF CheckDb, Goto
  <2>5. QED  BY <2>1, <2>2, <2>3, <2>4 DEF Verdict, ToRead
<1>16. CASE DbRaises
  BY <1>16 DEF Verdict, ToRead, DbRaises, Goto, Quiet
<1>17. QED
  BY <1>1, <1>2, <1>3, <1>4, <1>5, <1>6, <1>7, <1>8, <1>9, <1>10, <1>11, <1>12, <1>13,
     <1>14, <1>15, <1>16, EnvironmentEnds
     DEF Next, run_doctor, Probe

(* "everything checks out" means what it says: root, tcpdump, interface,   *)
(* status file, a packet that maps, records; and an exit code of 0 that    *)
(* nothing the collector cannot do without is missing.                     *)
THEOREM AllClearIsTrue == Spec => []AllClear
<1>1. Init => Verdict
  BY DEF Init, Verdict, ToRead
<1>2. Verdict => AllClear
  <2> SUFFICES ASSUME Verdict, pc = "done"
               PROVE  AllClear
    BY DEF AllClear
  <2>1. worst = "OK" => \E c \in captured : {c.packet.src, c.packet.dst} \cap snap # {}
    <3> SUFFICES ASSUME worst = "OK"
                 PROVE  \E c \in captured : {c.packet.src, c.packet.dst} \cap snap # {}
      OBVIOUS
    <3>1. PICK c \in captured : Maps(c.packet)
      BY DEF Verdict, Wire
    <3>2. QED  BY <3>1 DEF Maps
  <2>2. QED  BY <2>1 DEF Verdict, AllClear, Code, ToRead
<1>3. QED  BY <1>1, <1>2, VerdictStep, SampleHolds, PTL DEF Spec
-----------------------------------------------------------------------------
(* What a FAIL says.                                                       *)

(* A client that is steady is in the file, and in what was read of it.     *)
SteadyInFile ==
    /\ site.status = "right" => steady \subseteq file
    /\ whole => ~ToRead /\ snap = file
    /\ site.status = "right" /\ whole =>
           \A c \in captured : c.steady => Maps(c.packet)

LEMMA SteadyStep == SampleInv /\ SteadyInFile /\ [Next]_vars => SteadyInFile'
<1> SUFFICES ASSUME SampleInv, SteadyInFile, [Next]_vars
             PROVE  SteadyInFile'
  OBVIOUS
<1> USE DEF server, probe
<1>1. CASE UNCHANGED vars
  BY <1>1 DEF SteadyInFile, ToRead, Maps, vars
<1>2. ASSUME NEW a \in Leases, Connect(a) \/ Disconnect(a)
      PROVE  SteadyInFile'
  BY <1>2 DEF SteadyInFile, ToRead, Maps, Connect, Disconnect
<1>3. CASE WriteStatus
  BY <1>3 DEF SteadyInFile, ToRead, Maps, WriteStatus
<1>4. ASSUME NEW p \in Traffic, Capture(p)
      PROVE  SteadyInFile'
  <2> DEFINE c == [packet |-> p, steady |-> {p.src, p.dst} \cap steady # {}]
  <2>1. captured' = captured \cup {c} /\ UNCHANGED <<site, server, snap, whole, pc>>
    BY <1>4 DEF Capture
  <2>2. site.status = "right" /\ whole /\ c.steady => Maps(c.packet)
    BY DEF SteadyInFile, Maps
  <2> HIDE DEF c
  <2>3. \A q : Maps(q)' = Maps(q)
    BY <2>1 DEF Maps
  <2>4. QED  BY <2>1, <2>2, <2>3 DEF SteadyInFile, ToRead
<1>5. CASE PrintNoise \/ TcpdumpFails \/ Read \/ ReaderEnds \/ ReaderFails
  BY <1>5 DEF SteadyInFile, ToRead, Maps, PrintNoise, TcpdumpFails, Read, ReaderEnds, ReaderFails
<1>6. CASE CheckPrivileges \/ CheckTcpdump \/ CheckInterface \/ CheckNoStatus
  BY <1>6 DEF SteadyInFile, ToRead, Maps, Goto,
              CheckPrivileges, CheckTcpdump, CheckInterface, CheckNoStatus
<1>7. ASSUME NEW routes \in SUBSET Leases, CheckStatus(routes)
      PROVE  SteadyInFile'
  <2>1. pc = "status" /\ pc' = "probe" /\ captured = {} /\ captured' = {}
    BY <1>7 DEF CheckStatus, Goto, SampleInv, Idle, ToProbeYet, ToRead
  <2>2. snap' = routes /\ (whole' => routes = file) /\ UNCHANGED <<site, file, steady>>
    BY <1>7 DEF CheckStatus
  <2>3. QED  BY <2>1, <2>2 DEF SteadyInFile, ToRead
<1>8. CASE SkipProbe \/ StartProbe \/ StartFails \/ StopProbe \/ Joined
  BY <1>8 DEF SteadyInFile, ToRead, Maps, Goto,
              SkipProbe, StartProbe, StartFails, StopProbe, Joined
<1>9. CASE ProbeFailed \/ ProbeSilent \/ ProbeSaw \/ MapSample \/ CheckDb \/ DbRaises
  BY <1>9 DEF SteadyInFile, ToRead, Maps, Goto,
              ProbeFailed, ProbeSilent, ProbeSaw, MapSample, CheckDb, DbRaises
<1>10. QED
  BY <1>1, <1>2, <1>3, <1>4, <1>5, <1>6, <1>7, <1>8, <1>9
     DEF Next, Environment, Reader, run_doctor, Probe

(* Why a report has a FAIL.                                                *)
SiteFault == ~site.tcpdump \/ site.interface = "missing" \/ site.status # "right" \/ site.db = "bad"

ProbeFault == tcpdump \in {"error", "killed"}

MapFault ==
    /\ "unmapped" \in said
    /\ ~whole \/ \A c \in captured : c.packet \in packets => ~c.steady

Blamed ==
    /\ ProbeFault => ~ToProbeYet
    /\ pc \in {"counting", "mapping"} => tcpdump \in {"ok", "error", "killed"}
    /\ "unmapped" \in said => pc \in {"db", "done", "raised"}
    /\ pc \in {"sampling", "stopping"} => tcpdump # "none"
    /\ worst = "FAIL" => SiteFault \/ ProbeFault \/ MapFault

LEMMA BlamedStep == SampleInv /\ SteadyInFile /\ Blamed /\ [Next]_vars => Blamed'
<1> SUFFICES ASSUME SampleInv, SteadyInFile, Blamed, [Next]_vars
             PROVE  Blamed'
  OBVIOUS
<1> USE DEF server, probe, ToProbeYet, ToRead
<1>0. TypeOK /\ worst \in Levels
  BY DEF SampleInv, TypeOK
<1>1. CASE UNCHANGED vars
  BY <1>1 DEF Blamed, SiteFault, ProbeFault, MapFault, vars
<1>2. CASE pc \notin {"db", "done", "raised"} /\ (Environment \/ Reader)
  BY <1>2 DEF Blamed, SiteFault, ProbeFault, MapFault, Environment, Reader, Connect, Disconnect,
              WriteStatus, Capture, PrintNoise, TcpdumpFails, Read, ReaderEnds, ReaderFails,
              SampleInv, Idle
<1>3. CASE CheckPrivileges
  BY <1>0, <1>3, WorstKept DEF Blamed, SiteFault, ProbeFault, MapFault, CheckPrivileges, Goto, Levels
<1>4. CASE CheckTcpdump
  BY <1>0, <1>4, WorstKept DEF Blamed, SiteFault, ProbeFault, MapFault, CheckTcpdump, Goto, Levels
<1>5. CASE CheckInterface
  BY <1>0, <1>5, WorstKept DEF Blamed, SiteFault, ProbeFault, MapFault, CheckInterface, Goto, Levels
<1>6. CASE CheckNoStatus
  BY <1>0, <1>6, WorstKept DEF Blamed, SiteFault, ProbeFault, MapFault, CheckNoStatus, Goto, Levels
<1>7. ASSUME NEW routes \in SUBSET Leases, CheckStatus(routes)
      PROVE  Blamed'
  BY <1>0, <1>7, WorstKept DEF Blamed, SiteFault, ProbeFault, MapFault, CheckStatus, Goto, Levels
<1>8. CASE SkipProbe
  BY <1>0, <1>8, WorstKept DEF Blamed, SiteFault, ProbeFault, MapFault, SkipProbe, Goto, Levels
<1>9. CASE StartProbe
  BY <1>0, <1>9, WorstKept DEF Blamed, SiteFault, ProbeFault, MapFault, StartProbe, Goto, Levels
<1>10. CASE StartFails
  BY <1>0, <1>10, WorstKept DEF Blamed, SiteFault, ProbeFault, MapFault, StartFails, Goto, Levels
<1>11. CASE StopProbe
  BY <1>0, <1>11 DEF Blamed, SiteFault, ProbeFault, MapFault, StopProbe, Goto, Quiet
<1>12. CASE Joined
  <2>1. tcpdump' \in {"ok", "error", "killed"}
    BY <1>0, <1>12 DEF SampleInv, Stopped, Blamed, Joined, Goto, TypeOK
  <2>2. QED  BY <1>12, <2>1 DEF Blamed, SiteFault, ProbeFault, MapFault, Joined, Goto, Quiet
<1>13. CASE ProbeSaw
  BY <1>13 DEF Blamed, SiteFault, ProbeFault, MapFault, ProbeSaw, Goto, Quiet
<1>14. CASE ProbeFailed
  BY <1>0, <1>14, WorstKept DEF Blamed, SiteFault, ProbeFault, MapFault, ProbeFailed, Goto, Levels
<1>15. CASE ProbeSilent
  BY <1>0, <1>15, WorstKept DEF Blamed, SiteFault, ProbeFault, MapFault, ProbeSilent, Goto, Levels
<1>16. CASE MapSample
  <2>1. UNCHANGED <<site, tcpdump, captured, packets, snap, whole>> /\ pc = "mapping" /\ pc' = "db"
    BY <1>16 DEF MapSample, Goto
  <2>2. CASE \E p \in packets : Maps(p)
    <3>1. worst' = "FAIL" => worst = "FAIL"
      BY <1>0, <1>16, <2>2, WorstKept DEF MapSample, Levels
    <3>2. "unmapped" \notin said
      BY <2>1 DEF Blamed
    <3>3. said' = said \cup {"mapped"}
      BY <1>16, <2>2 DEF MapSample, Line
    <3>4. QED  BY <2>1, <3>1, <3>2, <3>3 DEF Blamed, SiteFault, ProbeFault, MapFault
  <2>3. CASE ~\E p \in packets : Maps(p)
    <3>1. "unmapped" \in said'
      BY <1>16, <2>3 DEF MapSample, Line
    <3>2. SiteFault' \/ MapFault'
      BY <2>1, <2>3, <3>1 DEF SteadyInFile, SiteFault, MapFault
    <3>3. QED  BY <2>1, <3>2 DEF Blamed, ProbeFault
  <2>4. QED  BY <2>2, <2>3
<1>17. CASE CheckDb
  BY <1>0, <1>17, WorstKept DEF Blamed, SiteFault, ProbeFault, MapFault, CheckDb, Goto, Levels
<1>18. CASE DbRaises
  BY <1>18 DEF Blamed, SiteFault, ProbeFault, MapFault, DbRaises, Goto, Quiet
<1>19. QED
  BY <1>1, <1>2, <1>3, <1>4, <1>5, <1>6, <1>7, <1>8, <1>9, <1>10, <1>11, <1>12, <1>13,
     <1>14, <1>15, <1>16, <1>17, <1>18, EnvironmentEnds
     DEF Next, run_doctor, Probe

(* The doctor blames nobody wrongly: an exit code of 1 has a cause, and    *)
(* "NONE mapped" is not said over a file that is right and was read whole  *)
(* when the sample holds, as it was, a packet of a client that was in it   *)
(* all along.                                                              *)
THEOREM AlarmsAreTrue == Spec => []NoFalseAlarm
<1>1. Init => SteadyInFile
  BY DEF Init, SteadyInFile
<1>2. Init => Blamed
  BY DEF Init, Blamed, ProbeFault, ToProbeYet, ToRead
<1>3. Blamed => NoFalseAlarm
  BY DEF Blamed, NoFalseAlarm, SiteFault, ProbeFault, MapFault, Code
<1>4. QED  BY <1>1, <1>2, <1>3, SteadyStep, BlamedStep, SampleHolds, PTL DEF Spec
=============================================================================
