------------------------------- MODULE Doctor -------------------------------
(***************************************************************************)
(* `openvpn-metrics doctor`: its checks, one after the other, while the    *)
(* server, the collector and the traffic go on; the probe that samples the *)
(* interface with a tcpdump and a reader thread of its own; and the parser *)
(* of tcpdump's lines.                                                     *)
(*                                                                         *)
(* An address is the sequence of its dotted fields, as tcpdump prints it:  *)
(* four numbers for IPv4; for IPv6 one field that is no number, written as *)
(* a negative one, which three numbers follow if the address embeds an     *)
(* IPv4 address (::ffff:10.8.0.6).  Timestamps are left out, and the       *)
(* sample is a set: the doctor asks only whether it is empty and whom it   *)
(* maps to.                                                                *)
(***************************************************************************)
EXTENDS Integers, FiniteSets, Sequences

CONSTANTS
    Leases,         \* addresses the server may give to clients
    Others,         \* addresses on the other side
    Ports,
    Lengths,
    Traffic,        \* packets that may pass the interface
    MaxPackets,     \* bound: packets captured
    MaxLines        \* bound: lines in tcpdump's pipe

IsIPv4(a) == a \in Seq(Nat) /\ Len(a) = 4
IsIPv6(a) ==
    /\ a \in Seq(Int)
    /\ Len(a) \in {1, 4}
    /\ a[1] < 0
    /\ \A i \in 2 .. Len(a) : a[i] >= 0

Addresses == Leases \cup Others

ASSUME AddressesAssumption == \A a \in Addresses : IsIPv4(a) \/ IsIPv6(a)

ASSUME NumbersAssumption ==
    /\ Ports \subseteq Nat
    /\ Lengths \subseteq Nat
    /\ MaxPackets \in Nat
    /\ MaxLines \in Nat

VARIABLES
    site,       \* what it finds; a file that is not there is as good as
                \* unreadable, a database as good as empty, and a damaged one
               \* can be opened and not be asked for its summary
    leased,     \* addresses connected clients have
    file,       \* addresses in the status file's routing table
    steady,     \* leased without a break since the server wrote the file
    tcpdump,    \* the probe's process: "none", "running" or how it ended
    captured,   \* the packets it printed, and whether an end was steady then
    stdout,     \* lines in its pipe
    reader,     \* the reader thread
    packets,    \* what the reader has appended
    cut,        \* the reader was still running when the doctor went on
    snap,       \* the routes of the status file; NoFile for None
    whole,      \* the file was read in one piece
    said,       \* the titles of the lines the report has
    worst,      \* Report.worst
    pc          \* the doctor's next step

server == <<leased, file, steady>>
probe  == <<tcpdump, captured, stdout, reader, packets, cut>>
vars   == <<site, server, probe, snap, whole, said, worst, pc>>

Levels == {"OK", "WARN", "FAIL"}
NoFile == {<<>>}

Sites == [root : BOOLEAN, tcpdump : BOOLEAN,
          interface : {"listed", "unlisted", "missing"},
          status : {"right", "other", "unreadable"},
          db : {"bad", "damaged", "empty", "filled"}]

-----------------------------------------------------------------------------
(* tcpdump's lines.                                                        *)

Packets ==
    {p \in [src : Addresses, dst : Addresses, proto : {"tcp", "udp", "icmp"},
            sport : Ports \cup {0}, dport : Ports \cup {0}, length : Lengths] :
        /\ p.src # p.dst
        /\ IsIPv4(p.src) = IsIPv4(p.dst)
        /\ p.proto = "icmp" => p.sport = 0 /\ p.dport = 0}

ASSUME TrafficAssumption == Traffic \subseteq Packets

None  == -1
Noise == [family |-> "ARP"]

(* How tcpdump -n -q prints a packet: addr.port where there are ports; the *)
(* first word after the colon, the second if it is a number, and the       *)
(* number after "length".                                                  *)
Token(p, address, port) == IF p.proto = "icmp" THEN address ELSE Append(address, port)

Printed(p) ==
    [family |-> IF IsIPv4(p.src) THEN "IP" ELSE "IP6",
     src    |-> Token(p, p.src, p.sport),
     dst    |-> Token(p, p.dst, p.dport),
     word   |-> IF p.proto = "icmp" /\ ~IsIPv4(p.src) THEN "icmp6" ELSE p.proto,
     second |-> IF p.proto = "tcp" THEN p.length ELSE None,
     length |-> IF p.proto = "tcp" THEN None ELSE p.length]

Lines == {Noise} \cup {Printed(p) : p \in Packets}

(* Mutant: whatever follows the last dot is a port.                        *)
SplitAlways(fields, is_ipv6) ==
    LET n == Len(fields) IN
    IF n > 1 /\ fields[n] >= 0
    THEN [host |-> SubSeq(fields, 1, n - 1), port |-> fields[n]]
    ELSE [host |-> fields, port |-> 0]

(* _split_host_port: with IPv4, a number is a port behind three dots only. *)
Split(fields, is_ipv6) ==
    LET n == Len(fields) IN
    IF n > 1 /\ fields[n] >= 0 /\ (is_ipv6 \/ n = 5)
    THEN [host |-> SubSeq(fields, 1, n - 1), port |-> fields[n]]
    ELSE [host |-> fields, port |-> 0]

Number(n) == IF n = None THEN 0 ELSE n

Proto(word) == IF word \in {"icmp", "icmp6"} THEN "icmp" ELSE word

(* parse_line, of a line that is one of a packet.                          *)
Parsed(line) ==
    LET is_ipv6 == line.family = "IP6"
        src     == Split(line.src, is_ipv6)
        dst     == Split(line.dst, is_ipv6)
    IN  [src |-> src.host, sport |-> src.port, dst |-> dst.host, dport |-> dst.port,
         proto |-> Proto(line.word),
         length |-> Number(IF Proto(line.word) = "tcp" THEN line.second ELSE line.length)]

(* What is read of a packet: the packet, but for an IPv6 address with a    *)
(* dotted tail where no port follows it; its last field is taken for one.  *)
Tailed(a) == IsIPv6(a) /\ Len(a) = 4
Host(a)   == IF Tailed(a) THEN SubSeq(a, 1, 3) ELSE a
Port(a)   == IF Tailed(a) THEN a[4] ELSE 0

AsRead(p) ==
    IF p.proto # "icmp" THEN p
    ELSE [p EXCEPT !.src = Host(p.src), !.sport = Port(p.src),
                   !.dst = Host(p.dst), !.dport = Port(p.dst)]

AppendParsed(line) ==
    packets' = packets \cup (IF line = Noise THEN {} ELSE {Parsed(line)})
-----------------------------------------------------------------------------
TypeOK ==
    /\ site \in Sites
    /\ leased \subseteq Leases
    /\ file \subseteq Leases
    /\ steady \subseteq leased
    /\ tcpdump \in {"none", "running", "ok", "killed", "error"}
    /\ captured \subseteq [packet : Packets, steady : BOOLEAN]
    /\ stdout \in Seq(Lines)
    /\ reader \in {"none", "running", "done", "failed"}
    /\ packets \subseteq {AsRead(p) : p \in Packets}
    /\ cut \in BOOLEAN
    /\ snap = NoFile \/ snap \subseteq Leases
    /\ whole \in BOOLEAN
    /\ worst \in Levels
    /\ pc \in {"privileges", "tcpdump", "interface", "status", "probe", "sampling",
               "stopping", "counting", "mapping", "db", "done", "raised"}

Init ==
    /\ site \in Sites
    /\ leased = {}
    /\ file \in SUBSET Leases
    /\ site.status # "other" => file = {}
    /\ steady = {}
    /\ tcpdump = "none"
    /\ captured = {}
    /\ stdout = <<>>
    /\ reader = "none"
    /\ packets = {}
    /\ cut = FALSE
    /\ snap = NoFile
    /\ whole = FALSE
    /\ said = {}
    /\ worst = "OK"
    /\ pc = "privileges"

(* The server, and the clients.  Who connects, and what it writes, makes   *)
(* no difference after the doctor has read the file, or if it is the file  *)
(* of another server that it reads.                                        *)

ToRead == pc \in {"privileges", "tcpdump", "interface", "status"}

Connect(a) ==
    /\ ToRead
    /\ site.status = "right"
    /\ a \notin leased
    /\ leased' = leased \cup {a}
    /\ UNCHANGED <<site, file, steady, probe, snap, whole, said, worst, pc>>

Disconnect(a) ==
    /\ a \in leased
    /\ leased' = leased \ {a}
    /\ steady' = steady \ {a}
    /\ UNCHANGED <<site, file, probe, snap, whole, said, worst, pc>>

WriteStatus ==
    /\ ToRead
    /\ site.status = "right"
    /\ file' = leased
    /\ steady' = leased
    /\ UNCHANGED <<site, leased, probe, snap, whole, said, worst, pc>>

-----------------------------------------------------------------------------
(* tcpdump and the reader thread.                                          *)

Capture(p) ==
    /\ tcpdump = "running"
    /\ Cardinality(captured) < MaxPackets
    /\ Len(stdout) < MaxLines
    /\ captured' = captured \cup {[packet |-> p, steady |-> {p.src, p.dst} \cap steady # {}]}
    /\ stdout' = Append(stdout, Printed(p))
    /\ UNCHANGED <<site, server, tcpdump, reader, packets, cut, snap, whole, said, worst, pc>>

(* A line that is not of an IP packet, as tap devices have them.           *)
PrintNoise ==
    /\ tcpdump = "running"
    /\ Len(stdout) < MaxLines
    /\ stdout' = Append(stdout, Noise)
    /\ UNCHANGED <<site, server, tcpdump, captured, reader, packets, cut, snap, whole, said, worst, pc>>

(* The interface goes away, or tcpdump may not open it.                    *)
TcpdumpFails ==
    /\ tcpdump = "running"
    /\ tcpdump' = "error"
    /\ UNCHANGED <<site, server, captured, stdout, reader, packets, cut, snap, whole, said, worst, pc>>

Read ==
    /\ reader = "running"
    /\ stdout # <<>>
    /\ AppendParsed(Head(stdout))
    /\ stdout' = Tail(stdout)
    /\ UNCHANGED <<site, server, tcpdump, captured, reader, cut, snap, whole, said, worst, pc>>

(* End of file.                                                            *)
ReaderEnds ==
    /\ reader = "running"
    /\ stdout = <<>>
    /\ tcpdump # "running"
    /\ reader' = "done"
    /\ UNCHANGED <<site, server, tcpdump, captured, stdout, packets, cut, snap, whole, said, worst, pc>>

(* except (ValueError, OSError): pass.  Output that cannot be decoded, or  *)
(* a read that fails, ends the reader and nobody learns of it; what is     *)
(* left in the pipe stays there.                                           *)
ReaderFails ==
    /\ reader = "running"
    /\ reader' = "failed"
    /\ UNCHANGED <<site, server, tcpdump, captured, stdout, packets, cut, snap, whole, said, worst, pc>>

-----------------------------------------------------------------------------
(* The doctor.                                                             *)

Order == [OK |-> 0, WARN |-> 1, FAIL |-> 2]

(* Mutant: the last line is taken for the worst.                           *)
LineLast(level, title) ==
    /\ said' = said \cup {title}
    /\ worst' = level

(* Report.line.                                                            *)
Line(level, title) ==
    /\ said' = said \cup {title}
    /\ worst' = IF Order[level] > Order[worst] THEN level ELSE worst

Quiet == UNCHANGED <<said, worst>>

Goto(from, to) == pc = from /\ pc' = to

CheckPrivileges ==
    /\ Goto("privileges", "tcpdump")
    /\ IF site.root THEN Line("OK", "root") ELSE Line("WARN", "unprivileged")
    /\ UNCHANGED <<site, server, probe, snap, whole>>

CheckTcpdump ==
    /\ Goto("tcpdump", "interface")
    /\ IF site.tcpdump THEN Line("OK", "tcpdump") ELSE Line("FAIL", "no_tcpdump")
    /\ UNCHANGED <<site, server, probe, snap, whole>>

(* "unlisted": /sys/class/net cannot be enumerated.                        *)
CheckInterface ==
    /\ Goto("interface", "status")
    /\ \/ site.interface = "listed" /\ Line("OK", "interface")
       \/ site.interface = "unlisted" /\ Line("WARN", "interfaces")
       \/ site.interface = "missing" /\ Line("FAIL", "no_interface")
    /\ UNCHANGED <<site, server, probe, snap, whole>>

CheckNoStatus ==
    /\ Goto("status", "probe")
    /\ site.status = "unreadable"
    /\ Line("FAIL", "no_status")
    /\ UNCHANGED <<site, server, probe, snap, whole>>

(* The file as it is, or, while the server rewrites it, some of its old    *)
(* and new entries.                                                        *)
CheckStatus(routes) ==
    /\ Goto("status", "probe")
    /\ site.status \in {"right", "other"}
    /\ routes \subseteq file \cup (IF site.status = "right" THEN leased ELSE {})
    /\ snap' = routes
    /\ whole' = (routes = file)
    /\ IF routes = {} THEN Line("WARN", "no_routes") ELSE Line("OK", "routes")
    /\ UNCHANGED <<site, server, probe>>

ToProbe == site.tcpdump /\ site.interface # "missing"

SkipProbe ==
    /\ Goto("probe", "db")
    /\ ~ToProbe
    /\ Line("WARN", "skipped")
    /\ UNCHANGED <<site, server, probe, snap, whole>>

StartProbe ==
    /\ Goto("probe", "sampling")
    /\ ToProbe
    /\ tcpdump' = "running"
    /\ reader' = "running"
    /\ Line("OK", "sampling")
    /\ UNCHANGED <<site, server, captured, stdout, packets, cut, snap, whole>>

(* start raises; the error ends up in the report.                          *)
StartFails ==
    /\ Goto("probe", "db")
    /\ ToProbe
    /\ tcpdump' = "error"
    /\ Line("FAIL", "not_run")
    /\ UNCHANGED <<site, server, captured, stdout, reader, packets, cut, snap, whole>>

(* thread.join(seconds) is over, the reader ended or not; stop terminates  *)
(* a tcpdump that still runs, and kills it if it is not gone after five    *)
(* seconds.                                                                *)
StopProbe ==
    /\ Goto("sampling", "stopping")
    /\ tcpdump' \in IF tcpdump = "running" THEN {"ok", "killed"} ELSE {tcpdump}
    /\ Quiet
    /\ UNCHANGED <<site, server, captured, stdout, reader, packets, cut, snap, whole>>

(* Mutant: join() without a timeout.                                       *)
JoinReader ==
    /\ reader # "running"
    /\ UNCHANGED cut

(* Mutant: no second join at all.                                          *)
JoinNothing == UNCHANGED cut

(* thread.join(2).                                                         *)
Join == cut' = (reader = "running")

Joined ==
    /\ Goto("stopping", "counting")
    /\ Join
    /\ Quiet
    /\ UNCHANGED <<site, server, tcpdump, captured, stdout, reader, packets, snap, whole>>

ProbeFailed ==
    /\ Goto("counting", "db")
    /\ tcpdump # "ok" /\ packets = {}
    /\ Line("FAIL", "exit_status")
    /\ UNCHANGED <<site, server, probe, snap, whole>>

ProbeSilent ==
    /\ Goto("counting", "db")
    /\ tcpdump = "ok" /\ packets = {}
    /\ Line("WARN", "silence")
    /\ UNCHANGED <<site, server, probe, snap, whole>>

ProbeSaw ==
    /\ Goto("counting", "mapping")
    /\ packets # {}
    /\ Quiet
    /\ UNCHANGED <<site, server, probe, snap, whole>>

(* Mutant: only what clients send is mapped.                               *)
MapsSource(p) == p.src \in snap

(* Nothing is in NoFile.                                                   *)
Maps(p) == p.src \in snap \/ p.dst \in snap

(* A reader that was cut may still append.                                 *)
MapSample ==
    /\ Goto("mapping", "db")
    /\ IF \E p \in packets : Maps(p)
       THEN Line("OK", "mapped")
       ELSE Line("FAIL", "unmapped")
    /\ UNCHANGED <<site, server, probe, snap, whole>>

(* Opening creates the file, with all its tables, if there is none.        *)
CheckDb ==
    /\ Goto("db", "done")
    /\ \/ site.db = "bad" /\ Line("FAIL", "not_opened")
       \/ site.db = "empty" /\ Line("WARN", "no_records")
       \/ site.db = "filled" /\ Line("OK", "records")
    /\ UNCHANGED <<site, server, probe, snap, whole>>

(* summary raises, and nothing catches it: the doctor ends with a          *)
(* traceback and no result.                                                *)
DbRaises ==
    /\ Goto("db", "raised")
    /\ site.db = "damaged"
    /\ Quiet
    /\ UNCHANGED <<site, server, probe, snap, whole>>

(* run_doctor's exit code.                                                 *)
Code == IF worst = "FAIL" THEN 1 ELSE 0

-----------------------------------------------------------------------------
Environment ==
    \/ \E a \in Leases : Connect(a) \/ Disconnect(a)
    \/ WriteStatus
    \/ \E p \in Traffic : Capture(p)
    \/ PrintNoise
    \/ TcpdumpFails

Reader == Read \/ ReaderEnds \/ ReaderFails

Probe ==
    \/ SkipProbe \/ StartProbe \/ StartFails
    \/ StopProbe \/ Joined
    \/ ProbeFailed \/ ProbeSilent \/ ProbeSaw \/ MapSample

run_doctor ==
    \/ CheckPrivileges
    \/ CheckTcpdump
    \/ CheckInterface
    \/ CheckNoStatus
    \/ \E routes \in SUBSET Leases : CheckStatus(routes)
    \/ Probe
    \/ CheckDb \/ DbRaises

(* Once tcpdump has ended, nothing looks at server and clients any more;   *)
(* after the probe nothing looks at the sample.                            *)
Next ==
    \/ (ToRead \/ pc = "probe" \/ tcpdump = "running") /\ Environment
    \/ pc \notin {"db", "done", "raised"} /\ Reader
    \/ run_doctor

Spec == Init /\ [][Next]_vars

(* The main thread runs; nothing is asked of tcpdump or the reader.        *)
FairSpec == Spec /\ WF_vars(run_doctor)

-----------------------------------------------------------------------------
(* What the reader appends are packets that were captured, read as they    *)
(* were (but for the addresses AsRead names), and by the time it comes to  *)
(* the end of the output it has appended them all.                         *)
SampleTrue ==
    LET wire == {AsRead(c.packet) : c \in captured} IN
    /\ packets \subseteq wire
    /\ reader = "done" => packets = wire

(* "0 packets seen" is true, unless the reader was too slow or failed.     *)
SilenceTrue == "silence" \in said /\ ~cut /\ reader # "failed" => captured = {}

(* "everything checks out" is said only where it does: a packet with an    *)
(* end in the status file was captured and there are records.  And an exit *)
(* code of 0 speaks for tcpdump, interface, status file and database.      *)
AllClear ==
    pc = "done" =>
        /\ Code = 0 =>
              /\ site.tcpdump /\ site.interface # "missing"
              /\ site.status # "unreadable"
              /\ site.db # "bad"
        /\ worst = "OK" =>
              /\ site.root /\ site.interface = "listed"
              /\ \E c \in captured : {c.packet.src, c.packet.dst} \cap snap # {}
              /\ site.db = "filled"

(* A failure is reported only where something failed.  "NONE mapped" in    *)
(* particular means a wrong file or a torn one, or that no packet that was *)
(* read as it was is from or to a client that had been in the file since   *)
(* it was written.                                                         *)
NoFalseAlarm ==
    pc = "done" /\ Code = 1 =>
        \/ ~site.tcpdump \/ site.interface = "missing" \/ site.status # "right"
        \/ site.db = "bad"
        \/ tcpdump \in {"error", "killed"}
        \/ "unmapped" \in said /\ ~whole
        \/ "unmapped" \in said /\ \A c \in captured : c.packet \in packets => ~c.steady

(* The doctor comes to its result, or ends for a database it can open and  *)
(* not read, whatever tcpdump and the reader do.                           *)
Terminates == <>(pc \in {"done", "raised"})
=============================================================================
