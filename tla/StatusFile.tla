----------------------------- MODULE StatusFile -----------------------------
(***************************************************************************)
(* status.parse_status: what the collector makes of an OpenVPN status      *)
(* file, whole or torn.                                                    *)
(*                                                                         *)
(* The server rewrites the file while it is read.  A reader gets the       *)
(* beginning of the new file, cut anywhere, or that and an end of the old  *)
(* one, with the seam between two lines or within a line of one of them.   *)
(* (A seam within a line of each joins two rows into one that no parser    *)
(* could tell from a row; it is left out, and nothing is said of it.)      *)
(* A version 1 file is sections, where a row means what the last title     *)
(* says; in a version 2 (or 3) file every row has a tag.  A line is the    *)
(* sequence of its fields; fields nobody uses are all alike.  The parser   *)
(* takes one line a step.  (Its operators are named apart from those of    *)
(* Sessions, whose other side of the same file this is.)                   *)
(***************************************************************************)
EXTENDS Naturals, Sequences, SequencesExt

CONSTANTS
    Names,      \* common names
    Ips,        \* virtual addresses
    Gateway,    \* the client behind which there is a network
    Net,        \* that network, an address with a "/"
    Real,       \* a real address, host:port
    Other,      \* a column title, a number or a date
    Torn,       \* what is left of a field cut in the middle
    None        \* an empty or missing field

Words    == Names \cup Ips \cup {Net, Real, Other, Torn}
Titles   == {"OpenVPN CLIENT LIST", "Updated", "ROUTING TABLE", "GLOBAL STATS", "END"}
Tags     == {"TITLE", "HEADER", "CLIENT_LIST", "ROUTING_TABLE", "GLOBAL_STATS"}

(* Nobody has the name of an address, a title or a tag.                    *)
ASSUME WordsAssumption ==
    /\ IsFiniteSet(Names) /\ Gateway \in Names
    /\ Names \cap Ips = {}
    /\ {Net, Real, Other, Torn} \cap (Names \cup Ips) = {}
    /\ Net \notin {Real, Other, Torn}
    /\ None \notin Words
    /\ (Words \cup {None}) \cap (Titles \cup Tags) = {}
    /\ "absent" \notin Ips \cup {None}

VARIABLES
    old, new,   \* the clients before and after the rewrite
    tear,       \* how the file that is read is torn
    text,       \* the lines of the file that is read
    at,         \* how many of them the parser has taken
    snap,       \* the snapshot, its routes in the order they were entered
    parsed      \* parse_status has returned

parseVars == <<old, new, tear, text, at, snap, parsed>>

Absent == "absent"

(* A server's clients: absent, connected without an address, or with one   *)
(* no other client has.                                                    *)
Servers == {s \in [Names -> Ips \cup {None, Absent}] :
               \A c, d \in Names : s[c] = s[d] /\ s[c] \in Ips => c = d}

Lines(rows, row(_)) == [n \in DOMAIN rows |-> row(rows[n])]

(* The clients' rows, and the routes: <<address, client>>.                 *)
Connected(s) == SetToSeq({c \in Names : s[c] # Absent})
Routed(s) ==
    LET nets == IF s[Gateway] = Absent THEN <<>> ELSE <<<<Net, Gateway>>>>
        own(c) == <<s[c], c>> IN
    nets \o Lines(SetToSeq({c \in Names : s[c] \in Ips}), own)

Version1(s) ==
    LET client(c) == <<c, Real, Other, Other, Other>>
        route(r)  == <<r[1], r[2], Real, Other>> IN
    <<<<"OpenVPN CLIENT LIST">>, <<"Updated", Other>>, <<Other, Other, Other, Other, Other>>>>
    \o Lines(Connected(s), client)
    \o <<<<"ROUTING TABLE">>, <<Other, Other, Other, Other>>>>
    \o Lines(Routed(s), route)
    \o <<<<"GLOBAL STATS">>, <<Other, Other>>, <<"END">>>>

Version2(s) ==
    LET client(c) == <<"CLIENT_LIST", c, Real, s[c], Other>>
        route(r)  == <<"ROUTING_TABLE", r[1], r[2], Real>> IN
    <<<<"TITLE", Other>>, <<"HEADER", "CLIENT_LIST", Other, Other, Other>>>>
    \o Lines(Connected(s), client)
    \o <<<<"HEADER", "ROUTING_TABLE", Other, Other>>>>
    \o Lines(Routed(s), route)
    \o <<<<"GLOBAL_STATS", Other>>, <<"END">>>>

(* A field may be cut in the middle, before it or after it.                *)
CutEnds(line) ==
    {[SubSeq(line, 1, k) EXCEPT ![k] = w] : k \in DOMAIN line, w \in {Torn, None}}
    \cup {SubSeq(line, 1, k) : k \in DOMAIN line}
CutStarts(line) ==
    {[SubSeq(line, k, Len(line)) EXCEPT ![1] = w] : k \in DOMAIN line, w \in {Torn, None}}
    \cup {SubSeq(line, k, Len(line)) : k \in 2 .. Len(line)}

First(lines, n) == SubSeq(lines, 1, n)
Rest(lines, n)  == SubSeq(lines, n + 1, Len(lines))

(* read_status_file: <<how the file is torn, its lines>>.  Lines of the    *)
(* new file are followed by lines of the old one; or the new one ends      *)
(* within its n-th line and nothing follows; or after whole lines of the   *)
(* new one the old one goes on within its k-th.  The first lines of two    *)
(* files of a version, up to the clients, are equally long, and so the new *)
(* file does not end between lines of the old one there.  A line that lost *)
(* its beginning may look like a tagged row: "HEADER,CLIENT_LIST,..."      *)
(* without its first field.                                                *)
Mixed(before, after, fixed, n) ==
    {<<"lines", First(after, n) \o Rest(before, k)>> :
        k \in IF n < fixed THEN {n} ELSE fixed .. Len(before)}
EndsWithin(after, n) ==
    {<<"end", Append(First(after, n - 1), l)>> : l \in CutEnds(after[n])}
GoesOnWithin(before, after, n, k) ==
    {<<IF l[1] \in Tags THEN "header" ELSE "start",
       Append(First(after, n), l) \o Rest(before, k)>> : l \in CutStarts(before[k])}

Readings(before, after, fixed) ==
    {<<"none", after>>}
    \cup (UNION {Mixed(before, after, fixed, n) : n \in 0 .. Len(after)})
    \cup (UNION {EndsWithin(after, n) : n \in DOMAIN after})
    \cup (UNION {GoesOnWithin(before, after, n, k) :
                    n \in fixed .. Len(after), k \in fixed + 1 .. Len(before)})

Empty == [section |-> "", expect_header |-> FALSE,
          routes |-> [w \in Words |-> None], order |-> <<>>, clients |-> <<>>]

ParseInit ==
    /\ old \in Servers /\ new \in Servers
    /\ \E reading \in Readings(Version1(old), Version1(new), 3)
                        \cup Readings(Version2(old), Version2(new), 2) :
          /\ tear = reading[1]
          /\ text = reading[2]
    /\ snap = Empty
    /\ at = 0
    /\ parsed = FALSE

-----------------------------------------------------------------------------
(* row.get: a field a row does not have is empty.                          *)
Field(line, k) == IF k \in DOMAIN line THEN line[k] ELSE None

AddRoute(s, address, name) ==
    IF address = None \/ name = None THEN s
    ELSE [s EXCEPT !.routes[address] = name,
                   !.order = IF s.routes[address] = None THEN Append(@, address) ELSE @]

AddSession(s, name, address) ==
    [s EXCEPT !.clients = Append(@, [common_name |-> name, virtual_address |-> address])]

(* Mutant: the name is not looked at.                                      *)
TaggedNameless(s, line) ==
    AddRoute(AddSession(s, Field(line, 2), Field(line, 4)), Field(line, 4), Field(line, 2))

(* A CLIENT_LIST row is a session, and a route if it has an address.       *)
TaggedClient(s, line) ==
    IF Field(line, 2) = None THEN s
    ELSE AddRoute(AddSession(s, line[2], Field(line, 4)), Field(line, 4), line[2])

(* _parse_v23, one line: the tag alone says what it is.                    *)
Tagged(s, line) ==
    CASE line[1] = "CLIENT_LIST" -> TaggedClient(s, line)
      [] line[1] = "ROUTING_TABLE" /\ Len(line) >= 3 -> AddRoute(s, line[2], line[3])
      [] OTHER -> s

-----------------------------------------------------------------------------
(* A blank line says nothing.                                              *)
Blank(line) == line = <<None>>

(* _parse_v1: what the section titles and the line "Updated" change.       *)
SectionTitle(s, line) ==
    CASE line = <<"OpenVPN CLIENT LIST">> -> [s EXCEPT !.section = "clients", !.expect_header = FALSE]
      [] line = <<"ROUTING TABLE">> -> [s EXCEPT !.section = "routes", !.expect_header = TRUE]
      [] line = <<"GLOBAL STATS">> -> [s EXCEPT !.section = ""]
      [] OTHER -> [s EXCEPT !.expect_header = TRUE]  \* "Updated"

IsTitle(line) ==
    \/ line \in {<<"OpenVPN CLIENT LIST">>, <<"ROUTING TABLE">>, <<"GLOBAL STATS">>}
    \/ line[1] = "Updated" /\ Len(line) > 1

(* Mutants: a row may lack its end.                                        *)
AnyClientRow(s, line) == s.section = "clients" /\ Len(line) >= 4
AnyRouteRow(s, line) == s.section = "routes" /\ Len(line) >= 2

IsClientRow(s, line) == s.section = "clients" /\ Len(line) >= 5
IsRouteRow(s, line) == s.section = "routes" /\ Len(line) >= 4

(* _parse_v1, one line: a title, the column titles after one, or a row.    *)
Sectioned(s, line) ==
    CASE Blank(line) -> s
      [] IsTitle(line) -> SectionTitle(s, line)
      [] ~Blank(line) /\ ~IsTitle(line) /\ s.expect_header -> [s EXCEPT !.expect_header = FALSE]
      [] OTHER -> IF IsClientRow(s, line) THEN AddSession(s, line[1], None)
                  ELSE IF IsRouteRow(s, line) THEN AddRoute(s, line[1], line[2])
                  ELSE s

(* Mutant: a network is an address like any other.                         *)
OwnAny(s, name) == {k \in DOMAIN s.order : s.routes[s.order[k]] = name}

(* Where among the routes the addresses of a name are.                     *)
Own(s, name) == {k \in DOMAIN s.order : s.order[k] # Net /\ s.routes[s.order[k]] = name}

(* At the end, the last session of a name gets the name's first address.   *)
Backfill(s) ==
    LET last(n) == \A m \in DOMAIN s.clients :
                      m > n => s.clients[m].common_name # s.clients[n].common_name
        own(n)  == Own(s, s.clients[n].common_name) IN
    [s EXCEPT !.clients =
        [n \in DOMAIN @ |-> IF last(n) /\ own(n) # {}
                            THEN [@[n] EXCEPT !.virtual_address = s.order[Min(own(n))]]
                            ELSE @[n]]]

-----------------------------------------------------------------------------
(* parse_status looks for a line only the later versions have.             *)
HasTags(lines) ==
    \E n \in DOMAIN lines : lines[n][1] \in {"TITLE", "HEADER", "CLIENT_LIST", "ROUTING_TABLE"}

(* A turn of the loop of _parse_v23.                                       *)
ParseTagged ==
    /\ HasTags(text)
    /\ at < Len(text)
    /\ at' = at + 1
    /\ snap' = Tagged(snap, text[at + 1])
    /\ UNCHANGED <<old, new, tear, text, parsed>>

(* A turn of the loop of _parse_v1.                                        *)
ParseSectioned ==
    /\ ~HasTags(text)
    /\ at < Len(text)
    /\ at' = at + 1
    /\ snap' = Sectioned(snap, text[at + 1])
    /\ UNCHANGED <<old, new, tear, text, parsed>>

Return ==
    /\ at = Len(text)
    /\ ~parsed
    /\ snap' = IF HasTags(text) THEN snap ELSE Backfill(snap)
    /\ parsed' = TRUE
    /\ UNCHANGED <<old, new, tear, text, at>>

parse_status == ParseTagged \/ ParseSectioned \/ Return

ParseSpec == ParseInit /\ [][parse_status]_parseVars

-----------------------------------------------------------------------------
(* The session of a tagged row has a name.  (That of a section's row whose *)
(* beginning is lost may have none: _parse_v1 does not look.)              *)
ParseTypeOK ==
    /\ tear \in {"none", "lines", "end", "start", "header"}
    /\ at \in 0 .. Len(text)
    /\ parsed \in BOOLEAN
    /\ snap \in [section : {"", "clients", "routes"}, expect_header : BOOLEAN,
                 routes : [Words -> Words \cup {None}], order : Seq(Words),
                 clients : Seq([common_name : Words \cup {None}, virtual_address : Words \cup {None}])]
    /\ \A k \in DOMAIN snap.order : snap.routes[snap.order[k]] # None
    /\ HasTags(text) => \A n \in DOMAIN snap.clients : snap.clients[n].common_name # None

(* What the parser withstands: a row of a section that lost its end has    *)
(* too few fields, a tagged row that lost its beginning has no tag.  The   *)
(* converse is not so: a tagged row cut short is taken as it is.           *)
Withstood == IF HasTags(text) THEN tear \in {"start", "header"} ELSE tear = "end"
LinesOnly == tear \in {"none", "lines"}

(* An address maps to a client that had it before or after the rewrite, or *)
(* to nobody, whichever lines of the two files are mixed and wherever the  *)
(* parser withstands a cut.                                                *)
RoutesSound ==
    LinesOnly \/ Withstood =>
        \A ip \in Ips : LET c == snap.routes[ip] IN
            c = None \/ (c \in Names /\ ip \in {old[c], new[c]})

(* Nor is anybody recorded as connected who was not, or with an address    *)
(* that was not theirs.  (Column titles left of a header are no client.)   *)
SessionsSound ==
    LinesOnly \/ (Withstood /\ tear # "header") =>
        \A n \in DOMAIN snap.clients :
            LET c == snap.clients[n].common_name
                a == snap.clients[n].virtual_address IN
            /\ c \in Names
            /\ {old[c], new[c]} # {Absent}
            /\ a # None => a \in {old[c], new[c]}

(* From a whole file, of whatever version, every client and every address  *)
(* is known, and nothing else.                                             *)
WholeFile ==
    tear = "none" /\ parsed =>
        /\ \A ip \in Ips, c \in Names : snap.routes[ip] = c <=> new[c] = ip
        /\ Range(snap.clients) =
              {[common_name |-> c, virtual_address |-> new[c]] : c \in {d \in Names : new[d] # Absent}}
=============================================================================
