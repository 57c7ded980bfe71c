------------------------------ MODULE Lifecycle ------------------------------
(***************************************************************************)
(* How `ovpn-metrics collect --dns` starts, runs and stops: run_collect    *)
(* with its three threads, the two tcpdump processes they read, and the    *)
(* database they share.                                                    *)
(*                                                                         *)
(* The main thread and the DNS thread read a tcpdump each, and write what  *)
(* they aggregated; the watcher writes sessions.  Writers take             *)
(* Database._lock and then wait for SQLite, which another process may      *)
(* keep locked.  The end of the main thread's capture ends everything:     *)
(* stop and join the DNS thread, stop and join the watcher, close the      *)
(* database, exit; the joins give up after 5 seconds.                      *)
(* An aggregate is abstracted to whether it holds anything.  `failed` is    *)
(* the exit code: an exception on its way out of run_collect.  `lost`,     *)
(* `late`, `contended`, `cut` and `broken` record what happened, for the   *)
(* properties.                                                             *)
(***************************************************************************)
EXTENDS Naturals

CONSTANT MaxPipe    \* bound: lines waiting in a pipe

ASSUME LifecycleAssumption == MaxPipe \in Nat

VARIABLES
    pc,         \* where each thread is
    final,      \* the thread is in the finally block of its run
    agg,        \* its aggregate is not empty
    pend,       \* it holds a batch on its way to the database
    tcpdump,    \* the process its capture spawned
    pipe,       \* lines waiting in that process's stdout
    lock,       \* the holder of Database._lock
    open,       \* the connection is open
    foreign,    \* another process holds SQLite's write lock
    stopped,    \* StatusWatcher._stop_event
    failed,     \* an exception ends the main thread: the exit code is not 0
    lost,       \* collectors that aggregated something the file never got
    late,       \* the DNS capture had not begun when it was stopped
    contended,  \* another process has held SQLite's write lock
    cut,        \* Ctrl-C has cut a flush short
    broken      \* collectors of whom SQLite refused a write no lock stood in the way of

process == <<tcpdump, pipe>>
memory  == <<agg, pend, lost>>
luck    == <<late, contended, cut, broken>>
past    == <<failed, luck>>
vars    == <<pc, final, memory, process, lock, open, foreign, stopped, past>>

Collectors == {"main", "dns"}
Threads    == Collectors \cup {"watcher"}
NoThread   == "none"

TypeOK ==
    /\ pc \in [Threads -> {"spawn", "read", "stop", "want", "write", "poll", "wait", "done",
                           "stop_dns", "join_dns", "stop_watcher", "join_watcher",
                           "close", "exit", "exited"}]
    /\ final \in [Collectors -> BOOLEAN]
    /\ agg \in [Collectors -> BOOLEAN]
    /\ pend \in [Collectors -> BOOLEAN]
    /\ tcpdump \in [Collectors -> {"none", "running", "dead"}]
    /\ pipe \in [Collectors -> 0 .. MaxPipe]
    /\ lock \in Threads \cup {NoThread}
    /\ lock # NoThread <=> \E t \in Threads : pc[t] = "write"
    /\ \A t \in Threads : pc[t] = "write" => lock = t
    /\ open \in BOOLEAN
    /\ foreign \in BOOLEAN
    /\ stopped \in BOOLEAN
    /\ failed \in BOOLEAN
    /\ lost \subseteq Collectors
    /\ late \in BOOLEAN
    /\ contended \in BOOLEAN
    /\ cut \in BOOLEAN
    /\ broken \subseteq Collectors

(* run_collect has read the status file and started both threads.          *)
Init ==
    /\ pc = [t \in Threads |-> IF t = "watcher" THEN "poll" ELSE "spawn"]
    /\ final = [c \in Collectors |-> FALSE]
    /\ agg = [c \in Collectors |-> FALSE]
    /\ pend = [c \in Collectors |-> FALSE]
    /\ tcpdump = [c \in Collectors |-> "none"]
    /\ pipe = [c \in Collectors |-> 0]
    /\ lock = NoThread
    /\ open = TRUE
    /\ foreign = FALSE
    /\ stopped = FALSE
    /\ failed = FALSE
    /\ lost = {}
    /\ late = FALSE
    /\ contended = FALSE
    /\ cut = FALSE
    /\ broken = {}

(* The threads are daemons: they end with the main thread.                 *)
Alive == pc["main"] # "exited"

Goto(t, label) == pc' = [pc EXCEPT ![t] = label]

-----------------------------------------------------------------------------
(* tcpdump, and the other processes on the database file.                  *)

PrintLine(c) ==
    /\ tcpdump[c] = "running"
    /\ pipe[c] < MaxPipe
    /\ pipe' = [pipe EXCEPT ![c] = @ + 1]
    /\ UNCHANGED <<pc, final, memory, tcpdump, lock, open, foreign, stopped, past>>

TcpdumpDies(c) ==
    /\ tcpdump[c] = "running"
    /\ tcpdump' = [tcpdump EXCEPT ![c] = "dead"]
    /\ UNCHANGED <<pc, final, memory, pipe, lock, open, foreign, stopped, past>>

ForeignLock ==
    /\ foreign' = ~foreign
    /\ contended' = TRUE
    /\ UNCHANGED <<pc, final, memory, process, lock, open, stopped, failed, late, cut, broken>>

-----------------------------------------------------------------------------
(* TcpdumpCapture.start, when the thread asks for the first line: tcpdump  *)
(* runs, or there is no such program and RuntimeError ends the loop.       *)
Spawn(c) ==
    /\ Alive
    /\ pc[c] = "spawn"
    /\ \/ /\ tcpdump' = [tcpdump EXCEPT ![c] = "running"]
          /\ Goto(c, "read")
          /\ UNCHANGED failed
       \/ /\ Goto(c, "stop")
          /\ failed' = (failed \/ c = "main")
          /\ UNCHANGED tcpdump
    /\ UNCHANGED <<final, memory, pipe, lock, open, foreign, stopped, luck>>

(* One turn of the loop in run: a line, attributed to a client or not, and *)
(* a flush if one is due and there is anything to flush.                   *)
Read(c, recorded, due) ==
    /\ Alive
    /\ pc[c] = "read"
    /\ pipe[c] > 0
    /\ pipe' = [pipe EXCEPT ![c] = @ - 1]
    /\ LET filled == agg[c] \/ recorded IN
       IF due /\ filled
       THEN /\ agg' = [agg EXCEPT ![c] = FALSE]
            /\ pend' = [pend EXCEPT ![c] = TRUE]
            /\ Goto(c, "want")
       ELSE /\ agg' = [agg EXCEPT ![c] = filled]
            /\ UNCHANGED <<pc, pend>>
    /\ UNCHANGED <<final, lost, tcpdump, lock, open, foreign, stopped, past>>

(* End of file on tcpdump's stdout.  An exit status other than 0, SIGINT   *)
(* or SIGTERM is a RuntimeError, which the DNS thread logs and forgets.    *)
Eof(c, error) ==
    /\ Alive
    /\ pc[c] = "read"
    /\ tcpdump[c] = "dead"
    /\ pipe[c] = 0
    /\ Goto(c, "stop")
    /\ failed' = (failed \/ (error /\ c = "main"))
    /\ UNCHANGED <<final, memory, process, lock, open, foreign, stopped, luck>>

(* Ctrl-C ends the main thread's loop, or cuts its flush short, even the   *)
(* last one; a terminal sends it to the tcpdumps as well.                  *)
CtrlC(killed) ==
    /\ tcpdump' = [c \in Collectors |-> IF c \in killed /\ tcpdump[c] = "running"
                                        THEN "dead" ELSE tcpdump[c]]
    /\ \/ /\ pc["main"] \in {"spawn", "read"}
          /\ Goto("main", "stop")
          /\ UNCHANGED <<memory, lock, failed, cut>>
       \/ /\ pc["main"] \in {"want", "write"}
          /\ Goto("main", IF final["main"] THEN "stop_dns" ELSE "stop")
          /\ pend' = [pend EXCEPT !["main"] = FALSE]
          /\ lost' = lost \cup {"main"}
          /\ lock' = IF lock = "main" THEN NoThread ELSE lock
          /\ cut' = TRUE
          /\ failed' = (failed \/ final["main"])
          /\ UNCHANGED agg
    /\ UNCHANGED <<final, pipe, open, foreign, stopped, late, contended, broken>>

(* TcpdumpCapture.stop: terminate, wait, kill if need be.  Without a       *)
(* process there is nothing to stop.                                       *)
Terminated(c) ==
    [tcpdump EXCEPT ![c] = IF @ = "running" THEN "dead" ELSE @]

(* Where a collector goes after the flush of its finally block.            *)
AfterFinally(c) == IF c = "main" THEN "stop_dns" ELSE "done"

(* The finally block of run: stop the capture, flush what is left.         *)
Stop(c) ==
    /\ Alive
    /\ pc[c] = "stop"
    /\ tcpdump' = Terminated(c)
    /\ final' = [final EXCEPT ![c] = TRUE]
    /\ agg' = [agg EXCEPT ![c] = FALSE]
    /\ pend' = [pend EXCEPT ![c] = agg[c]]
    /\ Goto(c, IF agg[c] THEN "want" ELSE AfterFinally(c))
    /\ UNCHANGED <<lost, pipe, lock, open, foreign, stopped, past>>

-----------------------------------------------------------------------------
(* with self._lock: ... conn.commit().                                     *)

Acquire(t) ==
    /\ Alive
    /\ pc[t] = "want"
    /\ lock = NoThread
    /\ lock' = t
    /\ Goto(t, "write")
    /\ UNCHANGED <<final, memory, process, open, foreign, stopped, past>>

(* Mutant: the lock is not given back.                                     *)
Unreleased(t) ==
    /\ UNCHANGED lock
    /\ pend' = [c \in Collectors |-> pend[c] /\ c # t]

Release(t) ==
    /\ lock' = NoThread
    /\ pend' = [c \in Collectors |-> pend[c] /\ c # t]

Resume(t) ==
    IF t = "watcher" THEN "wait" ELSE IF final[t] THEN AfterFinally(t) ELSE "read"

WriteOk(t) ==
    /\ Alive
    /\ pc[t] = "write"
    /\ open /\ ~foreign
    /\ Release(t)
    /\ Goto(t, Resume(t))
    /\ UNCHANGED <<final, agg, lost, process, open, foreign, stopped, past>>

(* Mutant: the main thread swallows it too, as the DNS thread does.        *)
WriteFailsQuietly(t) ==
    /\ Alive
    /\ pc[t] = "write"
    /\ Release(t)
    /\ lost' = lost \cup ({t} \cap Collectors)
    /\ broken' = IF foreign \/ ~open THEN broken ELSE broken \cup ({t} \cap Collectors)
    /\ Goto(t, IF Resume(t) = "read" THEN "stop" ELSE Resume(t))
    /\ UNCHANGED <<final, agg, process, open, foreign, stopped, failed, late, contended, cut>>

(* busy_timeout has run out, the connection is closed, or SQLite refuses   *)
(* the write for a reason of its own (a full disk, an I/O error): the      *)
(* watcher logs and goes on, a collector leaves its loop, or its finally   *)
(* block.                                                                  *)
WriteFails(t) ==
    /\ Alive
    /\ pc[t] = "write"
    /\ Release(t)
    /\ lost' = lost \cup ({t} \cap Collectors)
    /\ broken' = IF foreign \/ ~open THEN broken ELSE broken \cup ({t} \cap Collectors)
    /\ failed' = (failed \/ t = "main")
    /\ Goto(t, IF Resume(t) = "read" THEN "stop" ELSE Resume(t))
    /\ UNCHANGED <<final, agg, process, open, foreign, stopped, late, contended, cut>>

-----------------------------------------------------------------------------
(* StatusWatcher.run.                                                      *)

Poll(sessions) ==
    /\ Alive
    /\ pc["watcher"] = "poll"
    /\ Goto("watcher", IF sessions THEN "want" ELSE "wait")
    /\ UNCHANGED <<final, memory, process, lock, open, foreign, stopped, past>>

Wait ==
    /\ Alive
    /\ pc["watcher"] = "wait"
    /\ Goto("watcher", IF stopped THEN "done" ELSE "poll")
    /\ UNCHANGED <<final, memory, process, lock, open, foreign, stopped, past>>

-----------------------------------------------------------------------------
(* The finally block of run_collect.                                       *)

(* Mutant: the DNS thread is not joined.                                   *)
StopDnsOnly ==
    /\ pc["main"] = "stop_dns"
    /\ tcpdump' = Terminated("dns")
    /\ late' = (pc["dns"] = "spawn")
    /\ Goto("main", "stop_watcher")
    /\ UNCHANGED <<final, memory, pipe, lock, open, foreign, stopped, failed, contended, cut, broken>>

(* Mutant: the DNS thread's capture is not stopped.                        *)
SkipStop ==
    /\ pc["main"] = "stop_dns"
    /\ late' = (pc["dns"] = "spawn")
    /\ Goto("main", "join_dns")
    /\ UNCHANGED <<final, memory, process, lock, open, foreign, stopped, failed, contended, cut, broken>>

StopDns ==
    /\ pc["main"] = "stop_dns"
    /\ tcpdump' = Terminated("dns")
    /\ late' = (pc["dns"] = "spawn")
    /\ Goto("main", "join_dns")
    /\ UNCHANGED <<final, memory, pipe, lock, open, foreign, stopped, failed, contended, cut, broken>>

(* What can keep a thread for the 5 seconds a join waits: SQLite, whose    *)
(* busy_timeout is 10 seconds, or a tcpdump nobody stops.                  *)
Stuck(t) ==
    \/ foreign /\ pc[t] \in {"want", "write"}
    \/ t = "dns" /\ tcpdump[t] = "running" /\ pc[t] # "done"

(* Mutant: join without a timeout.                                         *)
JoinedAtLast(t) == pc[t] = "done"

Joined(t) == pc[t] = "done" \/ Stuck(t)

JoinDns ==
    /\ pc["main"] = "join_dns"
    /\ Joined("dns")
    /\ Goto("main", "stop_watcher")
    /\ UNCHANGED <<final, memory, process, lock, open, foreign, stopped, past>>

(* Mutant: the watcher is told to stop and not joined.                     *)
StopWatcherOnly ==
    /\ pc["main"] = "stop_watcher"
    /\ stopped' = TRUE
    /\ Goto("main", "close")
    /\ UNCHANGED <<final, memory, process, lock, open, foreign, past>>

StopWatcher ==
    /\ pc["main"] = "stop_watcher"
    /\ stopped' = TRUE
    /\ Goto("main", "join_watcher")
    /\ UNCHANGED <<final, memory, process, lock, open, foreign, past>>

JoinWatcher ==
    /\ pc["main"] = "join_watcher"
    /\ Joined("watcher")
    /\ Goto("main", "close")
    /\ UNCHANGED <<final, memory, process, lock, open, foreign, stopped, past>>

Close ==
    /\ pc["main"] = "close"
    /\ open' = FALSE
    /\ Goto("main", "exit")
    /\ UNCHANGED <<final, memory, process, lock, foreign, stopped, past>>

(* What the DNS thread still has in memory goes with the process.          *)
Exit ==
    /\ pc["main"] = "exit"
    /\ lost' = lost \cup {c \in Collectors : agg[c] \/ pend[c]}
    /\ Goto("main", "exited")
    /\ UNCHANGED <<final, agg, pend, process, lock, open, foreign, stopped, past>>

-----------------------------------------------------------------------------
Collect(c) ==
    \/ Spawn(c)
    \/ \E recorded, due \in BOOLEAN : Read(c, recorded, due)
    \/ \E error \in BOOLEAN : Eof(c, error)
    \/ Stop(c)

Write(t) == WriteOk(t) \/ WriteFails(t)

Watch == Wait \/ \E sessions \in BOOLEAN : Poll(sessions)

Shutdown ==
    \/ StopDns
    \/ JoinDns
    \/ StopWatcher
    \/ JoinWatcher
    \/ Close
    \/ Exit

Next ==
    \/ \E c \in Collectors : Collect(c) \/ PrintLine(c) \/ TcpdumpDies(c)
    \/ \E t \in Threads : Acquire(t) \/ Write(t)
    \/ Watch
    \/ Shutdown
    \/ ForeignLock
    \/ \E killed \in SUBSET Collectors : CtrlC(killed)

Spec == Init /\ [][Next]_vars

(* Every thread that can run is run, and a thread that waits for _lock     *)
(* gets it in the end: its holders give it back for seconds at a time.     *)
FairSpec ==
    /\ Spec
    /\ \A c \in Collectors : WF_vars(Collect(c))
    /\ \A t \in Threads : SF_vars(Acquire(t)) /\ WF_vars(Write(t))
    /\ WF_vars(Watch)
    /\ WF_vars(Shutdown)

-----------------------------------------------------------------------------
(* The DNS capture had begun when it was stopped, and no other process     *)
(* kept the file locked.                                                   *)
Orderly == ~late /\ ~contended

(* An orderly exit that no Ctrl-C cuts into loses nothing that either      *)
(* collector had aggregated, but for the collectors whose write SQLite     *)
(* itself refused: stop, join, stop, join and close leave nothing behind,  *)
(* ...                                                                     *)
NothingLost == pc["main"] = "exited" /\ Orderly /\ ~cut => lost \subseteq broken

(* ... and the connection is closed only after both threads are done with  *)
(* it.                                                                     *)
ClosedLast == ~open /\ Orderly => pc["dns"] = "done" /\ pc["watcher"] = "done"

(* No tcpdump is left behind that was running when the collector stopped,  *)
(* whatever another process does to the file; and none fills a pipe that   *)
(* nobody reads because an exception has ended the DNS thread.             *)
NoStray ==
    /\ pc["main"] = "exited" /\ ~late => \A c \in Collectors : tcpdump[c] # "running"
    /\ pc["dns"] = "done" => tcpdump["dns"] # "running"

(* Whoever starts the collector learns of a loss of the main thread's from *)
(* the exit code, unless it was a Ctrl-C that cut into a flush.  (The DNS  *)
(* thread's losses are in the log alone.)                                  *)
LossTold == pc["main"] = "exited" /\ ~failed /\ ~cut => "main" \notin lost

(* Once the main thread's capture has ended, the process exits, whatever   *)
(* holds the database and whatever tcpdump does.                           *)
Terminates == pc["main"] = "stop" ~> pc["main"] = "exited"
=============================================================================
