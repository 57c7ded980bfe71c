--------------------------- MODULE LifecycleProofs ---------------------------
(***************************************************************************)
(* The exit of the collector, proved for any pipe capacity: unless its    *)
(* DNS capture was stopped before it had begun, no tcpdump is left behind; *)
(* unless, besides, another process kept the file locked, the connection   *)
(* is closed last; and unless a Ctrl-C cut into a flush, only what SQLite  *)
(* refused to write is lost.                                               *)
(***************************************************************************)
EXTENDS Lifecycle, TLAPS

(* The labels of each thread, and the order of run_collect's finally.      *)
Running   == {"spawn", "read", "stop", "want", "write"}
Closed    == {"exit", "exited"}
Closing   == {"close"} \cup Closed
AfterDns  == {"stop_watcher", "join_watcher"} \cup Closing
AfterStop == {"join_dns"} \cup AfterDns
AfterMain == {"stop_dns"} \cup AfterStop

Places ==
    /\ pc["main"] \in Running \cup AfterMain
    /\ pc["dns"] \in Running \cup {"done"}
    /\ pc["watcher"] \in {"poll", "want", "write", "wait", "done"}

(* What a collector has in memory, by where it is in its run.              *)
Books ==
    \A c \in Collectors :
        /\ pend[c] => pc[c] \in {"want", "write"}
        /\ final[c] => ~agg[c] /\ tcpdump[c] # "running" /\ pc[c] \notin {"spawn", "read", "stop"}
        /\ ~final[c] => pc[c] \in Running
        /\ pc[c] = "spawn" => ~agg[c]

(* What each step of the shutdown has waited for.                          *)
Order ==
    /\ late => pc["main"] \in AfterStop
    /\ pc["main"] \in AfterStop /\ ~late => tcpdump["dns"] # "running" /\ pc["dns"] # "spawn"
    /\ pc["main"] \in AfterDns /\ Orderly => pc["dns"] = "done"
    /\ pc["main"] \in Closing /\ Orderly => pc["watcher"] = "done"
    /\ ~open => pc["main"] \in Closed

(* The inductive invariant.                                                *)
LInv ==
    /\ TypeOK
    /\ Places
    /\ Books
    /\ Order
    /\ foreign => contended
    /\ Orderly /\ ~cut => lost \subseteq broken
    /\ "main" \in lost => failed \/ cut

-----------------------------------------------------------------------------
USE LifecycleAssumption DEF Collectors, Threads, NoThread, Goto, process, memory, luck, past, Orderly

LEMMA InitLInv == Init => LInv
<1> SUFFICES ASSUME Init PROVE LInv
  OBVIOUS
<1>1. /\ pc["main"] = "spawn" /\ pc["dns"] = "spawn" /\ pc["watcher"] = "poll"
      /\ lock = NoThread /\ ~foreign /\ lost = {} /\ broken = {}
  BY DEF Init
<1>2. TypeOK
  <2>1. /\ final \in [Collectors -> BOOLEAN]
        /\ agg \in [Collectors -> BOOLEAN]
        /\ pend \in [Collectors -> BOOLEAN]
    BY Zenon DEF Init
  <2>2. pipe \in [Collectors -> 0 .. MaxPipe]
    BY DEF Init
  <2>3. \A t \in Threads : pc[t] # "write"
    BY DEF Init
  <2> QED  BY <1>1, <2>1, <2>2, <2>3 DEF Init, TypeOK
<1>3. Books
  BY DEF Init, Books, Running
<1> QED
  BY <1>1, <1>2, <1>3 DEF Init, LInv, Places, Order,
         Running, Closed, Closing, AfterDns, AfterStop, AfterMain

(* tcpdump and other processes: only a running tcpdump prints or dies.     *)
LEMMA OutsideLInv ==
    ASSUME LInv, NEW c \in Collectors,
           PrintLine(c) \/ TcpdumpDies(c) \/ ForeignLock
    PROVE  LInv'
<1>1. CASE PrintLine(c)
  BY <1>1 DEF PrintLine, LInv, TypeOK, Places, Books, Order
<1>2. CASE TcpdumpDies(c)
  BY <1>2 DEF TcpdumpDies, LInv, TypeOK, Places, Books, Order
<1>3. CASE ForeignLock
  BY <1>3 DEF ForeignLock, LInv, TypeOK, Places, Books, Order
<1> QED  BY <1>1, <1>2, <1>3

(* A collector's own steps; it is not being waited for, or has not been    *)
(* stopped, as long as it has not spawned.                                 *)
LEMMA CollectLInv ==
    ASSUME LInv, NEW c \in Collectors, Collect(c)
    PROVE  LInv'
<1>1. CASE Spawn(c)
  BY <1>1 DEF Spawn, Alive, LInv, TypeOK, Places, Books, Order,
              Running, Closed, Closing, AfterDns, AfterStop, AfterMain
<1>2. ASSUME NEW recorded \in BOOLEAN, NEW due \in BOOLEAN, Read(c, recorded, due)
      PROVE  LInv'
  <2>1. pipe' \in [Collectors -> 0 .. MaxPipe]
    BY <1>2 DEF Read, LInv, TypeOK
  <2> DEFINE filled == agg[c] \/ recorded
  <2>a. agg \in [Collectors -> BOOLEAN] /\ pend \in [Collectors -> BOOLEAN]
    BY DEF LInv, TypeOK
  <2>b. \/ agg' = [agg EXCEPT ![c] = FALSE] /\ pend' = [pend EXCEPT ![c] = TRUE]
        \/ agg' = [agg EXCEPT ![c] = filled] /\ pend' = pend
    BY <1>2, Zenon DEF Read
  <2>c. filled \in BOOLEAN
    BY <2>a
  <2> HIDE DEF filled
  <2>d. /\ agg' \in [Collectors -> BOOLEAN] /\ pend' \in [Collectors -> BOOLEAN]
        /\ \A d \in Collectors : d # c => agg'[d] = agg[d] /\ pend'[d] = pend[d]
    BY <2>a, <2>b, <2>c
  <2>2. /\ \A t \in Threads : t # c => pc'[t] = pc[t]
        /\ pc[c] = "read" /\ ~final[c] /\ pc'[c] \in {"read", "want"}
        /\ pend'[c] => pc'[c] = "want"
    BY <1>2 DEF Read, LInv, TypeOK, Books
  <2>3. TypeOK'
    BY <1>2, <2>1, <2>2, <2>d DEF Read, LInv, TypeOK
  <2>4. Books'
    BY <1>2, <2>2, <2>d DEF Read, LInv, TypeOK, Books, Running
  <2>5. Places' /\ Order'
    BY <1>2, <2>2 DEF Read, LInv, TypeOK, Places, Order,
                      Running, Closed, Closing, AfterDns, AfterStop, AfterMain
  <2> QED  BY <1>2, <2>3, <2>4, <2>5 DEF Read, LInv
<1>3. ASSUME NEW error \in BOOLEAN, Eof(c, error) PROVE LInv'
  BY <1>3 DEF Eof, Alive, LInv, TypeOK, Places, Books, Order,
              Running, Closed, Closing, AfterDns, AfterStop, AfterMain
<1>4. CASE Stop(c)
  BY <1>4 DEF Stop, Terminated, AfterFinally, Alive, LInv, TypeOK, Places, Books, Order,
              Running, Closed, Closing, AfterDns, AfterStop, AfterMain
<1> QED  BY <1>1, <1>2, <1>3, <1>4 DEF Collect

(* In an orderly run a write fails only if SQLite itself refuses it.       *)
LEMMA WriteLInv ==
    ASSUME LInv, NEW t \in Threads, Acquire(t) \/ Write(t)
    PROVE  LInv'
<1>1. CASE Acquire(t)
  BY <1>1 DEF Acquire, Alive, LInv, TypeOK, Places, Books, Order,
              Running, Closed, Closing, AfterDns, AfterStop, AfterMain
<1>2. CASE WriteOk(t)
  BY <1>2 DEF WriteOk, Release, Resume, AfterFinally, Alive, LInv, TypeOK, Places,
              Books, Order, Running, Closed, Closing, AfterDns, AfterStop, AfterMain
<1>3. CASE WriteFails(t)
  <2> USE DEF LInv, TypeOK, Places, Books, Order, Resume, AfterFinally,
              Running, Closed, Closing, AfterDns, AfterStop, AfterMain
  <2>1. /\ pc[t] = "write" /\ lock' = NoThread
        /\ pend' = [c \in Collectors |-> pend[c] /\ c # t]
        /\ lost' = lost \cup ({t} \cap Collectors)
        /\ \E label \in {"wait", "stop_dns", "done", "stop"} :
              /\ pc' = [pc EXCEPT ![t] = label]
              /\ t = "watcher" => label = "wait"
              /\ t # "watcher" /\ ~final[t] => label = "stop"
              /\ t # "watcher" /\ final[t] => label = AfterFinally(t)
    BY <1>3, Zenon DEF WriteFails, Release
  <2>2. Orderly /\ ~cut => lost' \subseteq broken'
    <3>1. CASE foreign \/ ~open
      <4>1. ~Orderly
        BY <1>3, <3>1 DEF WriteFails
      <4> QED  BY <4>1
    <3>2. CASE ~(foreign \/ ~open)
      <4>1. broken' = broken \cup ({t} \cap Collectors)
        BY <1>3, <3>2 DEF WriteFails
      <4> QED  BY <2>1, <4>1
    <3> QED  BY <3>1, <3>2
  <2>3. TypeOK'
    BY <1>3, <2>1 DEF WriteFails
  <2>4. Books'
    BY <1>3, <2>1 DEF WriteFails
  <2>5. Places' /\ Order'
    BY <1>3, <2>1, <2>2 DEF WriteFails
  <2> QED  BY <1>3, <2>2, <2>3, <2>4, <2>5 DEF WriteFails
<1> QED  BY <1>1, <1>2, <1>3 DEF Write

LEMMA WatchLInv == ASSUME LInv, Watch PROVE LInv'
<1> USE DEF Alive, LInv, TypeOK, Places, Books, Order,
            Running, Closed, Closing, AfterDns, AfterStop, AfterMain
<1>1. CASE Wait
  BY <1>1 DEF Wait
<1>2. ASSUME NEW sessions \in BOOLEAN, Poll(sessions) PROVE LInv'
  BY <1>2 DEF Poll
<1> QED  BY <1>1, <1>2 DEF Watch

(* Ctrl-C ends the loop, or a flush of the main thread.                    *)
LEMMA CtrlCLInv ==
    ASSUME LInv, NEW killed \in SUBSET Collectors, CtrlC(killed)
    PROVE  LInv'
<1> USE DEF LInv, TypeOK, Places, Books, Order,
            Running, Closed, Closing, AfterDns, AfterStop, AfterMain
<1>1. /\ tcpdump' \in [Collectors -> {"none", "running", "dead"}]
      /\ \A c \in Collectors : tcpdump'[c] = "running" => tcpdump[c] = "running"
  BY DEF CtrlC
<1>2. CASE pc["main"] \in {"spawn", "read"}
  <2>1. pc' = [pc EXCEPT !["main"] = "stop"] /\ UNCHANGED <<memory, lock, cut>>
    BY <1>2 DEF CtrlC
  <2> QED  BY <1>1, <1>2, <2>1 DEF CtrlC
<1>3. CASE pc["main"] \in {"want", "write"}
  <2>1. /\ \/ final["main"] /\ pc' = [pc EXCEPT !["main"] = "stop_dns"]
           \/ ~final["main"] /\ pc' = [pc EXCEPT !["main"] = "stop"]
        /\ pend' = [pend EXCEPT !["main"] = FALSE]
        /\ lost' = lost \cup {"main"}
        /\ lock' = IF lock = "main" THEN NoThread ELSE lock
        /\ cut' = TRUE
        /\ UNCHANGED <<agg, final, pipe, open, foreign, stopped, late, contended, broken>>
    BY <1>3 DEF CtrlC
  <2>a. failed \in BOOLEAN /\ final \in [Collectors -> BOOLEAN]
    OBVIOUS
  <2>b. failed' \in BOOLEAN
    BY <1>3, <2>a, Zenon DEF CtrlC
  <2>2. TypeOK'
    BY <1>1, <1>3, <2>1, <2>b
  <2>3. Books'
    BY <1>1, <1>3, <2>1
  <2>4. Places' /\ Order'
    BY <1>1, <1>3, <2>1
  <2> QED  BY <2>1, <2>2, <2>3, <2>4
<1> QED  BY <1>2, <1>3 DEF CtrlC

(* Nothing keeps a thread from what a join waits for, so it has ended.     *)
LEMMA ShutdownLInv == ASSUME LInv, Shutdown PROVE LInv'
<1> USE DEF LInv, TypeOK, Places, Books, Order,
            Running, Closed, Closing, AfterDns, AfterStop, AfterMain
<1>1. CASE StopDns
  BY <1>1 DEF StopDns, Terminated
<1>2. CASE JoinDns
  BY <1>2 DEF JoinDns, Joined, Stuck
<1>3. CASE StopWatcher
  BY <1>3 DEF StopWatcher
<1>4. CASE JoinWatcher
  BY <1>4 DEF JoinWatcher, Joined, Stuck
<1>5. CASE Close
  <2>1. /\ pc["main"] = "close" /\ pc' = [pc EXCEPT !["main"] = "exit"]
        /\ open' = FALSE
        /\ UNCHANGED <<final, memory, process, lock, foreign, stopped, past>>
    BY <1>5 DEF Close
  <2>2. TypeOK'
    BY <2>1
  <2>3. Books'
    BY <2>1
  <2>4. Places' /\ Order'
    BY <2>1
  <2> QED  BY <2>1, <2>2, <2>3, <2>4
<1>6. CASE Exit
  <2>1. /\ pc["main"] = "exit" /\ pc' = [pc EXCEPT !["main"] = "exited"]
        /\ lost' = lost \cup {c \in Collectors : agg[c] \/ pend[c]}
        /\ UNCHANGED <<final, agg, pend, process, lock, open, foreign, stopped, past>>
    BY <1>6 DEF Exit
  <2>2. Orderly => \A c \in Collectors : ~agg[c] /\ ~pend[c]
    BY <2>1
  <2>3. TypeOK' /\ Books'
    BY <2>1
  <2>4. Places' /\ Order'
    BY <2>1
  <2>5. Orderly' /\ ~cut' => lost' \subseteq broken'
    BY <2>1, <2>2
  <2> QED  BY <2>1, <2>3, <2>4, <2>5
<1> QED  BY <1>1, <1>2, <1>3, <1>4, <1>5, <1>6 DEF Shutdown

LEMMA NextLInv == ASSUME LInv, [Next]_vars PROVE LInv'
<1>1. CASE UNCHANGED vars
  BY <1>1 DEF vars, LInv, TypeOK, Places, Books, Order
<1> QED
  BY <1>1, OutsideLInv, CollectLInv, WriteLInv, WatchLInv, CtrlCLInv, ShutdownLInv DEF Next

(* Every thread keeps to its labels, and the lock has the holder it says.  *)
THEOREM LifecycleTypeCorrect == Spec => []TypeOK
<1>1. LInv => TypeOK
  BY DEF LInv
<1> QED  BY <1>1, InitLInv, NextLInv, PTL DEF Spec

(* run_collect: an orderly exit loses nothing that was aggregated, except  *)
(* what SQLite itself refused to write.                                    *)
THEOREM ExitLosesNothing == Spec => []NothingLost
<1>1. LInv => NothingLost
  BY DEF LInv, NothingLost
<1> QED  BY <1>1, InitLInv, NextLInv, PTL DEF Spec

(* run_collect: the connection is closed after both threads have ended.    *)
THEOREM ConnectionOutlivesThreads == Spec => []ClosedLast
<1>1. LInv => ClosedLast
  BY DEF LInv, ClosedLast, Order, AfterDns, Closing, Closed
<1> QED  BY <1>1, InitLInv, NextLInv, PTL DEF Spec

(* TcpdumpCapture: an exit leaves no tcpdump behind that had begun, nor    *)
(* does a DNS thread that ends early.                                      *)
THEOREM CapturesStopped == Spec => []NoStray
<1>1. LInv => NoStray
  BY DEF LInv, TypeOK, NoStray, Books, Order, Places,
         Running, AfterMain, AfterStop, AfterDns, Closing, Closed
<1> QED  BY <1>1, InitLInv, NextLInv, PTL DEF Spec

(* run_collect: the exit code tells of what the main thread has lost.      *)
THEOREM ExitCodeTells == Spec => []LossTold
<1>1. LInv => LossTold
  BY DEF LInv, LossTold
<1> QED  BY <1>1, InitLInv, NextLInv, PTL DEF Spec
=============================================================================
