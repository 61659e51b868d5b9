----------------------------- MODULE FluxEngine -----------------------------
(***************************************************************************)
(* One download, from flux_start to the end of flux_close: the main thread *)
(* running flux_do until ready or interrupted, and the setup threads that  *)
(* open the connections (src/src/flux.c, src/src/conn.c and the loop of    *)
(* download_one in src/src/text.c).                                        *)
(*                                                                         *)
(* A step of the main thread is the body of one loop iteration of flux_do  *)
(* for one connection: it runs with that connection's lock held, so its    *)
(* setup thread cannot interleave with it, while the threads of the other  *)
(* connections can run between any two iterations.  The clock is not       *)
(* modelled: a comparison with a timeout may come out either way.          *)
(***************************************************************************)
EXTENDS FluxLayout

CONSTANTS Size,          \* size of the file on the server, in bytes
          Requested,     \* conf->num_connections when flux_open runs
          BufferSize,    \* conf->buffer_size
          Servers,       \* what the servers may be like, see server below
          Resumes,       \* whether the segment table may come from a state file
          Faults,        \* which kinds of fault can happen
          MaxFaults      \* bound: how many faults happen in one behaviour

FaultKinds == {"connect", "reply", "read", "eof", "timeout", "expire",
               "write", "create", "create_at_start", "signal"}

ASSUME EngineAssumption ==
    /\ Size \in Nat \ {0}
    /\ Requested \in 1..MinChunkWorth
    /\ BufferSize \in Nat \ {0}
    /\ Servers \subseteq [supported : BOOLEAN, rangeIgnored : BOOLEAN, ftp : BOOLEAN]
    /\ \A s \in Servers : s.ftp => s.supported /\ ~s.rangeIgnored
    /\ Resumes \subseteq BOOLEAN
    /\ Faults \subseteq FaultKinds
    /\ MaxFaults \in Nat

Tids == 1..Requested   \* pthread ids in use or free for reuse
NoThread == 0          \* setup_thread of a calloc'ed conn_t
Fds == 1..Requested    \* descriptors the kernel hands out, lowest free one first
NoFd == 0              \* tcp->fd of a closed or never opened socket

VARIABLES
    server,      \* supported: conn[0].supported, the first server accepts ranges;
                 \* rangeIgnored: a mirror may answer 200 and the whole file;
                 \* ftp: a transfer is started with REST and RETR
    seg,         \* conn[i].currentbyte, conn[i].lastbyte
    bytes_done,  \* flux->bytes_done
    ready,       \* flux->ready
    enabled,     \* the connections with conn[i].enabled
    state,       \* the connections with conn[i].state: being set up
    lock,        \* the connections whose conn[i].lock is held by a setup thread
    tid,         \* conn[i].setup_thread
    fd,          \* conn[i].tcp->fd
    stream,      \* what the server still sends on conn[i]: body bytes from..to-1
    thread,      \* by pthread id: where that thread is, and its connection
    pc, cursor,  \* the main thread: its place in the code, its loop variable
    fds,         \* flux_do's fd_set
    run,         \* text.c's run: FALSE once SIGINT or SIGTERM arrived
    exit,        \* download_one's return value, -1 before it is known
    statefile,   \* whether the .st file exists
    disk,        \* the offsets fetched and counted
    good,        \* the offsets of the local file that hold the server's bytes
    faults       \* bound: faults so far

Conns == DOMAIN seg

N == Cardinality(Conns)

net == <<enabled, fd, stream>>
threads == <<state, lock, tid, thread>>
file == <<seg, bytes_done, disk, good>>
main == <<pc, cursor, fds>>
outcome == <<ready, run, exit, statefile>>
moving == <<net, threads, file, main, outcome, faults>>   \* all but the servers
vars == <<server, moving>>

-----------------------------------------------------------------------------

ThreadStates == {"free", "created", "locked", "requested", "exited"}

Live(t) == thread[t].at \in {"created", "locked", "requested"}

FreeTids == {t \in Tids : thread[t].at = "free"}

Fault(kind) ==
    /\ kind \in Faults
    /\ faults < MaxFaults
    /\ faults' = faults + 1

NoFault == UNCHANGED faults

\* conn_disconnect: the socket is closed, its descriptor becomes free.
Disconnect(i) ==
    /\ enabled' = enabled \ {i}
    /\ fd' = [fd EXCEPT ![i] = NoFd]
    /\ stream' = [stream EXCEPT ![i] = [from |-> 0, to |-> 0]]

\* socket() hands out the lowest free descriptor.
LowestFreeFd ==
    LET free == Fds \ {fd[i] : i \in Conns}
    IN  CHOOSE f \in free : \A g \in free : f <= g

\* The loop "for (i = 0; i < num_connections; i++)" of the main thread.
NextConn(after) ==
    IF cursor < N - 1 THEN pc' = pc /\ cursor' = cursor + 1
                      ELSE pc' = after /\ cursor' = 0

-----------------------------------------------------------------------------
(***************************************************************************)
(* flux_open has set the table up: flux_divide, or a state file some       *)
(* earlier run saved with any part of each segment done.  StateFile has    *)
(* those that were saved after work was handed over.                       *)
(***************************************************************************)

Fresh == Divide(Size, IF server.supported THEN Requested ELSE 1)

Init ==
    /\ server \in Servers
    /\ IF server.supported THEN statefile \in Resumes ELSE statefile = FALSE
    /\ IF statefile THEN seg \in PartlyDone(Fresh, Size) ELSE seg = Fresh
    /\ disk = Todo(Fresh) \ Todo(seg)
    /\ good = disk
    /\ bytes_done = Cardinality(disk)
    /\ ready = 0
    /\ enabled = {} /\ state = {} /\ lock = {}
    /\ tid = [i \in Conns |-> NoThread]
    /\ fd = [i \in Conns |-> NoFd]
    /\ stream = [i \in Conns |-> [from |-> 0, to |-> 0]]
    /\ thread = [t \in Tids |-> [at |-> "free", conn |-> 0]]
    /\ pc = "start" /\ cursor = 0 /\ fds = {}
    /\ run = TRUE /\ exit = -1
    /\ faults = 0

-----------------------------------------------------------------------------
(***************************************************************************)
(* setup_thread                                                            *)
(***************************************************************************)

ThreadLock(t) ==
    /\ thread[t].at = "created"
    /\ thread[t].conn \notin lock
    /\ lock' = lock \cup {thread[t].conn}
    /\ thread' = [thread EXCEPT ![t].at = "locked"]
    /\ UNCHANGED <<net, state, tid, file, main, outcome, faults>>

\* (Without "conn->state = false".)
ThreadExit_KeepsState(t) ==
    /\ lock' = lock \ {thread[t].conn}
    /\ thread' = [thread EXCEPT ![t].at = "exited"]
    /\ UNCHANGED <<state, tid>>

\* The tail of setup_thread: state cleared, lock released, thread gone.
ThreadExit(t) ==
    /\ state' = state \ {thread[t].conn}
    /\ lock' = lock \ {thread[t].conn}
    /\ thread' = [thread EXCEPT ![t].at = "exited"]
    /\ UNCHANGED tid

\* What the request asks for.  RETR has no end, and without range support the
\* request has no Range header: the server sends the file from its first byte.
RequestedBytes(i) ==
    [from |-> IF server.supported THEN seg[i].currentbyte ELSE 0,
     to |-> IF server.supported /\ ~server.ftp THEN seg[i].lastbyte ELSE Size]

\* conn_setup: connect, and build the request from currentbyte and lastbyte.
ThreadSetup(t) ==
    LET i == thread[t].conn
    IN  /\ thread[t].at = "locked"
        /\ fd' = [fd EXCEPT ![i] = LowestFreeFd]
        /\ stream' = [stream EXCEPT ![i] = RequestedBytes(i)]
        /\ thread' = [thread EXCEPT ![t].at = "requested"]
        /\ UNCHANGED <<enabled, state, lock, tid, file, main, outcome, faults>>

\* conn_exec: any 2xx reply is accepted, so also a 200 to a Range request.
ThreadExec(t) ==
    LET i == thread[t].conn
    IN  /\ thread[t].at = "requested"
        /\ enabled' = enabled \cup {i}
        /\ \/ UNCHANGED stream
           \/ /\ server.rangeIgnored
              /\ stream' = [stream EXCEPT ![i] = [from |-> 0, to |-> Size]]
        /\ ThreadExit(t)
        /\ UNCHANGED <<fd, file, main, outcome, faults>>

\* Either of the two fails.
ThreadFail(t) ==
    /\ \/ thread[t].at = "locked" /\ Fault("connect")
       \/ thread[t].at = "requested" /\ Fault("reply")
    /\ Disconnect(thread[t].conn)
    /\ ThreadExit(t)
    /\ UNCHANGED <<file, main, outcome>>

SetupThread(t) == ThreadLock(t) \/ ThreadSetup(t) \/ ThreadExec(t) \/ ThreadFail(t)

-----------------------------------------------------------------------------
(***************************************************************************)
(* pthread_create, pthread_join and pthread_cancel on conn[i].setup_thread *)
(***************************************************************************)

\* The id of a thread already joined may be given to the next one.
CreateThread(i, table) ==
    \E t \in Tids :
        /\ table[t].at = "free"
        /\ tid' = [tid EXCEPT ![i] = t]
        /\ thread' = [table EXCEPT ![t] = [at |-> "created", conn |-> i]]

Joinable(t) == t # NoThread /\ thread[t].at # "free"

Joined(t) == [thread EXCEPT ![t] = [at |-> "free", conn |-> 0]]

\* Joining, or cancelling, a thread that is not there is undefined: the C
\* library answers ESRCH or the process dies.
Crash ==
    /\ pc' = "crashed" /\ cursor' = 0 /\ fds' = {}
    /\ UNCHANGED <<net, threads, file, outcome>>

-----------------------------------------------------------------------------
(***************************************************************************)
(* flux_start                                                              *)
(***************************************************************************)

AfterStart == NextConn("while") /\ ready' = IF cursor = N - 1 THEN 0 ELSE ready

\* A connection without work of its own takes over half of another one's; no
\* thread is created for it.
StartIdle ==
    /\ pc = "start"
    /\ Remaining(seg, cursor) <= 0
    /\ seg' = Reactivated(seg, cursor)
    /\ AfterStart
    /\ NoFault
    /\ UNCHANGED <<net, threads, bytes_done, disk, good, fds, run, exit, statefile>>

StartConn ==
    /\ pc = "start"
    /\ Remaining(seg, cursor) > 0
    /\ state' = state \cup {cursor}
    /\ CreateThread(cursor, thread)
    /\ AfterStart
    /\ NoFault
    /\ UNCHANGED <<net, lock, file, fds, run, exit, statefile>>

\* pthread_create fails: ready is set to -1, and to 0 again when the loop ends.
StartFail ==
    /\ pc = "start"
    /\ Remaining(seg, cursor) > 0
    /\ Fault("create_at_start")
    /\ state' = state \cup {cursor}
    /\ NextConn("while")
    /\ ready' = IF cursor = N - 1 THEN 0 ELSE -1
    /\ UNCHANGED <<net, lock, tid, thread, file, fds, run, exit, statefile>>

-----------------------------------------------------------------------------
(***************************************************************************)
(* download_one's loop, and the first half of flux_do                      *)
(***************************************************************************)

\* while (!flux->ready && run).  flux_do begins with save_state when
\* save_state_interval has passed; without range support no file is written.
LoopEnter ==
    /\ pc = "while"
    /\ ready = 0 /\ run
    /\ pc' = "scan" /\ cursor' = 0
    /\ \/ UNCHANGED statefile
       \/ server.supported /\ statefile' = TRUE
    /\ NoFault
    /\ UNCHANGED <<net, threads, file, fds, ready, run, exit>>

\* ret = flux->ready ? 0 : 2
LoopLeave ==
    /\ pc = "while"
    /\ ~(ready = 0 /\ run)
    /\ exit' = IF ready # 0 THEN 0 ELSE 2
    /\ pc' = "close" /\ cursor' = 0
    /\ NoFault
    /\ UNCHANGED <<net, threads, file, fds, ready, run, statefile>>

\* A connection whose setup thread holds the lock is skipped.
ScanConn ==
    /\ pc = "scan"
    /\ fds' = IF cursor \notin lock /\ cursor \in enabled THEN fds \cup {fd[cursor]} ELSE fds
    /\ NextConn("select")
    /\ NoFault
    /\ UNCHANGED <<net, threads, file, outcome>>

\* hifd == 0: sleep 100 ms and look at the connections.
SelectNone ==
    /\ pc = "select"
    /\ fds = {}
    /\ pc' = "check"
    /\ NoFault
    /\ UNCHANGED <<net, threads, file, cursor, fds, outcome>>

\* select leaves the descriptors with data, or none after 100 ms.
Select(some) ==
    /\ pc = "select"
    /\ fds # {}
    /\ some \subseteq fds
    /\ fds' = some
    /\ pc' = "handle"
    /\ NoFault
    /\ UNCHANGED <<net, threads, file, cursor, outcome>>

\* The signal handler runs while the main thread is in select: EINTR.
SelectInterrupted ==
    /\ pc = "select"
    /\ fds # {}
    /\ run
    /\ Fault("signal")
    /\ run' = FALSE
    /\ ready' = -1
    /\ fds' = {}
    /\ pc' = "while"
    /\ UNCHANGED <<net, threads, file, cursor, exit, statefile>>

\* The signal handler runs anywhere else in the loop; a sleep is resumed.
Signal ==
    /\ pc \in {"while", "scan", "select", "handle", "check", "tail"}
    /\ run
    /\ Fault("signal")
    /\ run' = FALSE
    /\ UNCHANGED <<net, threads, file, main, ready, exit, statefile>>

-----------------------------------------------------------------------------
(***************************************************************************)
(* flux_do: the connections which need attention                           *)
(***************************************************************************)

\* After the loop: "if (flux->ready) return;".
NextHandled(rdy) ==
    /\ NextConn(IF rdy # 0 THEN "while" ELSE "check")
    /\ fds' = IF cursor = N - 1 THEN {} ELSE fds

Handling(i) == pc = "handle" /\ cursor = i /\ i \notin lock

HandleSkip(i) ==
    /\ pc = "handle" /\ cursor = i
    /\ i \in lock \/ i \notin enabled
    /\ NextHandled(ready)
    /\ NoFault
    /\ UNCHANGED <<net, threads, file, outcome>>

\* No data: fine, or connection_timeout has passed.
HandleQuiet(i) ==
    /\ Handling(i) /\ i \in enabled
    /\ fd[i] \notin fds
    /\ \/ NoFault /\ UNCHANGED net
       \/ Fault("timeout") /\ Disconnect(i)
    /\ NextHandled(ready)
    /\ UNCHANGED <<threads, file, outcome>>

\* tcp_read returns -1.
HandleError(i) ==
    /\ Handling(i) /\ i \in enabled
    /\ fd[i] \in fds
    /\ Fault("read")
    /\ Disconnect(i)
    /\ NextHandled(ready)
    /\ UNCHANGED <<threads, file, outcome>>

\* tcp_read returns 0: the body is over, or the connection was closed early.
HandleEof(i) ==
    /\ Handling(i) /\ i \in enabled
    /\ fd[i] \in fds
    /\ IF stream[i].from < stream[i].to THEN Fault("eof") ELSE NoFault
    /\ ready' = IF server.supported THEN ready ELSE 1
    /\ Disconnect(i)
    /\ seg' = IF Remaining(seg, i) <= 0 THEN Reactivated(seg, i) ELSE seg
    /\ NextHandled(ready')
    /\ UNCHANGED <<threads, bytes_done, disk, good, run, exit, statefile>>

\* The connection is dropped when it has sent more than its segment holds.
Drops(i, n) == Remaining(seg, i) < n

\* The effect of the read on the connection.
Consume(i, n) ==
    IF Drops(i, n) THEN Disconnect(i)
    ELSE /\ stream' = [stream EXCEPT ![i].from = @ + n]
         /\ UNCHANGED <<enabled, fd>>

\* It takes over other work only once it has been dropped: a connection that
\* has sent exactly its segment is still enabled, and left alone.
Reuses_StillEnabled(i, n) == Remaining(seg, i) <= n
Reuses(i, n) == Remaining(seg, i) < n

\* tcp_read returns n bytes: those that belong to the segment are written at
\* currentbyte, which is their place only if the stream has got that far too.
HandleData(i, n) ==
    LET advanced == Advanced(seg, i, Kept(seg, i, n))
    IN  /\ Handling(i) /\ i \in enabled
        /\ fd[i] \in fds
        /\ n <= stream[i].to - stream[i].from
        /\ Consume(i, n)
        /\ disk' = disk \cup Written(seg, i, n)
        /\ good' = IF stream[i].from = seg[i].currentbyte THEN good \cup Written(seg, i, n)
                                                           ELSE good \ Written(seg, i, n)
        /\ bytes_done' = bytes_done + Kept(seg, i, n)
        /\ seg' = IF Reuses(i, n) THEN Reactivated(advanced, i) ELSE advanced
        /\ NextHandled(ready)
        /\ NoFault
        /\ UNCHANGED <<threads, outcome>>

\* write() fails or is short: nothing is counted and flux_do returns.
HandleWriteError(i, n) ==
    /\ Handling(i) /\ i \in enabled
    /\ fd[i] \in fds
    /\ n <= stream[i].to - stream[i].from
    /\ Fault("write")
    /\ Consume(i, n)
    /\ ready' = -1
    /\ pc' = "while" /\ cursor' = 0 /\ fds' = {}
    /\ UNCHANGED <<threads, file, run, exit, statefile>>

Handle(i) ==
    \/ HandleSkip(i) \/ HandleQuiet(i) \/ HandleError(i) \/ HandleEof(i)
    \/ \E n \in 1..BufferSize : HandleData(i, n) \/ HandleWriteError(i, n)

-----------------------------------------------------------------------------
(***************************************************************************)
(* flux_do: conn_check and the tail                                        *)
(***************************************************************************)

NeedsRestart_Enabled(i) == Remaining(seg, i) > 0
NeedsRestart(i) == i \notin enabled /\ Remaining(seg, i) > 0

Checking_NoTrylock(i) == pc = "check" /\ cursor = i
Checking(i) == pc = "check" /\ cursor = i /\ i \notin lock

CheckSkip(i) ==
    /\ pc = "check" /\ cursor = i
    /\ i \in lock \/ ~NeedsRestart(i)
    /\ NextConn("tail")
    /\ NoFault
    /\ UNCHANGED <<net, threads, file, fds, outcome>>

\* A thread is created again for i; table is what joining the old one left.
\* When that fails ready is set, and state stays set.
Recreate(i, table) ==
    /\ state' = state \cup {i}
    /\ \/ CreateThread(i, table) /\ NoFault /\ UNCHANGED ready
       \/ /\ Fault("create") /\ ready' = -1
          /\ thread' = table /\ UNCHANGED tid
    /\ NextConn("tail")
    /\ UNCHANGED <<net, lock, file, fds, run, exit, statefile>>

\* The connection was lost, or its setup failed: its thread has finished and
\* is joined.  pthread_join waits for whatever thread the id stands for.
CheckRestart(i) ==
    /\ Checking(i) /\ NeedsRestart(i)
    /\ i \notin state
    /\ IF Joinable(tid[i])
       THEN thread[tid[i]].at = "exited" /\ Recreate(i, Joined(tid[i]))
       ELSE Recreate(i, thread) \/ (Crash /\ NoFault)

\* Still being set up, by a thread that has not got the lock yet.
CheckWait(i) ==
    /\ Checking(i) /\ NeedsRestart(i)
    /\ i \in state
    /\ NextConn("tail")
    /\ NoFault
    /\ UNCHANGED <<net, threads, file, fds, outcome>>

\* reconnect_delay has passed: the thread is cancelled and joined.
CheckCancel(i) ==
    /\ Checking(i) /\ NeedsRestart(i)
    /\ i \in state
    /\ Fault("expire")
    /\ \/ /\ state' = state \ {i}
          /\ thread' = IF Joinable(tid[i]) THEN Joined(tid[i]) ELSE thread
          /\ NextConn("tail")
          /\ UNCHANGED <<net, lock, tid, file, fds, outcome>>
       \/ ~Joinable(tid[i]) /\ Crash

Check(i) == CheckSkip(i) \/ CheckRestart(i) \/ CheckWait(i) \/ CheckCancel(i)

\* Ready?  (With the test made once no connection has work left to start.)
DoTail_NoneEnabled ==
    /\ pc = "tail"
    /\ ready' = IF enabled = {} /\ state = {} THEN 1 ELSE ready
    /\ pc' = "while"
    /\ NoFault
    /\ UNCHANGED <<net, threads, file, cursor, fds, run, exit, statefile>>

\* Ready?
DoTail ==
    /\ pc = "tail"
    /\ ready' = IF bytes_done = Size THEN 1 ELSE ready
    /\ pc' = "while"
    /\ NoFault
    /\ UNCHANGED <<net, threads, file, cursor, fds, run, exit, statefile>>

-----------------------------------------------------------------------------
(***************************************************************************)
(* flux_close: every thread is cancelled wherever it is, lock held or not  *)
(***************************************************************************)

AfterClose_AnyReady ==
    /\ NextConn("done")
    /\ statefile' = CASE cursor < N - 1 -> statefile
                      [] ready # 0 -> FALSE
                      [] OTHER -> statefile \/ (bytes_done > 0 /\ server.supported)

\* Its unlink, and save_state's open, succeed here and in LoopEnter.
AfterClose ==
    /\ NextConn("done")
    /\ statefile' = CASE cursor < N - 1 -> statefile
                      [] ready = 1 -> FALSE
                      [] OTHER -> statefile \/ (bytes_done > 0 /\ server.supported)

CloseConn(i) ==
    /\ pc = "close" /\ cursor = i
    /\ NoFault
    /\ \/ /\ thread' = IF Joinable(tid[i]) THEN Joined(tid[i]) ELSE thread
          /\ Disconnect(i)
          /\ AfterClose
          /\ UNCHANGED <<state, lock, tid, file, fds, ready, run, exit>>
       \/ tid[i] # NoThread /\ ~Joinable(tid[i]) /\ Crash

-----------------------------------------------------------------------------

Main ==
    \/ StartIdle \/ StartConn \/ StartFail
    \/ LoopEnter \/ LoopLeave
    \/ ScanConn \/ SelectNone \/ SelectInterrupted
    \/ \E some \in SUBSET fds : Select(some)
    \/ \E i \in Conns : Handle(i) \/ Check(i) \/ CloseConn(i)
    \/ DoTail

Next ==
    /\ Main \/ Signal \/ \E t \in Tids : SetupThread(t)
    /\ UNCHANGED server

Spec == Init /\ [][Next]_vars

-----------------------------------------------------------------------------

TypeOK ==
    /\ server \in Servers
    /\ seg \in Layouts(N) /\ N \in 1..Requested
    /\ bytes_done \in 0..Size
    /\ ready \in {-1, 0, 1}
    /\ enabled \subseteq Conns /\ state \subseteq Conns /\ lock \subseteq Conns
    /\ tid \in [Conns -> Tids \cup {NoThread}]
    /\ fd \in [Conns -> Fds \cup {NoFd}]
    /\ stream \in [Conns -> [from : 0..Size, to : 0..Size]]
    /\ thread \in [Tids -> [at : ThreadStates, conn : Conns]]
    /\ pc \in {"start", "while", "scan", "select", "handle", "check", "tail",
               "close", "done", "crashed"}
    /\ cursor \in Conns /\ fds \subseteq Fds
    /\ run \in BOOLEAN /\ exit \in {-1, 0, 2} /\ statefile \in BOOLEAN
    /\ disk \subseteq 0..(Size - 1) /\ good \subseteq 0..(Size - 1)
    /\ faults \in 0..MaxFaults

Downloading == pc \notin {"close", "done", "crashed"}

SetsUp(t, i) == Live(t) /\ thread[t].conn = i

HoldsLock(t) == thread[t].at \in {"locked", "requested"}

\* conn[i].lock is held by exactly one live setup thread of connection i or by
\* nobody: no cancellation inside flux_do ever kills a thread that holds a
\* lock, which would make every later trylock fail and lose the connection.
NoOrphanedLock ==
    Downloading =>
        \A i \in Conns :
            /\ i \in lock <=> \E t \in Tids : HoldsLock(t) /\ thread[t].conn = i
            /\ \A t, u \in Tids :
                  (SetsUp(t, i) /\ SetsUp(u, i)) => t = u

\* The main thread reads a connection only while no setup thread works on it,
\* through a socket no other connection uses.
SocketExclusive ==
    \A i \in enabled :
        /\ fd[i] # NoFd
        /\ \A j \in Conns \ {i} : fd[j] # fd[i]
        /\ Downloading => \A t \in Tids : ~SetsUp(t, i)

\* Each connection downloads its own part of the file: while the download goes
\* on, what the server sends next is the byte the connection writes next.
DownloadsOwnPart ==
    (server.supported /\ ready = 0 /\ ~server.rangeIgnored) =>
        \A i \in enabled : stream[i].from = seg[i].currentbyte

\* However a segment was split, handed over, cut short or fetched again after
\* an error, the bytes on disk are the server's bytes for those offsets.
ContentCorrect ==
    (server.supported /\ ~server.rangeIgnored) => disk \subseteq good

\* An incomplete download of which something was fetched can be resumed, and a
\* completed one leaves no state file behind; as long as the state file can be
\* opened and unlinked, for save_state and flux_close do not care if it cannot.
ResumableOrDone ==
    pc = "done" =>
        /\ ready = 1 => ~statefile
        /\ server.supported /\ ready # 1 /\ bytes_done > 0 => statefile

\* "Returns 0 if completed, 2 if interrupted/incomplete" (download_one).
ExitCodeTruthful == pc = "done" => (exit = 0 <=> bytes_done = Size)

\* "Wait for termination of this thread": the thread that is joined or
\* cancelled for connection i exists, and is the one set up for i.
JoinsItsThread ==
    \A i \in Conns :
        (Checking(i) /\ NeedsRestart(i)) => Joinable(tid[i]) /\ thread[tid[i]].conn = i

Fairness ==
    /\ WF_moving(Main)
    /\ \A t \in Tids : WF_moving(SetupThread(t))
    /\ SF_moving(fds # {} /\ Select(fds))

FairSpec == Spec /\ Fairness

\* With a server that answers, and finitely many faults that can be retried,
\* the download completes.
EventuallyComplete == <>(pc = "done" /\ ready = 1 /\ bytes_done = Size)

\* Nobody reads ready before the last line of flux_start has cleared it.
Abstract == INSTANCE Transfer WITH
    size <- Size, Sizes <- {Size}, Requested <- {Requested},
    ready <- IF pc = "start" THEN 0 ELSE ready

\* What Transfer promises is what the engine does, as long as the first server
\* accepts ranges; that a mirror ignores them changes the content, not this.
ImplementsTransfer ==
    /\ server.supported => Abstract!Init
    /\ [][server.supported => Abstract!Next]_(Abstract!vars)

=============================================================================
