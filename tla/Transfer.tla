------------------------------ MODULE Transfer ------------------------------
(***************************************************************************)
(* What a download promises, whatever its threads and sockets do: the      *)
(* segment table of flux_t over the file on disk.  Every connection writes *)
(* forward from its currentbyte, a connection that runs dry takes half of  *)
(* the largest segment left, and the download is ready (1) only when       *)
(* bytes_done has reached the size of the file.  The server supports       *)
(* ranges (conn[0].supported); FluxEngine, which has the threads, the      *)
(* sockets and the locks, is shown to implement this module.               *)
(***************************************************************************)
EXTENDS FluxLayout

CONSTANTS Sizes,        \* sizes of the file on the server (flux->size)
          Requested,    \* values of conf->num_connections when flux_open runs
          BufferSize    \* conf->buffer_size: the most one read returns

ASSUME TransferAssumption ==
    /\ Sizes \subseteq Nat \ {0}
    /\ Requested \subseteq 1..MinChunkWorth
    /\ BufferSize \in Nat \ {0}

VARIABLES size,        \* flux->size
          seg,         \* conn[].currentbyte, conn[].lastbyte
          bytes_done,  \* flux->bytes_done
          disk,        \* the offsets of the local file that hold fetched data
          ready        \* flux->ready: 0 running, 1 complete, -1 given up

vars == <<size, seg, bytes_done, disk, ready>>

Conns == DOMAIN seg

-----------------------------------------------------------------------------

\* flux_open has divided the file, or read back the table an earlier run saved;
\* all-zero progress is the fresh download.
Init ==
    /\ size \in Sizes
    /\ \E n \in Requested :
          LET fresh == Divide(size, n)
          IN  /\ seg \in PartlyDone(fresh, size)
              /\ disk = Todo(fresh) \ Todo(seg)
    /\ bytes_done = Cardinality(disk)
    /\ ready = 0

\* A read of n bytes on connection i is written at its currentbyte; when that
\* empties its segment the connection may take over half of another one.
Deliver(i, n) ==
    LET advanced == Advanced(seg, i, Kept(seg, i, n))
    IN  /\ ready = 0
        /\ disk' = disk \cup Written(seg, i, n)
        /\ bytes_done' = bytes_done + Kept(seg, i, n)
        /\ \/ seg' = advanced
           \/ /\ Remaining(advanced, i) <= 0
              /\ seg' = Reactivated(advanced, i)
        /\ UNCHANGED <<size, ready>>

\* A connection with nothing left to fetch takes over half of another one.
Reactivate(i) ==
    /\ ready = 0
    /\ Remaining(seg, i) <= 0
    /\ seg' = Reactivated(seg, i)
    /\ UNCHANGED <<size, bytes_done, disk, ready>>

\* The tail of flux_do.
Complete_Approximately ==
    /\ ready = 0
    /\ bytes_done + MinChunkWorth > size
    /\ ready' = 1
    /\ UNCHANGED <<size, seg, bytes_done, disk>>
Complete ==
    /\ ready = 0
    /\ bytes_done = size
    /\ ready' = 1
    /\ UNCHANGED <<size, seg, bytes_done, disk>>

\* A write error, an interrupted select, a thread that cannot be created.
GiveUp ==
    /\ ready = 0
    /\ ready' = -1
    /\ UNCHANGED <<size, seg, bytes_done, disk>>

Next ==
    \/ \E i \in Conns, n \in 1..BufferSize : Deliver(i, n)
    \/ \E i \in Conns : Reactivate(i)
    \/ Complete
    \/ GiveUp

Spec == Init /\ [][Next]_vars

-----------------------------------------------------------------------------

TypeOK ==
    /\ size \in Nat
    /\ \E m \in 1..MinChunkWorth : seg \in Layouts(m)
    /\ bytes_done \in 0..size
    /\ disk \subseteq Nat
    /\ ready \in {-1, 0, 1}

\* No two connections are ever responsible for the same byte (flux_divide and
\* reactivate_connection hand out disjoint segments), and no segment is
\* negative: a steal never leaves a victim behind its own currentbyte.
SegmentsDisjoint == Disjoint(seg)

\* Nothing is lost and nothing is fetched twice: at any time the bytes on disk
\* and the bytes the connections still owe are exactly the file.
NothingLost ==
    /\ disk \cup Todo(seg) = 0..(size - 1)
    /\ disk \cap Todo(seg) = {}

\* flux->bytes_done, on which flux_do decides that it is ready, counts every
\* byte on disk once, however segments were split and handed over.
BytesDoneExact == bytes_done = Cardinality(disk)

\* A download that reports itself complete has fetched every byte of the file.
CompleteMeansWhole == ready = 1 => disk = 0..(size - 1)

=============================================================================
