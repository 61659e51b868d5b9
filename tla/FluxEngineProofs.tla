-------------------------- MODULE FluxEngineProofs --------------------------
(***************************************************************************)
(* What FluxEngine keeps to, for every size of the file and of the buffer, *)
(* every number of connections up to MIN_CHUNK_WORTH, every kind of server *)
(* and any number of faults; and that it implements Transfer.              *)
(***************************************************************************)
EXTENDS FluxEngine, FluxLayoutProofs, WellFoundedInduction

(* The table, the counter and the disk, as in Transfer, whatever the server. *)
FileInv ==
    /\ Disjoint(seg)
    /\ \A i \in Conns : seg[i].lastbyte <= Size
    /\ disk \cup Todo(seg) = 0..(Size - 1)
    /\ disk \cap Todo(seg) = {}
    /\ bytes_done = Cardinality(disk)

(* Where the main thread is says something of ready and of its loop variable. *)
MainInv ==
    /\ pc \in {"while", "select", "tail"} => cursor = 0
    /\ pc \in {"scan", "select"} => ready = 0
    /\ pc = "handle" /\ server.supported => ready = 0
    /\ pc \in {"check", "tail"} => ready \in {0, -1}
    /\ pc \in {"check", "tail"} /\ ready = -1 => \E i \in Conns : Remaining(seg, i) > 0
    /\ server.supported /\ ready = 1 => bytes_done = Size

(* flux_start has not got that far. *)
StartInv ==
    pc = "start" => \A i \in Conns : i >= cursor => /\ i \notin state \cup enabled
                                                    /\ tid[i] = NoThread

(* pthread_create has failed for a connection: the loop is on its way out. *)
Leaving(i) == ready # 0 /\ pc # "start" /\ (pc = "check" => i < cursor)

InLoop == pc \in {"start", "while", "scan", "select", "handle", "check", "tail"}

(* A live thread is the one its connection knows, and holds that connection's *)
(* lock or none; a connection whose state is set has a live thread, unless it *)
(* could not be created.  This is what keeps a cancellation away from a thread *)
(* that holds a lock.                                                         *)
ThreadInv ==
    /\ \A t \in Tids : Live(t) => thread[t].conn \in state /\ tid[thread[t].conn] = t
    /\ \A t \in Tids : HoldsLock(t) => thread[t].conn \in lock
    /\ InLoop => \A i \in lock : tid[i] # NoThread /\ HoldsLock(tid[i]) /\ thread[tid[i]].conn = i
    /\ InLoop => \A i \in state : \/ Leaving(i)
                                  \/ tid[i] = NoThread
                                  \/ Live(tid[i]) /\ thread[tid[i]].conn = i

(* A descriptor belongs to one connection: to one that is enabled, or to one   *)
(* whose thread waits for the reply.                                          *)
FdInv ==
    /\ \A i \in enabled : fd[i] # NoFd /\ i \notin state
    /\ \A i, j \in Conns : i # j /\ fd[i] # NoFd => fd[i] # fd[j]
    /\ \A t \in Tids : thread[t].at \in {"created", "locked"} => fd[thread[t].conn] = NoFd
    /\ \A t \in Tids : thread[t].at = "requested" => fd[thread[t].conn] # NoFd
    /\ InLoop => \A i \in Conns : fd[i] # NoFd => \/ i \in enabled
                                                  \/ \E t \in Tids : thread[t].at = "requested" /\ thread[t].conn = i

(* What the server sends next is what the connection writes next, from the     *)
(* request on.                                                                *)
StreamInv ==
    (server.supported /\ ~server.rangeIgnored /\ (ready = 0 \/ pc = "start")) =>
        /\ \A i \in enabled : stream[i].from = seg[i].currentbyte
        /\ \A t \in Tids : thread[t].at = "requested" =>
              stream[thread[t].conn].from = seg[thread[t].conn].currentbyte

IInv ==
    /\ TypeOK
    /\ FileInv
    /\ MainInv
    /\ StartInv
    /\ ThreadInv
    /\ FdInv
    /\ StreamInv
    /\ ContentCorrect
    /\ ResumableOrDone

-----------------------------------------------------------------------------
(***************************************************************************)
(* Lemmas about the operators                                              *)
(***************************************************************************)

(* There is a lowest free descriptor if there is a free one. *)
LEMMA LowestExists ==
    ASSUME NEW S \in SUBSET Nat, S # {}
    PROVE  (CHOOSE f \in S : \A g \in S : f <= g) \in S
  <1>1. PICK f \in S : \A g \in S : ~ (<<g, f>> \in OpToRel(<, Nat))
    BY NatLessThanWellFounded, WFMin
  <1>2. ASSUME NEW g \in S PROVE f <= g
    <2>1. \A ss \in Nat \X Nat : ss[1] < ss[2] => ss \in OpToRel(<, Nat)
      BY DEF OpToRel
    <2>2. <<g, f>> \in Nat \X Nat /\ <<g, f>>[1] = g /\ <<g, f>>[2] = f
      OBVIOUS
    <2>3. ~ (g < f)
      BY <1>1, <2>1, <2>2
    <2> QED
      BY <2>3
  <1> QED
    BY <1>1, <1>2

(* A table that owes something has a segment that does, and one that owes      *)
(* nothing has none.                                                          *)
LEMMA RemainingTodo ==
    ASSUME NEW m \in Nat, NEW s \in Layouts(m)
    PROVE  (\E i \in 0..(m - 1) : Remaining(s, i) > 0) <=> Todo(s) # {}
  <1>1. \A i \in 0..(m - 1) : s[i].currentbyte \in Nat /\ s[i].lastbyte \in Nat
    BY DEF Layouts, Segment
  <1>2. DOMAIN s = 0..(m - 1)
    BY DEF Layouts
  <1>3. ASSUME NEW i \in 0..(m - 1), Remaining(s, i) > 0 PROVE s[i].currentbyte \in Todo(s)
    <2>1. s[i].currentbyte \in Span(s, i)
      BY <1>1, <1>3 DEF Span, Remaining
    <2> QED
      BY <1>2, <2>1 DEF Todo
  <1>4. ASSUME NEW x \in Todo(s) PROVE \E i \in 0..(m - 1) : Remaining(s, i) > 0
    <2>1. PICK i \in 0..(m - 1) : x \in Span(s, i)
      BY <1>2 DEF Todo
    <2> QED
      BY <2>1, <1>1 DEF Span, Remaining
  <1> QED
    BY <1>3, <1>4

(* A saved table has the ends of the fresh one; the fresh one is among those    *)
(* that may be saved.                                                         *)
LEMMA PartlyDoneBounds ==
    ASSUME NEW m \in Nat, NEW fresh \in Layouts(m), NEW size \in Nat
    PROVE  /\ \A s \in PartlyDone(fresh, size) : \A i \in 0..(m - 1) : s[i].lastbyte = fresh[i].lastbyte
           /\ (\E i \in 0..(m - 1) : Remaining(fresh, i) > 0)
              /\ (\A i \in 0..(m - 1) : Remaining(fresh, i) >= 0)
              => fresh \in PartlyDone(fresh, size)
  <1>1. DOMAIN fresh = 0..(m - 1) /\ \A i \in 0..(m - 1) : fresh[i] \in Segment
    BY DEF Layouts
  <1>2. ASSUME NEW s \in PartlyDone(fresh, size), NEW i \in 0..(m - 1)
        PROVE  s[i].lastbyte = fresh[i].lastbyte
    <2>1. PICK done \in [DOMAIN fresh -> 0..size] :
                 s = [k \in DOMAIN fresh |-> [fresh[k] EXCEPT !.currentbyte = @ + done[k]]]
      BY DEF PartlyDone
    <2> QED
      BY <2>1, <1>1 DEF Segment
  <1>3. ASSUME \E i \in 0..(m - 1) : Remaining(fresh, i) > 0,
               \A i \in 0..(m - 1) : Remaining(fresh, i) >= 0
        PROVE  fresh \in PartlyDone(fresh, size)
    <2> DEFINE none == [k \in DOMAIN fresh |-> 0]
               table == [k \in DOMAIN fresh |-> [fresh[k] EXCEPT !.currentbyte = @ + none[k]]]
    <2>1. /\ none \in [DOMAIN fresh -> 0..size]
          /\ \A k \in DOMAIN fresh : none[k] <= Remaining(fresh, k)
          /\ \E k \in DOMAIN fresh : none[k] < Remaining(fresh, k)
      BY <1>1, <1>3
    <2>2. \A k \in DOMAIN fresh : [fresh[k] EXCEPT !.currentbyte = @ + none[k]] = fresh[k]
      BY <1>1 DEF Segment
    <2>3. table = [k \in DOMAIN fresh |-> fresh[k]]
      BY <2>2
    <2>4. table = fresh
      BY <2>3, <1>1 DEF Layouts
    <2> HIDE DEF none
    <2> QED
      BY <2>1, <2>4 DEF PartlyDone
  <1> QED
    BY <1>2, <1>3

-----------------------------------------------------------------------------
(***************************************************************************)
(* The initial states                                                      *)
(***************************************************************************)

(* The connections are 0..N-1. *)
LEMMA Shape ==
    ASSUME NEW m \in Nat, seg \in Layouts(m)
    PROVE  N = m /\ Conns = 0..(m - 1)
  <1>1. Conns = 0..(m - 1)
    BY DEF Conns, Layouts
  <1>2. Cardinality(0..(m - 1)) = m
    BY FS_Interval
  <1> QED
    BY <1>1, <1>2 DEF N

LEMMA InitTable ==
    ASSUME Init
    PROVE  /\ N \in 1..Requested /\ N \in Nat /\ seg \in Layouts(N)
           /\ FileInv
           /\ disk \in SUBSET (0..(Size - 1))
           /\ Size \in Nat \ {0}
  <1> DEFINE n == IF server.supported THEN Requested ELSE 1
             m == DivideConns(Size, n)
  <1>1. Size \in Nat \ {0} /\ n \in 1..MinChunkWorth /\ n \in 1..Requested
    BY EngineAssumption, ChunkAssumption
  <1>2. Fresh = Divide(Size, n)
    BY DEF Fresh
  <1> HIDE DEF n
  <1>3. m \in 1..n
    BY <1>1, DivideSums
  <1>4. m \in Nat /\ m \in 1..Requested
    BY <1>1, <1>3, EngineAssumption, ChunkAssumption
  <1>5. /\ Fresh \in Layouts(m)
        /\ Disjoint(Fresh)
        /\ Todo(Fresh) = 0..(Size - 1)
    BY <1>1, <1>2, DividePartitions
  <1>6. \A i \in 0..(m - 1) : Fresh[i].lastbyte <= Size
    BY <1>1, <1>2, DivideBounds
  <1> HIDE DEF m
  <1>7. /\ seg \in Layouts(m)
        /\ Disjoint(seg)
        /\ Todo(seg) \subseteq Todo(Fresh)
        /\ \A i \in 0..(m - 1) : seg[i].lastbyte <= Size
    <2>1. CASE statefile
      <3>1. seg \in PartlyDone(Fresh, Size)
        BY <2>1 DEF Init
      <3> QED
        BY <3>1, <1>1, <1>4, <1>5, <1>6, PartlyDonePreserves, PartlyDoneBounds
    <2>2. CASE ~statefile
      BY <2>2, <1>5, <1>6 DEF Init
    <2> QED
      BY <2>1, <2>2
  <1>8. N = m /\ Conns = 0..(m - 1)
    BY <1>4, <1>7, Shape
  <1>9. disk = Todo(Fresh) \ Todo(seg) /\ bytes_done = Cardinality(disk)
    BY DEF Init
  <1> QED
    BY <1>1, <1>4, <1>5, <1>7, <1>8, <1>9 DEF FileInv

LEMMA InitIInv == Init => IInv
  <1> SUFFICES ASSUME Init PROVE IInv
    OBVIOUS
  <1>1. /\ N \in 1..Requested /\ N \in Nat /\ seg \in Layouts(N)
        /\ FileInv
        /\ disk \in SUBSET (0..(Size - 1))
        /\ Size \in Nat \ {0}
    BY InitTable
  <1>2. Conns = 0..(N - 1)
    BY <1>1, Shape
  <1>3. bytes_done \in 0..Size
    BY <1>1, OffsetsOfFile DEF FileInv
  <1>4. MaxFaults \in Nat
    BY EngineAssumption
  <1>5. server \in Servers /\ ready = 0 /\ pc = "start" /\ cursor = 0 /\ fds = {} /\ run = TRUE /\ exit = -1 /\ faults = 0
        /\ enabled = {} /\ state = {} /\ lock = {} /\ good = disk
        /\ tid = [i \in Conns |-> NoThread]
        /\ fd = [i \in Conns |-> NoFd]
        /\ stream = [i \in Conns |-> [from |-> 0, to |-> 0]]
        /\ thread = [t \in Tids |-> [at |-> "free", conn |-> 0]]
    BY DEF Init
  <1>6. statefile \in BOOLEAN
    BY EngineAssumption DEF Init
  <1>7. TypeOK
    BY <1>1, <1>2, <1>3, <1>4, <1>5, <1>6 DEF TypeOK, ThreadStates
  <1>8. MainInv /\ StartInv
    BY <1>5 DEF MainInv, StartInv
  <1>9. ThreadInv
    BY <1>5 DEF ThreadInv, Live, HoldsLock
  <1>10. FdInv /\ StreamInv
    BY <1>5 DEF FdInv, StreamInv
  <1>11. ContentCorrect /\ ResumableOrDone
    BY <1>5 DEF ContentCorrect, ResumableOrDone
  <1> QED
    BY <1>1, <1>7, <1>8, <1>9, <1>10, <1>11 DEF IInv

-----------------------------------------------------------------------------
(***************************************************************************)
(* The table, the counter and the disk                                     *)
(***************************************************************************)

LEMMA Types ==
    ASSUME IInv
    PROVE  /\ N \in 1..Requested /\ N \in Nat /\ Requested \in Nat /\ Size \in Nat \ {0} /\ BufferSize \in Nat
           /\ Conns = 0..(N - 1) /\ 0 \in Conns /\ cursor \in 0..(N - 1)
           /\ seg \in Layouts(N)
           /\ \A i \in Conns : seg[i].currentbyte \in Nat /\ seg[i].lastbyte \in Nat
           /\ bytes_done \in Nat
           /\ disk \in SUBSET (0..(Size - 1))
           /\ Disjoint(seg)
  <1>1. N \in 1..Requested /\ seg \in Layouts(N) /\ Disjoint(seg) /\ disk \in SUBSET (0..(Size - 1))
        /\ bytes_done \in 0..Size /\ cursor \in Conns
    BY DEF IInv, TypeOK, FileInv
  <1>2. Requested \in Nat /\ Size \in Nat \ {0} /\ BufferSize \in Nat
    BY EngineAssumption, ChunkAssumption
  <1>3. Conns = 0..(N - 1)
    BY <1>1, <1>2, Shape
  <1>4. \A i \in Conns : seg[i].currentbyte \in Nat /\ seg[i].lastbyte \in Nat
    BY <1>1, <1>3 DEF Layouts, Segment
  <1> QED
    BY <1>1, <1>2, <1>3, <1>4

(* What is kept of the table from one step to the next. *)
TableKept ==
    /\ seg' \in Layouts(N) /\ Conns' = Conns /\ N' = N
    /\ FileInv'
    /\ bytes_done' \in 0..Size
    /\ disk' \in SUBSET (0..(Size - 1))

(* A read: the bytes kept leave the table and enter the disk. *)
LEMMA ReadTable ==
    ASSUME IInv, NEW i \in Conns, NEW n \in 1..BufferSize, HandleData(i, n)
    PROVE  /\ TableKept
           /\ \A k \in Conns : k # i => seg'[k].currentbyte = seg[k].currentbyte
           /\ ~Drops(i, n) => seg'[i].currentbyte = seg[i].currentbyte + n
  <1> DEFINE len == Kept(seg, i, n)
             advanced == Advanced(seg, i, len)
             written == Written(seg, i, n)
  <1>1. /\ N \in Nat /\ Size \in Nat /\ Conns = 0..(N - 1) /\ seg \in Layouts(N) /\ Disjoint(seg)
        /\ i \in 0..(N - 1) /\ n \in Nat
        /\ \A k \in Conns : seg[k].currentbyte \in Nat /\ seg[k].lastbyte \in Nat
    BY Types
  <1>2. /\ len \in Nat /\ len <= Remaining(seg, i)
        /\ written = seg[i].currentbyte .. (seg[i].currentbyte + len - 1)
        /\ Drops(i, n) => len = Remaining(seg, i)
        /\ ~Drops(i, n) => len = n
    <2>1. seg[i].currentbyte <= seg[i].lastbyte
      BY <1>1 DEF Disjoint, Conns
    <2> QED
      BY <1>1, <2>1 DEF Kept, Remaining, Written, Drops
  <1>3. /\ disk' = disk \cup written
        /\ bytes_done' = bytes_done + len
        /\ seg' = IF Drops(i, n) THEN Reactivated(advanced, i) ELSE advanced
    BY DEF HandleData, Reuses, Drops
  <1> HIDE DEF len, written
  <1>4. /\ advanced \in Layouts(N)
        /\ Disjoint(advanced)
        /\ Todo(advanced) = Todo(seg) \ written
        /\ written \subseteq Todo(seg)
    BY <1>1, <1>2, AdvancedPreserves
  <1>5. /\ \A k \in 0..(N - 1) : advanced[k].lastbyte = seg[k].lastbyte
        /\ \A k \in 0..(N - 1) : k # i => advanced[k].currentbyte = seg[k].currentbyte
        /\ advanced[i].currentbyte = seg[i].currentbyte + len
    BY <1>1 DEF Advanced, Layouts, Segment
  <1>6. \A k \in 0..(N - 1) : seg[k].lastbyte <= Size
    BY <1>1 DEF IInv, FileInv
  <1> HIDE DEF advanced
  <1>7. Drops(i, n) => Remaining(advanced, i) <= 0
    BY <1>1, <1>2, <1>5 DEF Remaining
  <1>8. /\ seg' \in Layouts(N) /\ Disjoint(seg') /\ Todo(seg') = Todo(seg) \ written
        /\ \A k \in 0..(N - 1) : seg'[k].lastbyte <= Size
        /\ \A k \in 0..(N - 1) : k # i => seg'[k].currentbyte = seg[k].currentbyte
        /\ ~Drops(i, n) => seg'[i].currentbyte = seg[i].currentbyte + n
    <2>1. CASE Drops(i, n)
      <3>1. seg' = Reactivated(advanced, i)
        BY <2>1, <1>3
      <3>2. /\ Reactivated(advanced, i) \in Layouts(N)
            /\ Disjoint(Reactivated(advanced, i))
            /\ Todo(Reactivated(advanced, i)) = Todo(advanced)
        BY <2>1, <1>1, <1>4, <1>7, ReactivatedPreserves
      <3>3. \A k \in 0..(N - 1) : advanced[k].lastbyte <= Size
        BY <1>5, <1>6
      <3>4. \A k \in 0..(N - 1) : /\ Reactivated(advanced, i)[k].lastbyte <= Size
                                  /\ k # i => Reactivated(advanced, i)[k].currentbyte = advanced[k].currentbyte
        <4>1. Remaining(advanced, i) <= 0
          BY <2>1, <1>7
        <4>2. N \in Nat /\ i \in 0..(N - 1) /\ Size \in Nat /\ advanced \in Layouts(N)
          BY <1>1, <1>4
        <4> QED
          BY <4>1, <4>2, <3>3, ReactivatedBounds
      <3> QED
        BY <2>1, <3>1, <3>2, <3>4, <1>4, <1>5
    <2>2. CASE ~Drops(i, n)
      BY <2>2, <1>2, <1>3, <1>4, <1>5, <1>6
    <2> QED
      BY <2>1, <2>2
  <1>9. /\ disk \cup Todo(seg) = 0..(Size - 1)
        /\ disk \cap Todo(seg) = {}
        /\ bytes_done = Cardinality(disk)
    BY DEF IInv, FileInv
  <1>10. /\ disk' \cup Todo(seg') = 0..(Size - 1)
         /\ disk' \cap Todo(seg') = {}
         /\ disk' \in SUBSET (0..(Size - 1))
    BY <1>3, <1>4, <1>8, <1>9
  <1>11. Cardinality(disk') = Cardinality(disk) + len
    <2>1. IsFiniteSet(disk) /\ Cardinality(disk) \in Nat
      BY <1>1, <1>9, OffsetsOfFile, Types
    <2>2. IsFiniteSet(written) /\ Cardinality(written) = len
      <3> DEFINE first == seg[i].currentbyte
                 final == first + len - 1
      <3>1. first \in Int /\ final \in Int /\ final - first + 1 = len /\ (first > final <=> len = 0)
        BY <1>1, <1>2
      <3> HIDE DEF first, final
      <3>2. /\ IsFiniteSet(first..final)
            /\ Cardinality(first..final) = IF first > final THEN 0 ELSE final - first + 1
        BY <3>1, FS_Interval
      <3> QED
        BY <3>1, <3>2, <1>2 DEF first, final
    <2>3. Cardinality(disk \cap written) = 0
      <3>1. disk \cap written = {}
        BY <1>4, <1>9
      <3> QED
        BY <3>1, FS_EmptySet
    <2>4. Cardinality(disk \cup written) = Cardinality(disk) + len - 0
      BY <2>1, <2>2, <2>3, FS_Union
    <2> QED
      BY <2>1, <2>4, <1>2, <1>3
  <1>12. Conns' = Conns /\ N' = N
    <2>1. DOMAIN seg' = DOMAIN seg
      BY <1>1, <1>8 DEF Layouts
    <2> QED
      BY <2>1 DEF Conns, N
  <1>13. FileInv'
    BY <1>1, <1>3, <1>8, <1>9, <1>10, <1>11, <1>12 DEF FileInv
  <1>14. bytes_done' \in 0..Size
    <2>1. Cardinality(disk') \in 0..Size
      BY <1>1, <1>10, OffsetsOfFile
    <2> QED
      BY <2>1, <1>13 DEF FileInv
  <1> QED
    BY <1>1, <1>8, <1>10, <1>12, <1>13, <1>14 DEF TableKept

(* A connection without work takes over half of another one's. *)
LEMMA TakeTable ==
    ASSUME IInv, NEW i \in Conns, Remaining(seg, i) <= 0,
           seg' = Reactivated(seg, i), UNCHANGED <<bytes_done, disk>>
    PROVE  /\ TableKept
           /\ \A k \in Conns : k # i => seg'[k].currentbyte = seg[k].currentbyte
  <1>1. /\ N \in Nat /\ Size \in Nat /\ Conns = 0..(N - 1) /\ seg \in Layouts(N) /\ Disjoint(seg)
        /\ i \in 0..(N - 1) /\ disk \in SUBSET (0..(Size - 1))
    BY Types
  <1>2. /\ \A k \in 0..(N - 1) : seg[k].lastbyte <= Size
        /\ disk \cup Todo(seg) = 0..(Size - 1)
        /\ disk \cap Todo(seg) = {}
        /\ bytes_done = Cardinality(disk) /\ bytes_done \in 0..Size
    BY <1>1 DEF IInv, FileInv, TypeOK
  <1>3. seg' \in Layouts(N) /\ Disjoint(seg') /\ Todo(seg') = Todo(seg)
    BY <1>1, ReactivatedPreserves
  <1>4. \A k \in 0..(N - 1) : /\ seg'[k].lastbyte <= Size
                              /\ k # i => seg'[k].currentbyte = seg[k].currentbyte
    <2>1. \A k \in 0..(N - 1) : /\ Reactivated(seg, i)[k].lastbyte <= Size
                                /\ k # i => Reactivated(seg, i)[k].currentbyte = seg[k].currentbyte
      BY <1>1, <1>2, ReactivatedBounds
    <2> QED
      BY <2>1
  <1>5. Conns' = Conns /\ N' = N
    <2>1. DOMAIN seg' = DOMAIN seg
      BY <1>1, <1>3 DEF Layouts
    <2> QED
      BY <2>1 DEF Conns, N
  <1>6. FileInv'
    BY <1>1, <1>2, <1>3, <1>4, <1>5 DEF FileInv
  <1> QED
    BY <1>1, <1>2, <1>3, <1>4, <1>5, <1>6 DEF TableKept

(* Only flux_start, the end of a body and a read touch the table. *)
LEMMA TableFrame ==
    ASSUME [Next]_vars
    PROVE  \/ UNCHANGED file
           \/ StartIdle
           \/ \E i \in Conns : HandleEof(i)
           \/ \E i \in Conns, n \in 1..BufferSize : HandleData(i, n)
  <1>1. ASSUME NEW i \in Conns, Handle(i)
        PROVE  \/ UNCHANGED file \/ HandleEof(i) \/ \E n \in 1..BufferSize : HandleData(i, n)
    BY <1>1 DEF Handle, HandleSkip, HandleQuiet, HandleError, HandleWriteError
  <1>2. ASSUME NEW i \in Conns, Check(i) PROVE UNCHANGED file
    BY <1>2 DEF Check, CheckSkip, CheckRestart, CheckWait, CheckCancel, Recreate, Crash
  <1>3. ASSUME NEW i \in Conns, CloseConn(i) PROVE UNCHANGED file
    BY <1>3 DEF CloseConn, Crash
  <1>4. ASSUME NEW t \in Tids, SetupThread(t) PROVE UNCHANGED file
    BY <1>4 DEF SetupThread, ThreadLock, ThreadSetup, ThreadExec, ThreadFail
  <1>5. CASE Main
    BY <1>1, <1>2, <1>3, <1>5 DEF Main, StartConn, StartFail, LoopEnter, LoopLeave, ScanConn,
       SelectNone, SelectInterrupted, Select, DoTail, file
  <1>6. CASE Signal
    BY <1>6 DEF Signal, file
  <1>7. CASE UNCHANGED vars
    BY <1>7 DEF vars, moving, file
  <1> QED
    BY <1>4, <1>5, <1>6, <1>7 DEF Next, file

LEMMA TableStep == IInv /\ [Next]_vars => TableKept
  <1> SUFFICES ASSUME IInv, [Next]_vars PROVE TableKept
    OBVIOUS
  <1>1. CASE UNCHANGED <<seg, bytes_done, disk>>
    BY <1>1, Types DEF TableKept, IInv, TypeOK, FileInv, Conns, N
  <1>2. CASE StartIdle
    <2>1. cursor \in Conns
      BY DEF IInv, TypeOK
    <2> QED
      BY <1>2, <2>1, TakeTable DEF StartIdle
  <1>3. ASSUME NEW i \in Conns, HandleEof(i) PROVE TableKept
    <2>1. CASE Remaining(seg, i) <= 0
      BY <1>3, <2>1, TakeTable DEF HandleEof
    <2>2. CASE ~(Remaining(seg, i) <= 0)
      <3>1. UNCHANGED <<seg, bytes_done, disk>>
        BY <1>3, <2>2 DEF HandleEof
      <3> QED
        BY <3>1, <1>1
    <2> QED
      BY <2>1, <2>2
  <1>4. ASSUME NEW i \in Conns, NEW n \in 1..BufferSize, HandleData(i, n) PROVE TableKept
    BY <1>4, ReadTable
  <1> QED
    BY <1>1, <1>2, <1>3, <1>4, TableFrame DEF file

-----------------------------------------------------------------------------
(***************************************************************************)
(* The threads                                                             *)
(***************************************************************************)

LEMMA ThreadTypes ==
    ASSUME IInv
    PROVE  /\ tid \in [Conns -> Tids \cup {NoThread}] /\ NoThread \notin Tids
           /\ thread \in [Tids -> [at : ThreadStates, conn : Conns]]
           /\ \A t \in Tids : thread[t].conn \in Conns
           /\ state \subseteq Conns /\ lock \subseteq Conns /\ enabled \subseteq Conns
           /\ cursor \in Conns
  <1>1. NoThread \notin Tids
    BY Types DEF NoThread, Tids
  <1> QED
    BY <1>1 DEF IInv, TypeOK

LEMMA LoopStays == [Next]_vars /\ InLoop' => InLoop
  <1> SUFFICES ASSUME [Next]_vars, InLoop' PROVE InLoop
    OBVIOUS
  <1>1. ASSUME NEW t \in Tids, SetupThread(t) PROVE UNCHANGED pc
    BY <1>1 DEF SetupThread, ThreadLock, ThreadSetup, ThreadExec, ThreadFail, main
  <1>2. CASE Main
    <2>1. ASSUME NEW i \in Conns, Handle(i) PROVE InLoop
      BY <2>1 DEF Handle, HandleSkip, HandleQuiet, HandleError, HandleEof, HandleData, HandleWriteError, Handling, InLoop
    <2>2. ASSUME NEW i \in Conns, Check(i) PROVE InLoop
      BY <2>2 DEF Check, CheckSkip, CheckRestart, CheckWait, CheckCancel, Checking, InLoop
    <2>3. ASSUME NEW i \in Conns, CloseConn(i) PROVE FALSE
      BY <2>3 DEF CloseConn, Crash, AfterClose, NextConn, InLoop
    <2> QED
      BY <1>2, <2>1, <2>2, <2>3 DEF Main, StartIdle, StartConn, StartFail, LoopEnter, LoopLeave, ScanConn,
         SelectNone, SelectInterrupted, Select, DoTail, InLoop
  <1>3. CASE Signal
    BY <1>3 DEF Signal, InLoop
  <1>4. CASE UNCHANGED vars
    BY <1>4 DEF vars, moving, main, InLoop
  <1> QED
    BY <1>1, <1>2, <1>3, <1>4 DEF Next, InLoop

(* Once the loop is on its way out it stays so. *)
LEMMA LeavingStays ==
    ASSUME IInv, [Next]_vars, NEW i \in Conns, Leaving(i)
    PROVE  Leaving(i)'
  <1>1. /\ i \in 0..(N - 1) /\ N \in Nat /\ cursor \in 0..(N - 1)
        /\ ready # 0 /\ pc # "start" /\ (pc = "check" => i < cursor)
    BY Types DEF Leaving
  <1>2. ASSUME NEW t \in Tids, SetupThread(t) PROVE UNCHANGED <<pc, cursor, ready>>
    BY <1>2 DEF SetupThread, ThreadLock, ThreadSetup, ThreadExec, ThreadFail, main, outcome
  <1>3. CASE Main
    <2>1. ASSUME NEW j \in Conns, Handle(j) PROVE Leaving(i)'
      BY <1>1, <2>1 DEF Leaving, Handle, HandleSkip, HandleQuiet, HandleError, HandleEof, HandleData,
         HandleWriteError, Handling, NextHandled, NextConn, outcome
    <2>2. ASSUME NEW j \in Conns, Check(j) PROVE Leaving(i)'
      BY <1>1, <2>2 DEF Leaving, Check, CheckSkip, CheckRestart, CheckWait, CheckCancel, Checking, Recreate,
         Crash, NextConn, outcome
    <2>3. ASSUME NEW j \in Conns, CloseConn(j) PROVE Leaving(i)'
      BY <1>1, <2>3 DEF Leaving, CloseConn, Crash, AfterClose, NextConn, outcome
    <2>4. MainInv
      BY DEF IInv
    <2> QED
      BY <1>1, <1>3, <2>1, <2>2, <2>3, <2>4 DEF Leaving, MainInv, Main, StartIdle, StartConn, StartFail,
         LoopEnter, LoopLeave, ScanConn, SelectNone, SelectInterrupted, Select, DoTail, NextConn, outcome
  <1>4. CASE Signal
    BY <1>1, <1>4 DEF Signal, Leaving, main
  <1>5. CASE UNCHANGED vars
    BY <1>1, <1>5 DEF vars, moving, main, outcome, Leaving
  <1> QED
    BY <1>1, <1>2, <1>3, <1>4, <1>5 DEF Next, Leaving

LEMMA ThreadFrame ==
    ASSUME [Next]_vars
    PROVE  \/ UNCHANGED threads
           \/ StartConn \/ StartFail
           \/ \E t \in Tids : SetupThread(t)
           \/ \E i \in Conns : CheckRestart(i) \/ CheckCancel(i) \/ CloseConn(i)
  <1>1. ASSUME NEW i \in Conns, Handle(i) PROVE UNCHANGED threads
    BY <1>1 DEF Handle, HandleSkip, HandleQuiet, HandleError, HandleEof, HandleData, HandleWriteError
  <1>2. ASSUME NEW i \in Conns, Check(i) PROVE UNCHANGED threads \/ CheckRestart(i) \/ CheckCancel(i)
    BY <1>2 DEF Check, CheckSkip, CheckWait
  <1>3. CASE Main
    BY <1>1, <1>2, <1>3 DEF Main, StartIdle, LoopEnter, LoopLeave, ScanConn,
       SelectNone, SelectInterrupted, Select, DoTail
  <1>4. CASE Signal
    BY <1>4 DEF Signal
  <1>5. CASE UNCHANGED vars
    BY <1>5 DEF vars, moving
  <1> QED
    BY <1>3, <1>4, <1>5 DEF Next

(* A connection whose state is clear has no live thread. *)
LEMMA NoThreadOf ==
    ASSUME IInv, NEW i \in Conns, i \notin state, NEW t \in Tids, thread[t].conn = i
    PROVE  ~Live(t)
  BY DEF IInv, ThreadInv

(* setup_thread: one thread moves, on behalf of the connection that knows it. *)
LEMMA SetupThreadStep ==
    ASSUME IInv, [Next]_vars, NEW t \in Tids, SetupThread(t)
    PROVE  ThreadInv'
  <1> DEFINE c == thread[t].conn
  <1>1. /\ tid \in [Conns -> Tids \cup {NoThread}] /\ NoThread \notin Tids
        /\ thread \in [Tids -> [at : ThreadStates, conn : Conns]]
        /\ c \in Conns /\ state \subseteq Conns /\ lock \subseteq Conns
    BY ThreadTypes
  <1>2. ThreadInv
    BY DEF IInv
  <1>3. Live(t) /\ tid[c] = t /\ c \in state
    BY <1>2 DEF SetupThread, ThreadLock, ThreadSetup, ThreadExec, ThreadFail, Live, ThreadInv
  <1>4. \A u \in Tids : Live(u) /\ thread[u].conn = c => u = t
    BY <1>2, <1>3 DEF ThreadInv
  <1>5. UNCHANGED <<tid, pc, cursor, ready>>
    BY DEF SetupThread, ThreadLock, ThreadSetup, ThreadExec, ThreadFail, ThreadExit, main, outcome
  <1>6. InLoop' = InLoop /\ \A i \in Conns : Leaving(i)' = Leaving(i)
    BY <1>5 DEF InLoop, Leaving
  <1>7. CASE ThreadLock(t)
    <2>1. state' = state /\ lock' = lock \cup {c} /\ thread' = [thread EXCEPT ![t].at = "locked"]
      BY <1>7 DEF ThreadLock
    <2>2. \A u \in Tids : Live(u)' <=> Live(u)
      BY <1>1, <1>3, <2>1 DEF Live, ThreadStates
    <2>3. \A u \in Tids : thread'[u].conn = thread[u].conn /\ (u # t => thread'[u].at = thread[u].at)
                          /\ thread'[t].at = "locked"
      BY <1>1, <2>1
    <2> QED
      BY <1>1, <1>2, <1>3, <1>4, <1>5, <1>6, <2>1, <2>2, <2>3 DEF ThreadInv, HoldsLock
  <1>8. CASE ThreadSetup(t)
    <2>1. state' = state /\ lock' = lock /\ thread' = [thread EXCEPT ![t].at = "requested"]
      BY <1>8 DEF ThreadSetup
    <2>2. \A u \in Tids : Live(u)' <=> Live(u)
      BY <1>1, <1>3, <2>1 DEF Live, ThreadStates
    <2>3. thread[t].at = "locked"
      BY <1>8 DEF ThreadSetup
    <2>4. \A u \in Tids : thread'[u].conn = thread[u].conn /\ (HoldsLock(u)' <=> HoldsLock(u))
      BY <1>1, <2>1, <2>3 DEF HoldsLock
    <2> QED
      BY <1>1, <1>2, <1>5, <1>6, <2>1, <2>2, <2>4 DEF ThreadInv
  <1>9. CASE ThreadExit(t)
    <2>1. state' = state \ {c} /\ lock' = lock \ {c} /\ thread' = [thread EXCEPT ![t].at = "exited"]
      BY <1>9 DEF ThreadExit
    <2>2. \A u \in Tids : thread'[u].conn = thread[u].conn /\ (u # t => thread'[u].at = thread[u].at)
                          /\ thread'[t].at = "exited"
      BY <1>1, <2>1
    <2>3. \A u \in Tids : (Live(u)' => Live(u) /\ u # t) /\ (HoldsLock(u)' => HoldsLock(u) /\ u # t)
                          /\ (u # t => (HoldsLock(u)' <=> HoldsLock(u)) /\ (Live(u)' <=> Live(u)))
                          /\ (HoldsLock(u) => Live(u))
      BY <2>2 DEF Live, HoldsLock
    <2> QED
      BY <1>1, <1>2, <1>3, <1>4, <1>5, <1>6, <2>1, <2>2, <2>3 DEF ThreadInv
  <1> QED
    BY <1>7, <1>8, <1>9 DEF SetupThread, ThreadExec, ThreadFail

(* The table of threads after a join of a thread that is not live, or none. *)
Quiet(table) ==
    /\ table \in [Tids -> [at : ThreadStates, conn : Conns]]
    /\ \A u \in Tids : table[u] = thread[u] \/ (~Live(u) /\ table[u].at = "free")

LEMMA JoinedQuiet ==
    ASSUME IInv, NEW t \in Tids, ~Live(t)
    PROVE  Quiet(Joined(t))
  BY ThreadTypes, Types DEF Quiet, Joined, ThreadStates

(* pthread_create for a connection whose state was clear, or its failure. *)
LEMMA CreateStep ==
    ASSUME IInv, [Next]_vars, NEW i \in Conns, i \notin state, NEW table, Quiet(table),
           state' = state \cup {i}, lock' = lock,
           \/ CreateThread(i, table)
           \/ thread' = table /\ tid' = tid /\ (Leaving(i)' \/ tid[i] = NoThread)
    PROVE  ThreadInv'
  <1>1. /\ tid \in [Conns -> Tids \cup {NoThread}] /\ NoThread \notin Tids
        /\ thread \in [Tids -> [at : ThreadStates, conn : Conns]]
        /\ state \subseteq Conns /\ lock \subseteq Conns
    BY ThreadTypes
  <1>2. ThreadInv /\ (InLoop' => InLoop) /\ \A j \in Conns : Leaving(j) => Leaving(j)'
    BY LoopStays, LeavingStays DEF IInv
  <1>3. \A u \in Tids : ~(Live(u) /\ thread[u].conn = i)
    BY NoThreadOf
  <1>4. \A u \in Tids : HoldsLock(u) => Live(u)
    BY DEF HoldsLock, Live
  <1>5. CASE CreateThread(i, table)
    <2>1. PICK t \in Tids : /\ table[t].at = "free"
                            /\ tid' = [tid EXCEPT ![i] = t]
                            /\ thread' = [table EXCEPT ![t] = [at |-> "created", conn |-> i]]
      BY <1>5 DEF CreateThread
    <2>2. ~Live(t)
      BY <2>1 DEF Quiet, Live
    <2>3. /\ thread'[t] = [at |-> "created", conn |-> i]
          /\ \A u \in Tids : u # t => thread'[u] = table[u]
          /\ tid'[i] = t /\ \A j \in Conns : j # i => tid'[j] = tid[j]
      BY <1>1, <2>1 DEF Quiet
    <2>4. /\ Live(t)' /\ ~HoldsLock(t)'
          /\ \A u \in Tids : u # t => /\ (Live(u)' <=> Live(u)) /\ (HoldsLock(u)' <=> HoldsLock(u))
                                      /\ Live(u) => thread'[u].conn = thread[u].conn
      BY <2>3 DEF Live, HoldsLock, Quiet
    <2> QED
      BY <1>1, <1>2, <1>3, <1>4, <2>2, <2>3, <2>4 DEF ThreadInv
  <1>6. CASE thread' = table /\ tid' = tid /\ (Leaving(i)' \/ tid[i] = NoThread)
    <2>1. \A u \in Tids : /\ (Live(u)' <=> Live(u)) /\ (HoldsLock(u)' <=> HoldsLock(u))
                          /\ Live(u) => thread'[u].conn = thread[u].conn
      BY <1>6 DEF Live, HoldsLock, Quiet
    <2> QED
      BY <1>1, <1>2, <1>3, <1>4, <1>6, <2>1 DEF ThreadInv
  <1> QED
    BY <1>5, <1>6

LEMMA StartStep ==
    ASSUME IInv, [Next]_vars, StartConn \/ StartFail
    PROVE  ThreadInv'
  <1>1. cursor \in Conns /\ cursor \in Nat
    BY Types, ThreadTypes
  <1>2. cursor \notin state /\ tid[cursor] = NoThread
    BY <1>1 DEF IInv, StartInv, StartConn, StartFail
  <1>3. Quiet(thread)
    BY ThreadTypes DEF Quiet
  <1> QED
    BY <1>1, <1>2, <1>3, CreateStep DEF StartConn, StartFail

LEMMA RestartStep ==
    ASSUME IInv, [Next]_vars, NEW i \in Conns, CheckRestart(i)
    PROVE  ThreadInv'
  <1>1. i \notin state /\ pc = "check" /\ cursor = i /\ N \in Nat /\ i \in 0..(N - 1) /\ tid[i] \in Tids \cup {NoThread}
    BY Types, ThreadTypes DEF CheckRestart, Checking
  <1>2. ASSUME NEW table, Quiet(table), Recreate(i, table) PROVE ThreadInv'
    <2>1. state' = state \cup {i} /\ lock' = lock
      BY <1>2 DEF Recreate
    <2>2. CASE CreateThread(i, table)
      BY <1>1, <1>2, <2>1, <2>2, CreateStep
    <2>3. CASE ready' = -1 /\ thread' = table /\ UNCHANGED tid
      <3>1. Leaving(i)'
        BY <1>1, <1>2, <2>3 DEF Leaving, Recreate, NextConn
      <3> QED
        BY <1>1, <1>2, <2>1, <2>3, <3>1, CreateStep
    <2> QED
      BY <1>2, <2>2, <2>3 DEF Recreate
  <1>3. CASE Joinable(tid[i])
    <2>1. tid[i] \in Tids /\ ~Live(tid[i])
      BY <1>1, <1>3 DEF CheckRestart, Joinable, Live
    <2>2. Recreate(i, Joined(tid[i]))
      BY <1>3 DEF CheckRestart
    <2> QED
      BY <1>2, <2>1, <2>2, JoinedQuiet
  <1>4. CASE Recreate(i, thread)
    <2>1. Quiet(thread)
      BY ThreadTypes DEF Quiet
    <2> QED
      BY <1>2, <1>4, <2>1
  <1>5. CASE Crash
    <2>1. pc' = "crashed" /\ UNCHANGED threads
      BY <1>5 DEF Crash
    <2> QED
      BY <2>1 DEF threads, IInv, ThreadInv, InLoop, Live, HoldsLock
  <1> QED
    BY <1>3, <1>4, <1>5 DEF CheckRestart

(* A thread that is cancelled in the loop has not taken its lock: it belongs to *)
(* the connection that is looked at, of which the main thread could take it.   *)
LEMMA CancelStep ==
    ASSUME IInv, [Next]_vars, NEW i \in Conns, CheckCancel(i)
    PROVE  ThreadInv'
  <1>1. /\ tid \in [Conns -> Tids \cup {NoThread}] /\ NoThread \notin Tids
        /\ thread \in [Tids -> [at : ThreadStates, conn : Conns]]
        /\ state \subseteq Conns /\ lock \subseteq Conns /\ 0 \in Conns
    BY ThreadTypes, Types
  <1>2. ThreadInv /\ (InLoop' => InLoop) /\ \A j \in Conns : Leaving(j) => Leaving(j)'
    BY LoopStays, LeavingStays DEF IInv
  <1>3. i \in state /\ i \notin lock /\ pc = "check" /\ cursor = i /\ ~Leaving(i) /\ InLoop
    BY Types DEF CheckCancel, Checking, Leaving, InLoop
  <1>4. \A u \in Tids : HoldsLock(u) => Live(u)
    BY DEF HoldsLock, Live
  <1>5. CASE state' = state \ {i} /\ lock' = lock /\ tid' = tid /\ ~Joinable(tid[i]) /\ thread' = thread
    BY <1>1, <1>2, <1>3, <1>4, <1>5 DEF ThreadInv, Live, HoldsLock, Joinable
  <1>6. CASE state' = state \ {i} /\ lock' = lock /\ tid' = tid /\ Joinable(tid[i]) /\ thread' = Joined(tid[i])
    <2>1. PICK t \in Tids : t = tid[i] /\ Live(t) /\ thread[t].conn = i
      BY <1>1, <1>2, <1>3, <1>6 DEF ThreadInv, Joinable
    <2>2. ~HoldsLock(t)
      BY <1>2, <1>3, <2>1 DEF ThreadInv
    <2>3. thread'[t].at = "free" /\ \A u \in Tids : u # t => thread'[u] = thread[u]
      BY <1>1, <1>6, <2>1 DEF Joined
    <2>4. /\ ~Live(t)' /\ ~HoldsLock(t)'
          /\ \A u \in Tids : u # t => (Live(u)' <=> Live(u)) /\ (HoldsLock(u)' <=> HoldsLock(u))
      BY <2>3 DEF Live, HoldsLock
    <2> QED
      BY <1>1, <1>2, <1>4, <1>6, <2>1, <2>2, <2>3, <2>4 DEF ThreadInv
  <1>7. CASE Crash
    <2>1. pc' = "crashed" /\ UNCHANGED threads
      BY <1>7 DEF Crash
    <2> QED
      BY <2>1 DEF threads, IInv, ThreadInv, InLoop, Live, HoldsLock
  <1> QED
    BY <1>5, <1>6, <1>7 DEF CheckCancel

LEMMA CloseStep ==
    ASSUME IInv, [Next]_vars, NEW i \in Conns, CloseConn(i)
    PROVE  ThreadInv'
  <1>1. /\ tid \in [Conns -> Tids \cup {NoThread}]
        /\ thread \in [Tids -> [at : ThreadStates, conn : Conns]]
    BY ThreadTypes
  <1>2. ~InLoop'
    BY DEF CloseConn, Crash, AfterClose, NextConn, InLoop
  <1>3. state' = state /\ lock' = lock /\ tid' = tid
    BY DEF CloseConn, Crash, threads
  <1>4. thread' = thread \/ (Joinable(tid[i]) /\ thread' = Joined(tid[i]))
    BY DEF CloseConn, Crash, threads
  <1>5. \A u \in Tids : thread'[u] = thread[u] \/ thread'[u].at = "free"
    BY <1>1, <1>4 DEF Joined, Joinable
  <1>6. \A u \in Tids : /\ Live(u)' => Live(u) /\ thread'[u] = thread[u]
                        /\ HoldsLock(u)' => HoldsLock(u) /\ thread'[u] = thread[u]
    BY <1>5 DEF Live, HoldsLock
  <1> QED
    BY <1>2, <1>3, <1>6 DEF IInv, ThreadInv

LEMMA ThreadStep == IInv /\ [Next]_vars => ThreadInv'
  <1> SUFFICES ASSUME IInv, [Next]_vars PROVE ThreadInv'
    OBVIOUS
  <1>1. CASE UNCHANGED threads
    <2>1. (InLoop' => InLoop) /\ \A j \in Conns : Leaving(j) => Leaving(j)'
      BY LoopStays, LeavingStays
    <2>2. UNCHANGED <<state, lock, tid, thread>> /\ state \subseteq Conns
      BY <1>1, ThreadTypes DEF threads
    <2> QED
      BY <2>1, <2>2 DEF IInv, ThreadInv, Live, HoldsLock
  <1> QED
    BY <1>1, ThreadFrame, StartStep, SetupThreadStep, RestartStep, CancelStep, CloseStep

-----------------------------------------------------------------------------
(***************************************************************************)
(* The descriptors                                                         *)
(***************************************************************************)

(* socket() finds a descriptor: there are as many as connections, each         *)
(* connection has one at most, and the one that asks has none.                *)
LEMMA FreeFd ==
    ASSUME IInv, NEW i \in Conns, fd[i] = NoFd
    PROVE  LowestFreeFd \in Fds \ {fd[j] : j \in Conns}
  <1> DEFINE free == Fds \ {fd[j] : j \in Conns}
             others == Conns \ {i}
  <1>1. Fds = 1..Requested /\ Requested \in Nat /\ N \in 1..Requested /\ Conns = 0..(N - 1) /\ N \in Nat
    BY Types DEF Fds
  <1>2. fd \in [Conns -> Fds \cup {NoFd}] /\ FdInv
    BY DEF IInv, TypeOK
  <1>3. free # {}
    <2> SUFFICES ASSUME \A f \in Fds : \E j \in Conns : fd[j] = f PROVE FALSE
      OBVIOUS
    <2>1. \A f \in Fds : \E j \in others : fd[j] = f
      BY <1>1 DEF NoFd
    <2> DEFINE owner == [f \in Fds |-> CHOOSE j \in others : fd[j] = f]
    <2>2. \A f \in Fds : owner[f] \in others /\ fd[owner[f]] = f
      BY <2>1
    <2>3. owner \in [Fds -> others]
      BY <2>2
    <2>4. IsFiniteSet(Fds) /\ Cardinality(Fds) = Requested
      BY <1>1, FS_Interval
    <2>5. IsFiniteSet(Conns) /\ Cardinality(Conns) = N
      BY <1>1, FS_Interval
    <2>6. IsFiniteSet(others) /\ Cardinality(others) = N - 1
      BY <2>5, FS_RemoveElement
    <2> HIDE DEF owner, others
    <2>7. \E f, g \in Fds : f # g /\ owner[f] = owner[g]
      BY <1>1, <2>3, <2>4, <2>6, FS_PigeonHole
    <2> QED
      BY <2>2, <2>7
  <1>4. free \in SUBSET Nat
    BY <1>1
  <1> HIDE DEF free
  <1>5. (CHOOSE f \in free : \A g \in free : f <= g) \in free
    BY <1>3, <1>4, LowestExists
  <1> QED
    BY <1>5 DEF LowestFreeFd, free

LEMMA FdTypes ==
    ASSUME IInv
    PROVE  fd \in [Conns -> Fds \cup {NoFd}] /\ NoFd \notin Fds /\ FdInv
  <1>1. NoFd \notin Fds
    BY Types DEF NoFd, Fds
  <1> QED
    BY <1>1 DEF IInv, TypeOK

(* A connection that is created has no descriptor left. *)
LEMMA FdCreateStep ==
    ASSUME IInv, [Next]_vars, NEW i \in Conns, i \notin state, i \notin enabled, InLoop,
           NEW table, Quiet(table), state' = state \cup {i},
           UNCHANGED <<enabled, fd>>,
           CreateThread(i, table) \/ thread' = table
    PROVE  FdInv'
  <1>1. /\ thread \in [Tids -> [at : ThreadStates, conn : Conns]]
        /\ FdInv /\ (InLoop' => InLoop) /\ Conns' = Conns
    BY ThreadTypes, FdTypes, LoopStays, TableStep DEF TableKept
  <1>2. \A u \in Tids : thread[u].conn = i => ~Live(u)
    BY NoThreadOf
  <1>3. fd[i] = NoFd
    BY <1>1, <1>2 DEF FdInv, Live
  <1>4. \A u \in Tids : \/ thread'[u] = thread[u]
                        \/ ~Live(u) /\ thread'[u].at = "free"
                        \/ ~Live(u) /\ thread'[u] = [at |-> "created", conn |-> i]
    <2>1. CASE thread' = table
      BY <2>1 DEF Quiet
    <2>2. CASE CreateThread(i, table)
      <3>1. PICK t \in Tids : table[t].at = "free" /\ thread' = [table EXCEPT ![t] = [at |-> "created", conn |-> i]]
        BY <2>2 DEF CreateThread
      <3>2. ~Live(t)
        BY <3>1 DEF Quiet, Live
      <3> QED
        BY <3>1, <3>2 DEF Quiet
    <2> QED
      BY <2>1, <2>2
  <1> QED
    BY <1>1, <1>3, <1>4 DEF FdInv, Live

LEMMA FdStartStep ==
    ASSUME IInv, [Next]_vars, StartConn \/ StartFail
    PROVE  FdInv'
  <1>1. cursor \in Conns /\ cursor \in Nat
    BY Types, ThreadTypes
  <1>2. cursor \notin state /\ cursor \notin enabled /\ InLoop
    BY <1>1 DEF IInv, StartInv, StartConn, StartFail, InLoop
  <1>3. Quiet(thread)
    BY ThreadTypes DEF Quiet
  <1> QED
    BY <1>1, <1>2, <1>3, FdCreateStep DEF StartConn, StartFail, net

LEMMA FdRestartStep ==
    ASSUME IInv, [Next]_vars, NEW i \in Conns, CheckRestart(i)
    PROVE  FdInv'
  <1>1. i \notin state /\ i \notin enabled /\ InLoop /\ tid[i] \in Tids \cup {NoThread}
    BY ThreadTypes DEF CheckRestart, Checking, NeedsRestart, InLoop
  <1>2. ASSUME NEW table, Quiet(table), Recreate(i, table) PROVE FdInv'
    BY <1>1, <1>2, FdCreateStep DEF Recreate, net
  <1>3. CASE Joinable(tid[i])
    <2>1. tid[i] \in Tids /\ ~Live(tid[i])
      BY <1>1, <1>3 DEF CheckRestart, Joinable, Live
    <2> QED
      BY <1>2, <1>3, <2>1, JoinedQuiet DEF CheckRestart
  <1>4. CASE Recreate(i, thread)
    <2>1. Quiet(thread)
      BY ThreadTypes DEF Quiet
    <2> QED
      BY <1>2, <1>4, <2>1
  <1>5. CASE Crash
    <2>1. pc' = "crashed" /\ UNCHANGED <<enabled, fd, state, thread, seg>>
      BY <1>5 DEF Crash, net, threads, file
    <2> QED
      BY <2>1 DEF IInv, FdInv, InLoop, Conns
  <1> QED
    BY <1>3, <1>4, <1>5 DEF CheckRestart

LEMMA FdSetupStep ==
    ASSUME IInv, [Next]_vars, NEW t \in Tids, SetupThread(t)
    PROVE  FdInv'
  <1>1. PICK c \in Conns : thread[t].conn = c
    BY ThreadTypes
  <1>2. /\ thread \in [Tids -> [at : ThreadStates, conn : Conns]]
        /\ fd \in [Conns -> Fds \cup {NoFd}] /\ NoFd \notin Fds /\ FdInv
        /\ Conns' = Conns /\ (InLoop' => InLoop) /\ enabled \subseteq Conns
    BY ThreadTypes, FdTypes, LoopStays, TableStep DEF TableKept
  <1>3. /\ Live(t) /\ c \in state
        /\ \A u \in Tids : Live(u) /\ thread[u].conn = c => u = t
    BY <1>1 DEF IInv, ThreadInv, SetupThread, ThreadLock, ThreadSetup, ThreadExec, ThreadFail, Live
  <1>4. c \notin enabled
    BY <1>2, <1>3 DEF FdInv
  <1>5. CASE ThreadLock(t)
    <2>1. thread' = [thread EXCEPT ![t].at = "locked"] /\ thread[t].at = "created" /\ UNCHANGED <<enabled, fd, state>>
      BY <1>5 DEF ThreadLock, net
    <2>2. \A u \in Tids : thread'[u].conn = thread[u].conn /\ (u # t => thread'[u].at = thread[u].at)
                          /\ thread'[t].at = "locked"
      BY <1>2, <2>1
    <2> QED
      BY <1>2, <2>1, <2>2 DEF FdInv
  <1>6. CASE ThreadSetup(t)
    <2>1. /\ thread[t].at = "locked" /\ thread' = [thread EXCEPT ![t].at = "requested"]
          /\ fd' = [fd EXCEPT ![c] = LowestFreeFd] /\ UNCHANGED <<enabled, state>>
      BY <1>1, <1>6 DEF ThreadSetup
    <2>2. fd[c] = NoFd
      BY <1>1, <1>2, <2>1 DEF FdInv
    <2>3. LowestFreeFd \in Fds \ {fd[j] : j \in Conns}
      BY <2>2, FreeFd
    <2>4. fd'[c] # NoFd /\ \A j \in Conns : j # c => fd'[j] = fd[j] /\ fd[j] # fd'[c]
      BY <1>2, <2>1, <2>3
    <2>5. \A u \in Tids : thread'[u].conn = thread[u].conn /\ (u # t => thread'[u].at = thread[u].at)
                          /\ thread'[t].at = "requested"
      BY <1>2, <2>1
    <2> QED
      BY <1>1, <1>2, <1>3, <1>4, <2>1, <2>2, <2>4, <2>5 DEF FdInv, Live
  <1>7. CASE ThreadExec(t)
    <2>1. /\ thread[t].at = "requested" /\ thread' = [thread EXCEPT ![t].at = "exited"]
          /\ enabled' = enabled \cup {c} /\ state' = state \ {c} /\ fd' = fd
      BY <1>1, <1>7 DEF ThreadExec, ThreadExit
    <2>2. \A u \in Tids : thread'[u].conn = thread[u].conn /\ (u # t => thread'[u].at = thread[u].at)
                          /\ thread'[t].at = "exited"
      BY <1>2, <2>1
    <2> QED
      BY <1>1, <1>2, <1>3, <2>1, <2>2 DEF FdInv, Live
  <1>8. CASE ThreadFail(t)
    <2>1. /\ thread' = [thread EXCEPT ![t].at = "exited"]
          /\ enabled' = enabled \ {c} /\ state' = state \ {c} /\ fd' = [fd EXCEPT ![c] = NoFd]
      BY <1>1, <1>8 DEF ThreadFail, ThreadExit, Disconnect
    <2>2. \A u \in Tids : thread'[u].conn = thread[u].conn /\ (u # t => thread'[u].at = thread[u].at)
                          /\ thread'[t].at = "exited"
      BY <1>2, <2>1
    <2>3. fd'[c] = NoFd /\ \A j \in Conns : j # c => fd'[j] = fd[j]
      BY <1>2, <2>1
    <2> QED
      BY <1>1, <1>2, <1>3, <2>1, <2>2, <2>3 DEF FdInv, Live
  <1> QED
    BY <1>5, <1>6, <1>7, <1>8 DEF SetupThread

LEMMA FdCancelStep ==
    ASSUME IInv, [Next]_vars, NEW i \in Conns, CheckCancel(i)
    PROVE  FdInv'
  <1>1. /\ thread \in [Tids -> [at : ThreadStates, conn : Conns]]
        /\ tid \in [Conns -> Tids \cup {NoThread}]
        /\ FdInv /\ ThreadInv /\ (InLoop' => InLoop) /\ Conns' = Conns
    BY ThreadTypes, FdTypes, LoopStays, TableStep DEF TableKept, IInv
  <1>2. i \in state /\ i \notin lock /\ ~Leaving(i) /\ InLoop
    BY Types DEF CheckCancel, Checking, Leaving, InLoop
  <1>3. UNCHANGED <<enabled, fd>> /\ state' \subseteq state
    BY DEF CheckCancel, Crash, net, threads
  <1>4. thread' = thread \/ (Joinable(tid[i]) /\ thread' = Joined(tid[i]))
    BY DEF CheckCancel, Crash, threads
  <1>5. \A u \in Tids : \/ thread'[u] = thread[u]
                        \/ thread[u].at # "requested" /\ thread'[u].at = "free"
    <2>1. CASE Joinable(tid[i]) /\ thread' = Joined(tid[i])
      <3>1. PICK t \in Tids : t = tid[i] /\ Live(t) /\ thread[t].conn = i
        BY <1>1, <1>2, <2>1 DEF ThreadInv, Joinable
      <3>2. ~HoldsLock(t)
        BY <1>1, <1>2, <3>1 DEF ThreadInv
      <3> QED
        BY <1>1, <2>1, <3>1, <3>2 DEF Joined, HoldsLock
    <2> QED
      BY <1>4, <2>1
  <1> QED
    BY <1>1, <1>3, <1>5 DEF FdInv

LEMMA FdCloseStep ==
    ASSUME IInv, [Next]_vars, NEW i \in Conns, CloseConn(i)
    PROVE  FdInv'
  <1>1. /\ thread \in [Tids -> [at : ThreadStates, conn : Conns]]
        /\ tid \in [Conns -> Tids \cup {NoThread}] /\ NoThread \notin Tids
        /\ fd \in [Conns -> Fds \cup {NoFd}]
        /\ FdInv /\ ThreadInv /\ ~InLoop' /\ Conns' = Conns
    BY ThreadTypes, FdTypes, TableStep DEF TableKept, IInv, CloseConn, Crash, AfterClose, NextConn, InLoop
  <1>2. CASE Crash
    BY <1>1, <1>2 DEF Crash, net, threads, FdInv
  <1>3. CASE /\ thread' = IF Joinable(tid[i]) THEN Joined(tid[i]) ELSE thread
             /\ Disconnect(i) /\ UNCHANGED state
    <2>1. fd'[i] = NoFd /\ (\A j \in Conns : j # i => fd'[j] = fd[j]) /\ enabled' = enabled \ {i}
      BY <1>1, <1>3 DEF Disconnect
    <2>2. \A u \in Tids : /\ thread'[u] = thread[u] \/ thread'[u].at = "free"
                          /\ Live(u) /\ thread[u].conn = i => thread'[u].at = "free"
      BY <1>1, <1>3 DEF ThreadInv, Joinable, Joined, Live
    <2> QED
      BY <1>1, <1>3, <2>1, <2>2, ThreadTypes DEF FdInv, Live
  <1> QED
    BY <1>2, <1>3 DEF CloseConn

(* A connection that is enabled is left, or nothing happens to its socket. *)
LEMMA FdHandleStep ==
    ASSUME IInv, [Next]_vars, NEW i \in Conns, Handle(i)
    PROVE  FdInv'
  <1>1. /\ fd \in [Conns -> Fds \cup {NoFd}] /\ FdInv /\ (InLoop' => InLoop) /\ Conns' = Conns
    BY FdTypes, LoopStays, TableStep DEF TableKept
  <1>2. UNCHANGED <<state, thread>>
    BY DEF Handle, HandleSkip, HandleQuiet, HandleError, HandleEof, HandleData, HandleWriteError, threads
  <1>3. UNCHANGED <<enabled, fd>> \/ (i \in enabled /\ Disconnect(i))
    BY DEF Handle, HandleSkip, HandleQuiet, HandleError, HandleEof, HandleData, HandleWriteError, Consume, net
  <1>4. CASE UNCHANGED <<enabled, fd>>
    BY <1>1, <1>2, <1>4 DEF FdInv
  <1>5. CASE i \in enabled /\ Disconnect(i)
    <2>1. fd'[i] = NoFd /\ (\A j \in Conns : j # i => fd'[j] = fd[j]) /\ enabled' = enabled \ {i}
      BY <1>1, <1>5 DEF Disconnect
    <2>2. \A u \in Tids : thread[u].conn = i => thread[u].at # "requested"
      BY <1>1, <1>5, NoThreadOf DEF FdInv, Live
    <2> QED
      BY <1>1, <1>2, <2>1, <2>2, ThreadTypes DEF FdInv
  <1> QED
    BY <1>3, <1>4, <1>5

LEMMA NetFrame ==
    ASSUME [Next]_vars
    PROVE  \/ UNCHANGED <<net, threads>>
           \/ StartConn \/ StartFail
           \/ \E t \in Tids : SetupThread(t)
           \/ \E i \in Conns : Handle(i) \/ CheckRestart(i) \/ CheckCancel(i) \/ CloseConn(i)
  <1>1. ASSUME NEW i \in Conns, Check(i) PROVE UNCHANGED <<net, threads>> \/ CheckRestart(i) \/ CheckCancel(i)
    BY <1>1 DEF Check, CheckSkip, CheckWait
  <1>2. CASE Main
    BY <1>1, <1>2 DEF Main, StartIdle, LoopEnter, LoopLeave, ScanConn,
       SelectNone, SelectInterrupted, Select, DoTail
  <1>3. CASE Signal
    BY <1>3 DEF Signal
  <1>4. CASE UNCHANGED vars
    BY <1>4 DEF vars, moving
  <1> QED
    BY <1>2, <1>3, <1>4 DEF Next

LEMMA FdStep == IInv /\ [Next]_vars => FdInv'
  <1> SUFFICES ASSUME IInv, [Next]_vars PROVE FdInv'
    OBVIOUS
  <1>1. CASE UNCHANGED <<net, threads>>
    <2>1. UNCHANGED <<enabled, fd, state, thread>> /\ (InLoop' => InLoop) /\ Conns' = Conns
      BY <1>1, LoopStays, TableStep DEF net, threads, TableKept
    <2> QED
      BY <2>1 DEF IInv, FdInv
  <1> QED
    BY <1>1, NetFrame, FdStartStep, FdSetupStep, FdHandleStep, FdRestartStep, FdCancelStep, FdCloseStep

-----------------------------------------------------------------------------
(***************************************************************************)
(* The main thread                                                         *)
(***************************************************************************)

LEMMA MainStep == IInv /\ [Next]_vars => MainInv'
  <1> SUFFICES ASSUME IInv, [Next]_vars PROVE MainInv'
    OBVIOUS
  <1>1. /\ N \in Nat /\ cursor \in 0..(N - 1) /\ Conns' = Conns /\ server' = server
        /\ MainInv /\ ready \in {-1, 0, 1}
    BY Types, TableStep DEF TableKept, IInv, TypeOK, Next, vars
  <1>2. CASE UNCHANGED <<pc, cursor, ready, seg, bytes_done>>
    BY <1>1, <1>2 DEF MainInv
  <1>3. ASSUME NEW i \in Conns, Handle(i) PROVE MainInv'
    <2>1. CASE HandleSkip(i) \/ HandleQuiet(i) \/ HandleError(i)
      <3>1. pc = "handle" /\ NextHandled(ready) /\ UNCHANGED <<ready, seg, bytes_done>>
        BY <2>1 DEF HandleSkip, HandleQuiet, HandleError, Handling, file, outcome
      <3> QED
        BY <1>1, <3>1 DEF MainInv, NextHandled, NextConn
    <2>2. CASE HandleEof(i)
      <3>1. /\ pc = "handle" /\ NextHandled(ready') /\ UNCHANGED bytes_done
            /\ ready' = IF server.supported THEN ready ELSE 1
        BY <2>2 DEF HandleEof, Handling
      <3> QED
        BY <1>1, <3>1 DEF MainInv, NextHandled, NextConn
    <2>3. ASSUME NEW n \in 1..BufferSize, HandleData(i, n) PROVE MainInv'
      <3>1. pc = "handle" /\ NextHandled(ready) /\ UNCHANGED ready
        BY <2>3 DEF HandleData, Handling, outcome
      <3> QED
        BY <1>1, <3>1 DEF MainInv, NextHandled, NextConn
    <2>4. ASSUME NEW n \in 1..BufferSize, HandleWriteError(i, n) PROVE MainInv'
      BY <2>4, <1>1 DEF MainInv, HandleWriteError
    <2> QED
      BY <1>3, <2>1, <2>2, <2>3, <2>4 DEF Handle
  <1>4. ASSUME NEW i \in Conns, Check(i) PROVE MainInv'
    <2>1. pc = "check" /\ UNCHANGED <<seg, bytes_done>>
      BY <1>4 DEF Check, CheckSkip, CheckRestart, CheckWait, CheckCancel, Checking, Recreate, Crash, file
    <2>2. \/ pc' = "crashed" /\ ready' = ready
          \/ NextConn("tail") /\ (ready' = ready \/ (ready' = -1 /\ Remaining(seg, i) > 0))
      BY <1>4 DEF Check, CheckSkip, CheckRestart, CheckWait, CheckCancel, NeedsRestart, Recreate, Crash, outcome
    <2>3. (\E k \in Conns : Remaining(seg, k) > 0)' <=> \E k \in Conns : Remaining(seg, k) > 0
      BY <1>1, <2>1
    <2>4. ready' = ready \/ (ready' = -1 /\ \E k \in Conns : Remaining(seg, k) > 0)
      BY <2>2
    <2>5. pc' = "crashed" \/ NextConn("tail")
      BY <2>2
    <2> QED
      BY <1>1, <2>1, <2>3, <2>4, <2>5 DEF MainInv, NextConn
  <1>5. ASSUME NEW i \in Conns, CloseConn(i) PROVE MainInv'
    <2>1. pc' \in {"close", "done", "crashed"} /\ UNCHANGED <<ready, bytes_done>>
      BY <1>5 DEF CloseConn, Crash, AfterClose, NextConn, file, outcome
    <2> QED
      BY <1>1, <2>1 DEF MainInv
  <1>6. CASE Main
    <2>1. CASE StartIdle \/ StartConn \/ StartFail
      <3>1. /\ pc = "start" /\ NextConn("while") /\ UNCHANGED bytes_done
            /\ (cursor = N - 1 => ready' = 0) /\ ready' \in {ready, 0, -1}
        BY <2>1 DEF StartIdle, StartConn, StartFail, AfterStart, file
      <3> QED
        BY <1>1, <3>1 DEF MainInv, NextConn
    <2>2. CASE LoopEnter \/ LoopLeave \/ ScanConn
      BY <1>1, <2>2 DEF MainInv, LoopEnter, LoopLeave, ScanConn, NextConn, file, outcome
    <2>3. CASE SelectNone \/ SelectInterrupted \/ \E some \in SUBSET fds : Select(some)
      BY <1>1, <2>3 DEF MainInv, SelectNone, SelectInterrupted, Select, file, outcome
    <2>4. CASE DoTail
      BY <1>1, <2>4 DEF MainInv, DoTail, file, EngineAssumption
    <2> QED
      BY <1>3, <1>4, <1>5, <1>6, <2>1, <2>2, <2>3, <2>4 DEF Main
  <1>7. CASE Signal
    BY <1>2, <1>7 DEF Signal, main, file
  <1>8. ASSUME NEW t \in Tids, SetupThread(t) PROVE MainInv'
    BY <1>2, <1>8 DEF SetupThread, ThreadLock, ThreadSetup, ThreadExec, ThreadFail, main, file, outcome
  <1>9. CASE UNCHANGED vars
    BY <1>2, <1>9 DEF vars, moving, main, file, outcome
  <1> QED
    BY <1>6, <1>7, <1>8, <1>9 DEF Next

(* flux_start looks at each connection once, before anything else does. *)
LEMMA StartedStep == IInv /\ [Next]_vars => StartInv'
  <1> SUFFICES ASSUME IInv, [Next]_vars, pc' = "start",
                      NEW i \in Conns', (i >= cursor)'
               PROVE  (i \notin state \cup enabled /\ tid[i] = NoThread)'
    BY DEF StartInv
  <1>1. /\ N \in Nat /\ cursor \in 0..(N - 1) /\ i \in Conns /\ Conns = 0..(N - 1)
        /\ StartInv /\ ThreadInv /\ tid \in [Conns -> Tids \cup {NoThread}]
    BY Types, ThreadTypes, TableStep DEF TableKept, IInv
  <1>2. CASE UNCHANGED <<pc, cursor, state, enabled, tid>>
    BY <1>1, <1>2 DEF StartInv
  <1>3. CASE StartIdle \/ StartConn \/ StartFail
    <2>1. pc = "start" /\ NextConn("while") /\ enabled' = enabled
      BY <1>3 DEF StartIdle, StartConn, StartFail, AfterStart, net
    <2>2. cursor' = cursor + 1
      BY <2>1 DEF NextConn
    <2>3. i > cursor
      BY <1>1, <2>2
    <2>4. state' \subseteq state \cup {cursor} /\ tid'[i] = tid[i]
      BY <1>1, <1>3, <2>3 DEF StartIdle, StartConn, StartFail, CreateThread, threads
    <2> QED
      BY <1>1, <2>1, <2>3, <2>4 DEF StartInv
  <1>4. ASSUME NEW t \in Tids, SetupThread(t) PROVE (i \notin state \cup enabled /\ tid[i] = NoThread)'
    <2>1. UNCHANGED <<pc, cursor, tid>>
      BY <1>4 DEF SetupThread, ThreadLock, ThreadSetup, ThreadExec, ThreadFail, ThreadExit, main
    <2>2. thread[t].conn \in state
      BY <1>1, <1>4 DEF ThreadInv, Live, SetupThread, ThreadLock, ThreadSetup, ThreadExec, ThreadFail
    <2>3. state' \subseteq state /\ enabled' \subseteq enabled \cup {thread[t].conn}
      BY <1>4 DEF SetupThread, ThreadLock, ThreadSetup, ThreadExec, ThreadFail, ThreadExit, Disconnect, net
    <2> QED
      BY <1>1, <2>1, <2>2, <2>3 DEF StartInv
  <1>5. ASSUME NEW j \in Conns, Handle(j) \/ Check(j) \/ CloseConn(j) PROVE FALSE
    <2>1. pc \in {"handle", "check", "close"}
      BY <1>5 DEF Handle, HandleSkip, HandleQuiet, HandleError, HandleEof, HandleData, HandleWriteError, Handling,
         Check, CheckSkip, CheckRestart, CheckWait, CheckCancel, Checking, CloseConn
    <2>2. pc' \in {pc, "while", "check", "tail", "done", "crashed"}
      BY <1>5 DEF Handle, HandleSkip, HandleQuiet, HandleError, HandleEof, HandleData, HandleWriteError, NextHandled,
         Check, CheckSkip, CheckRestart, CheckWait, CheckCancel, Recreate, Crash, CloseConn, AfterClose, NextConn
    <2> QED
      BY <2>1, <2>2
  <1>6. CASE Main
    BY <1>3, <1>5, <1>6 DEF Main, LoopEnter, LoopLeave, ScanConn, SelectNone, SelectInterrupted, Select, DoTail, NextConn
  <1>7. CASE Signal
    BY <1>2, <1>7 DEF Signal, net, threads, main
  <1>8. CASE UNCHANGED vars
    BY <1>2, <1>8 DEF vars, moving, net, threads, main
  <1> QED
    BY <1>4, <1>6, <1>7, <1>8 DEF Next

-----------------------------------------------------------------------------
(***************************************************************************)
(* What the server sends                                                   *)
(***************************************************************************)

LEMMA StreamTypes ==
    ASSUME IInv
    PROVE  stream \in [Conns -> [from : 0..Size, to : 0..Size]]
  BY DEF IInv, TypeOK

(* ready is never 0 again once it has been set, but for the end of flux_start. *)
LEMMA ReadyFinal ==
    ASSUME IInv, [Next]_vars, (ready = 0 \/ pc = "start")'
    PROVE  ready = 0 \/ pc = "start"
  <1>1. CASE UNCHANGED <<pc, ready>>
    BY <1>1
  <1>2. ASSUME NEW i \in Conns, Handle(i) PROVE ready = 0 \/ pc = "start"
    BY <1>2 DEF Handle, HandleSkip, HandleQuiet, HandleError, HandleEof, HandleData, HandleWriteError,
       Handling, NextHandled, NextConn, outcome
  <1>3. ASSUME NEW i \in Conns, Check(i) \/ CloseConn(i) PROVE ready = 0 \/ pc = "start"
    <2>1. CASE Check(i)
      BY <2>1 DEF Check, CheckSkip, CheckRestart, CheckWait, CheckCancel, Checking, Recreate, Crash, NextConn, outcome
    <2>2. CASE CloseConn(i)
      <3>1. pc = "close" /\ ready' = ready /\ pc' # "start"
        BY <2>2 DEF CloseConn, Crash, AfterClose, NextConn, outcome
      <3> QED
        BY <3>1
    <2> QED
      BY <1>3, <2>1, <2>2
  <1>4. CASE Main
    BY <1>2, <1>3, <1>4 DEF Main, StartIdle, StartConn, StartFail, LoopEnter, LoopLeave, ScanConn, SelectNone,
       SelectInterrupted, Select, DoTail, NextConn, outcome
  <1>5. CASE Signal
    BY <1>5 DEF Signal, main
  <1>6. ASSUME NEW t \in Tids, SetupThread(t) PROVE UNCHANGED <<pc, ready>>
    BY <1>6 DEF SetupThread, ThreadLock, ThreadSetup, ThreadExec, ThreadFail, main, outcome
  <1>7. CASE UNCHANGED vars
    BY <1>1, <1>7 DEF vars, moving, main, outcome
  <1> QED
    BY <1>1, <1>4, <1>5, <1>6, <1>7 DEF Next

(* Only a read moves a connection that is enabled, or about to be. *)
StreamKept ==
    /\ \A i \in enabled' : /\ i \in enabled /\ stream'[i] = stream[i]
                           /\ seg'[i].currentbyte = seg[i].currentbyte
    /\ \A t \in Tids : thread'[t].at = "requested" =>
          /\ thread[t].at = "requested" /\ thread'[t].conn = thread[t].conn
          /\ stream'[thread[t].conn] = stream[thread[t].conn]
          /\ seg'[thread[t].conn].currentbyte = seg[thread[t].conn].currentbyte

LEMMA StreamKeptStep ==
    ASSUME IInv, [Next]_vars, StreamKept
    PROVE  StreamInv'
  <1>1. StreamInv /\ server' = server
    BY DEF IInv, Next, vars
  <1> SUFFICES ASSUME server.supported, ~server.rangeIgnored, (ready = 0 \/ pc = "start")'
               PROVE  /\ \A i \in enabled' : stream'[i].from = seg'[i].currentbyte
                      /\ \A t \in Tids : thread'[t].at = "requested" =>
                            stream'[thread'[t].conn].from = seg'[thread'[t].conn].currentbyte
    BY <1>1 DEF StreamInv
  <1>2. ready = 0 \/ pc = "start"
    BY ReadyFinal
  <1> QED
    BY <1>1, <1>2 DEF StreamInv, StreamKept

(* setup_thread asks for what the connection has to fetch next. *)
LEMMA StreamSetupStep ==
    ASSUME IInv, [Next]_vars, NEW t \in Tids, SetupThread(t)
    PROVE  StreamInv'
  <1> DEFINE c == thread[t].conn
  <1>1. /\ thread \in [Tids -> [at : ThreadStates, conn : Conns]] /\ c \in Conns
        /\ stream \in [Conns -> [from : 0..Size, to : 0..Size]]
        /\ enabled \subseteq Conns
        /\ StreamInv /\ FdInv /\ ThreadInv /\ server' = server
    BY ThreadTypes, StreamTypes DEF IInv, Next, vars
  <1>2. Live(t) /\ c \in state /\ c \notin enabled
    BY <1>1 DEF SetupThread, ThreadLock, ThreadSetup, ThreadExec, ThreadFail, Live, ThreadInv, FdInv
  <1>3. \A u \in Tids : Live(u) /\ thread[u].conn = c => u = t
    BY <1>1, <1>2 DEF ThreadInv
  <1>4. UNCHANGED <<seg, pc, ready>>
    BY DEF SetupThread, ThreadLock, ThreadSetup, ThreadExec, ThreadFail, file, main, outcome
  <1>5. CASE ThreadLock(t)
    <2>1. thread' = [thread EXCEPT ![t].at = "locked"] /\ UNCHANGED <<enabled, stream>>
      BY <1>5 DEF ThreadLock, net
    <2>2. StreamKept
      BY <1>1, <1>4, <2>1 DEF StreamKept
    <2> QED
      BY <2>2, StreamKeptStep
  <1>6. CASE ThreadSetup(t)
    <2>1. /\ thread' = [thread EXCEPT ![t].at = "requested"] /\ enabled' = enabled
          /\ stream' = [stream EXCEPT ![c] = RequestedBytes(c)]
      BY <1>6 DEF ThreadSetup
    <2>2. server.supported => stream'[c].from = seg[c].currentbyte
      BY <1>1, <2>1 DEF RequestedBytes
    <2>3. \A i \in Conns : i # c => stream'[i] = stream[i]
      BY <1>1, <2>1
    <2>4. \A u \in Tids : /\ thread'[u].conn = thread[u].conn
                          /\ u # t => thread'[u].at = thread[u].at
      BY <1>1, <2>1
    <2>5. \A u \in Tids : u # t /\ thread[u].at = "requested" => thread[u].conn \in Conns \ {c}
      BY <1>1, <1>3 DEF Live
    <2> QED
      BY <1>1, <1>2, <1>4, <2>1, <2>2, <2>3, <2>4, <2>5 DEF StreamInv
  <1>7. CASE ThreadExec(t)
    <2>1. /\ thread' = [thread EXCEPT ![t].at = "exited"] /\ enabled' = enabled \cup {c}
          /\ thread[t].at = "requested" /\ (stream' = stream \/ server.rangeIgnored)
      BY <1>7 DEF ThreadExec, ThreadExit
    <2>2. \A u \in Tids : /\ thread'[u].conn = thread[u].conn
                          /\ u # t => thread'[u].at = thread[u].at
                          /\ thread'[t].at = "exited"
      BY <1>1, <2>1
    <2> QED
      BY <1>1, <1>4, <2>1, <2>2 DEF StreamInv
  <1>8. CASE ThreadFail(t)
    <2>1. /\ thread' = [thread EXCEPT ![t].at = "exited"] /\ enabled' = enabled \ {c}
          /\ stream' = [stream EXCEPT ![c] = [from |-> 0, to |-> 0]]
      BY <1>8 DEF ThreadFail, ThreadExit, Disconnect
    <2>2. \A i \in Conns : i # c => stream'[i] = stream[i]
      BY <1>1, <2>1
    <2>3. \A u \in Tids : /\ thread'[u].conn = thread[u].conn
                          /\ u # t => thread'[u].at = thread[u].at
                          /\ thread'[t].at = "exited"
      BY <1>1, <2>1
    <2>4. \A u \in Tids : thread'[u].at = "requested" =>
             thread[u].at = "requested" /\ thread[u].conn \in Conns \ {c}
      BY <1>1, <1>3, <2>3 DEF Live
    <2>5. StreamKept
      BY <1>1, <1>4, <2>1, <2>2, <2>3, <2>4 DEF StreamKept
    <2> QED
      BY <2>5, StreamKeptStep
  <1> QED
    BY <1>5, <1>6, <1>7, <1>8 DEF SetupThread

(* What is read on a connection goes to where the connection has got. *)
LEMMA StreamHandleStep ==
    ASSUME IInv, [Next]_vars, NEW i \in Conns, Handle(i)
    PROVE  StreamInv'
  <1>1. /\ stream \in [Conns -> [from : 0..Size, to : 0..Size]]
        /\ \A t \in Tids : thread[t].conn \in Conns
        /\ enabled \subseteq Conns /\ StreamInv /\ FdInv /\ server' = server
    BY ThreadTypes, StreamTypes DEF IInv, Next, vars
  <1>2. thread' = thread
    BY DEF Handle, HandleSkip, HandleQuiet, HandleError, HandleEof, HandleData, HandleWriteError, threads
  <1>3. i \in enabled => \A t \in Tids : thread[t].at = "requested" => thread[t].conn # i
    BY <1>1, NoThreadOf DEF FdInv, Live
  <1>4. ASSUME i \in enabled, Disconnect(i),
               \A k \in Conns : k # i => seg'[k].currentbyte = seg[k].currentbyte
        PROVE  StreamInv'
    <2>1. enabled' = enabled \ {i} /\ \A k \in Conns : k # i => stream'[k] = stream[k]
      BY <1>1, <1>4 DEF Disconnect
    <2>2. StreamKept
      BY <1>1, <1>2, <1>3, <1>4, <2>1 DEF StreamKept
    <2> QED
      BY <2>2, StreamKeptStep
  <1>5. CASE HandleSkip(i) \/ HandleQuiet(i) \/ HandleError(i)
    <2>1. UNCHANGED seg /\ (UNCHANGED net \/ (i \in enabled /\ Disconnect(i)))
      BY <1>5 DEF HandleSkip, HandleQuiet, HandleError, file
    <2>2. CASE UNCHANGED net
      <3>1. StreamKept
        BY <1>1, <1>2, <2>1, <2>2 DEF StreamKept, net
      <3> QED
        BY <3>1, StreamKeptStep
    <2> QED
      BY <1>4, <2>1, <2>2
  <1>6. CASE HandleEof(i)
    <2>1. i \in enabled /\ Disconnect(i) /\ UNCHANGED <<bytes_done, disk>>
          /\ seg' = IF Remaining(seg, i) <= 0 THEN Reactivated(seg, i) ELSE seg
      BY <1>6 DEF HandleEof
    <2>2. \A k \in Conns : k # i => seg'[k].currentbyte = seg[k].currentbyte
      <3>1. CASE Remaining(seg, i) <= 0
        BY <2>1, <3>1, TakeTable
      <3> QED
        BY <2>1, <3>1
    <2> QED
      BY <1>4, <2>1, <2>2
  <1>7. ASSUME NEW n \in 1..BufferSize, HandleData(i, n) PROVE StreamInv'
    <2>1. i \in enabled /\ Consume(i, n) /\ ready' = ready /\ pc = "handle"
      BY <1>7 DEF HandleData, Handling, outcome
    <2>2. /\ \A k \in Conns : k # i => seg'[k].currentbyte = seg[k].currentbyte
          /\ ~Drops(i, n) => seg'[i].currentbyte = seg[i].currentbyte + n
      BY <1>7, ReadTable
    <2>3. CASE Drops(i, n)
      BY <1>4, <2>1, <2>2, <2>3 DEF Consume
    <2>4. CASE ~Drops(i, n)
      <3>1. enabled' = enabled /\ stream' = [stream EXCEPT ![i].from = @ + n]
        BY <2>1, <2>4 DEF Consume
      <3>2. stream'[i].from = stream[i].from + n /\ \A k \in Conns : k # i => stream'[k] = stream[k]
        BY <1>1, <3>1
      <3> SUFFICES ASSUME server.supported, ~server.rangeIgnored, (ready = 0 \/ pc = "start")'
                   PROVE  /\ \A k \in enabled' : stream'[k].from = seg'[k].currentbyte
                          /\ \A t \in Tids : thread'[t].at = "requested" =>
                                stream'[thread'[t].conn].from = seg'[thread'[t].conn].currentbyte
        BY <1>1 DEF StreamInv
      <3>3. ready = 0 \/ pc = "start"
        BY ReadyFinal
      <3>4. /\ \A k \in enabled : stream[k].from = seg[k].currentbyte
            /\ \A t \in Tids : thread[t].at = "requested" =>
                  stream[thread[t].conn].from = seg[thread[t].conn].currentbyte
        BY <1>1, <3>3 DEF StreamInv
      <3> QED
        BY <1>1, <1>2, <1>3, <2>1, <2>2, <2>4, <3>1, <3>2, <3>4
    <2> QED
      BY <2>3, <2>4
  <1>8. ASSUME NEW n \in 1..BufferSize, HandleWriteError(i, n) PROVE StreamInv'
    BY <1>8 DEF HandleWriteError, StreamInv
  <1> QED
    BY <1>5, <1>6, <1>7, <1>8 DEF Handle

(* No other step of the main thread touches a connection that is enabled. *)
LEMMA StreamMainStep ==
    ASSUME IInv, [Next]_vars, Main, ~ \E i \in Conns : Handle(i)
    PROVE  StreamKept
  <1>1. /\ thread \in [Tids -> [at : ThreadStates, conn : Conns]]
        /\ stream \in [Conns -> [from : 0..Size, to : 0..Size]]
        /\ enabled \subseteq Conns /\ cursor \in Conns
        /\ StartInv /\ ThreadInv
    BY ThreadTypes, StreamTypes DEF IInv
  <1>2. CASE StartIdle
    <2>1. /\ pc = "start" /\ Remaining(seg, cursor) <= 0 /\ seg' = Reactivated(seg, cursor)
          /\ UNCHANGED <<enabled, stream, thread, bytes_done, disk>>
      BY <1>2 DEF StartIdle, net, threads
    <2>2. \A k \in Conns : k # cursor => seg'[k].currentbyte = seg[k].currentbyte
      BY <1>1, <2>1, TakeTable
    <2>3. cursor \notin state /\ cursor \notin enabled
      BY <1>1, <2>1, Types DEF StartInv
    <2>4. \A t \in Tids : thread[t].at = "requested" => thread[t].conn \in Conns \ {cursor}
      BY <1>1, <2>3 DEF ThreadInv, Live
    <2> QED
      BY <1>1, <2>1, <2>2, <2>3, <2>4 DEF StreamKept
  <1>3. CASE UNCHANGED <<net, threads, seg>>
    BY <1>3 DEF StreamKept, net, threads
  <1>4. ASSUME UNCHANGED <<net, seg>>,
               \A t \in Tids : \/ thread'[t] = thread[t]
                               \/ thread'[t].at # "requested"
        PROVE  StreamKept
    BY <1>4 DEF StreamKept, net
  <1>5. CASE StartConn \/ StartFail
    <2>1. UNCHANGED <<net, seg>>
      BY <1>5 DEF StartConn, StartFail, file
    <2>2. thread' = thread \/ \E t \in Tids : thread' = [thread EXCEPT ![t] = [at |-> "created", conn |-> cursor]]
      BY <1>5 DEF StartConn, StartFail, CreateThread
    <2> QED
      BY <1>1, <1>4, <2>1, <2>2
  <1>6. ASSUME NEW i \in Conns, Check(i) PROVE StreamKept
    <2>1. UNCHANGED <<net, seg>>
      BY <1>6 DEF Check, CheckSkip, CheckRestart, CheckWait, CheckCancel, Recreate, Crash, file
    <2>2. \E table \in {thread, Joined(tid[i])} :
             \/ thread' = table
             \/ \E t \in Tids : thread' = [table EXCEPT ![t] = [at |-> "created", conn |-> i]]
      BY <1>6 DEF Check, CheckSkip, CheckRestart, CheckWait, CheckCancel, Recreate, Crash, CreateThread, threads
    <2>3. \A t \in Tids : thread'[t] = thread[t] \/ thread'[t].at \in {"free", "created"}
      BY <1>1, <2>2 DEF Joined
    <2> QED
      BY <1>4, <2>1, <2>3
  <1>7. ASSUME NEW i \in Conns, CloseConn(i) PROVE StreamKept
    <2>1. CASE Crash
      BY <1>3, <2>1 DEF Crash, file
    <2>2. CASE /\ thread' = IF Joinable(tid[i]) THEN Joined(tid[i]) ELSE thread
               /\ Disconnect(i) /\ UNCHANGED file
      <3>1. enabled' = enabled \ {i} /\ (\A k \in Conns : k # i => stream'[k] = stream[k]) /\ seg' = seg
        BY <1>1, <2>2 DEF Disconnect, file
      <3>2. \A t \in Tids : thread'[t].at = "requested" => thread'[t] = thread[t] /\ thread[t].conn # i
        BY <1>1, <2>2, ThreadTypes DEF ThreadInv, Joinable, Joined, Live
      <3> QED
        BY <1>1, <3>1, <3>2 DEF StreamKept
    <2> QED
      BY <1>7, <2>1, <2>2 DEF CloseConn
  <1> QED
    BY <1>2, <1>3, <1>5, <1>6, <1>7 DEF Main, LoopEnter, LoopLeave, ScanConn, SelectNone, SelectInterrupted,
       Select, DoTail, file

LEMMA StreamStep == IInv /\ [Next]_vars => StreamInv'
  <1> SUFFICES ASSUME IInv, [Next]_vars PROVE StreamInv'
    OBVIOUS
  <1>1. CASE UNCHANGED <<net, threads, seg>>
    <2>1. StreamKept
      BY <1>1 DEF StreamKept, net, threads
    <2> QED
      BY <2>1, StreamKeptStep
  <1>2. CASE Main
    BY <1>2, StreamHandleStep, StreamMainStep, StreamKeptStep
  <1>3. CASE Signal
    BY <1>1, <1>3 DEF Signal, file
  <1>4. CASE UNCHANGED vars
    BY <1>1, <1>4 DEF vars, moving, file
  <1> QED
    BY <1>2, <1>3, <1>4, StreamSetupStep DEF Next

-----------------------------------------------------------------------------
(***************************************************************************)
(* The content, the state file, the types                                  *)
(***************************************************************************)

LEMMA ContentStep == IInv /\ [Next]_vars => ContentCorrect'
  <1> SUFFICES ASSUME IInv, [Next]_vars, server.supported, ~server.rangeIgnored
               PROVE  (disk \subseteq good)'
    BY DEF ContentCorrect, Next, vars
  <1>1. disk \subseteq good
    BY DEF IInv, ContentCorrect
  <1>2. ASSUME NEW i \in Conns, NEW n \in 1..BufferSize, HandleData(i, n) PROVE (disk \subseteq good)'
    <2>1. i \in enabled /\ ready = 0
      BY <1>2 DEF HandleData, Handling, IInv, MainInv
    <2>2. stream[i].from = seg[i].currentbyte
      BY <2>1 DEF IInv, StreamInv
    <2> QED
      BY <1>1, <1>2, <2>2 DEF HandleData
  <1>3. CASE UNCHANGED file
    BY <1>1, <1>3 DEF file
  <1>4. CASE StartIdle
    BY <1>1, <1>4 DEF StartIdle
  <1>5. ASSUME NEW i \in Conns, HandleEof(i) PROVE (disk \subseteq good)'
    BY <1>1, <1>5 DEF HandleEof
  <1> QED
    BY <1>2, <1>3, <1>4, <1>5, TableFrame

(* After flux_close nothing happens but the end of a thread that escaped it. *)
LEMMA ResumableStep == IInv /\ [Next]_vars => ResumableOrDone'
  <1> SUFFICES ASSUME IInv, [Next]_vars, pc' = "done"
               PROVE  (/\ ready = 1 => ~statefile
                       /\ server.supported /\ ready # 1 /\ bytes_done > 0 => statefile)'
    BY DEF ResumableOrDone
  <1>1. server' = server /\ ResumableOrDone /\ N \in Nat /\ cursor \in 0..(N - 1)
    BY Types DEF IInv, Next, vars
  <1>2. CASE UNCHANGED <<pc, ready, statefile, bytes_done>>
    BY <1>1, <1>2 DEF ResumableOrDone
  <1>3. ASSUME NEW i \in Conns, Handle(i) \/ Check(i) PROVE FALSE
    <2>1. pc \in {"handle", "check"}
      BY <1>3 DEF Handle, HandleSkip, HandleQuiet, HandleError, HandleEof, HandleData, HandleWriteError, Handling,
         Check, CheckSkip, CheckRestart, CheckWait, CheckCancel, Checking
    <2>2. pc' \in {pc, "while", "check", "tail", "crashed"}
      BY <1>3 DEF Handle, HandleSkip, HandleQuiet, HandleError, HandleEof, HandleData, HandleWriteError, NextHandled,
         Check, CheckSkip, CheckRestart, CheckWait, CheckCancel, Recreate, Crash, NextConn
    <2> QED
      BY <2>1, <2>2
  <1>4. ASSUME NEW i \in Conns, CloseConn(i)
        PROVE  (/\ ready = 1 => ~statefile
                /\ server.supported /\ ready # 1 /\ bytes_done > 0 => statefile)'
    <2>1. pc = "close" /\ AfterClose /\ UNCHANGED <<ready, bytes_done>>
      BY <1>4 DEF CloseConn, Crash, file
    <2>2. cursor = N - 1
      BY <1>1, <2>1 DEF AfterClose, NextConn
    <2>3. ~(cursor < N - 1) /\ statefile \in BOOLEAN
      BY <1>1, <2>2 DEF IInv, TypeOK
    <2>4. CASE ready = 1
      <3>1. statefile' = FALSE
        BY <2>1, <2>3, <2>4 DEF AfterClose
      <3> QED
        BY <2>1, <2>4, <3>1
    <2>5. CASE ready # 1
      <3>1. statefile' = (statefile \/ (bytes_done > 0 /\ server.supported))
        BY <2>1, <2>3, <2>5 DEF AfterClose
      <3> QED
        BY <1>1, <2>1, <2>5, <3>1
    <2> QED
      BY <2>4, <2>5
  <1>5. CASE Main
    BY <1>3, <1>4, <1>5 DEF Main, StartIdle, StartConn, StartFail, AfterStart, LoopEnter, LoopLeave, ScanConn,
       SelectNone, SelectInterrupted, Select, DoTail, NextConn
  <1>6. CASE Signal
    BY <1>2, <1>6 DEF Signal, main, file
  <1>7. ASSUME NEW t \in Tids, SetupThread(t) PROVE UNCHANGED <<pc, ready, statefile, bytes_done>>
    BY <1>7 DEF SetupThread, ThreadLock, ThreadSetup, ThreadExec, ThreadFail, main, outcome, file
  <1>8. CASE UNCHANGED vars
    BY <1>2, <1>8 DEF vars, moving, main, outcome, file
  <1> QED
    BY <1>2, <1>5, <1>6, <1>7, <1>8 DEF Next

(* The sockets keep their types: what a server sends lies in the file. *)
NetTyped ==
    /\ enabled' \subseteq Conns
    /\ fd' \in [Conns -> Fds \cup {NoFd}]
    /\ stream' \in [Conns -> [from : 0..Size, to : 0..Size]]

LEMMA NetTypesStep == IInv /\ [Next]_vars => NetTyped
  <1> SUFFICES ASSUME IInv, [Next]_vars PROVE NetTyped
    OBVIOUS
  <1>1. /\ enabled \subseteq Conns /\ fd \in [Conns -> Fds \cup {NoFd}]
        /\ stream \in [Conns -> [from : 0..Size, to : 0..Size]]
        /\ Size \in Nat /\ 0 \in 0..Size /\ Size \in 0..Size
        /\ \A i \in Conns : seg[i].currentbyte \in 0..Size /\ seg[i].lastbyte \in 0..Size
        /\ \A t \in Tids : thread[t].conn \in Conns
    <2>1. \A i \in Conns : seg[i].currentbyte <= seg[i].lastbyte /\ seg[i].lastbyte <= Size
      BY DEF IInv, FileInv, Disjoint, Conns
    <2>2. /\ Size \in Nat /\ 0 \in 0..Size /\ Size \in 0..Size
          /\ \A i \in Conns : seg[i].currentbyte \in Nat /\ seg[i].lastbyte \in Nat
      BY Types
    <2>3. \A i \in Conns : seg[i].currentbyte \in 0..Size /\ seg[i].lastbyte \in 0..Size
      BY <2>1, <2>2
    <2> QED
      BY <2>2, <2>3, ThreadTypes, StreamTypes, FdTypes
  <1>2. CASE UNCHANGED net
    BY <1>1, <1>2 DEF net, NetTyped
  <1>3. ASSUME NEW i \in Conns, Disconnect(i) PROVE NetTyped
    <2>1. [from |-> 0, to |-> 0] \in [from : 0..Size, to : 0..Size]
      BY <1>1
    <2> QED
      BY <1>1, <1>3, <2>1 DEF Disconnect, NetTyped
  <1>4. ASSUME NEW i \in Conns, Handle(i) PROVE NetTyped
    <2>1. UNCHANGED net \/ Disconnect(i) \/ \E n \in 1..BufferSize : Consume(i, n) /\ n <= stream[i].to - stream[i].from
      BY <1>4 DEF Handle, HandleSkip, HandleQuiet, HandleError, HandleEof, HandleData, HandleWriteError
    <2>2. ASSUME NEW n \in 1..BufferSize, Consume(i, n), n <= stream[i].to - stream[i].from PROVE NetTyped
      <3>1. CASE Drops(i, n)
        BY <1>3, <2>2, <3>1 DEF Consume
      <3>2. CASE ~Drops(i, n)
        <4>1. stream' = [stream EXCEPT ![i].from = @ + n] /\ UNCHANGED <<enabled, fd>>
          BY <2>2, <3>2 DEF Consume
        <4>2. stream[i].from \in 0..Size /\ stream[i].to \in 0..Size /\ n \in Nat
          BY <1>1, Types
        <4>3. stream[i].from + n \in 0..Size
          BY <1>1, <2>2, <4>2
        <4> QED
          BY <1>1, <4>1, <4>3 DEF NetTyped
      <3> QED
        BY <3>1, <3>2
    <2> QED
      BY <1>2, <1>3, <2>1, <2>2
  <1>5. ASSUME NEW t \in Tids, SetupThread(t) PROVE NetTyped
    <2> DEFINE c == thread[t].conn
    <2>1. c \in Conns
      BY <1>1
    <2>2. CASE ThreadLock(t)
      BY <1>2, <2>2 DEF ThreadLock
    <2>3. CASE ThreadSetup(t)
      <3>1. /\ fd' = [fd EXCEPT ![c] = LowestFreeFd] /\ enabled' = enabled
            /\ stream' = [stream EXCEPT ![c] = RequestedBytes(c)] /\ thread[t].at = "locked"
        BY <2>3 DEF ThreadSetup
      <3>2. fd[c] = NoFd
        BY <3>1 DEF IInv, FdInv
      <3>3. LowestFreeFd \in Fds
        BY <2>1, <3>2, FreeFd
      <3>4. RequestedBytes(c) \in [from : 0..Size, to : 0..Size]
        BY <1>1, <2>1 DEF RequestedBytes
      <3> QED
        BY <1>1, <2>1, <3>1, <3>3, <3>4 DEF NetTyped
    <2>4. CASE ThreadExec(t)
      <3>1. enabled' = enabled \cup {c} /\ fd' = fd
            /\ (stream' = stream \/ stream' = [stream EXCEPT ![c] = [from |-> 0, to |-> Size]])
        BY <2>4 DEF ThreadExec
      <3>2. [from |-> 0, to |-> Size] \in [from : 0..Size, to : 0..Size]
        BY <1>1
      <3> QED
        BY <1>1, <2>1, <3>1, <3>2 DEF NetTyped
    <2>5. CASE ThreadFail(t)
      BY <1>3, <2>1, <2>5 DEF ThreadFail
    <2> QED
      BY <1>5, <2>2, <2>3, <2>4, <2>5 DEF SetupThread
  <1>6. ASSUME NEW i \in Conns, Check(i) PROVE UNCHANGED net
    BY <1>6 DEF Check, CheckSkip, CheckRestart, CheckWait, CheckCancel, Recreate, Crash
  <1>7. ASSUME NEW i \in Conns, CloseConn(i) PROVE UNCHANGED net \/ Disconnect(i)
    BY <1>7 DEF CloseConn, Crash
  <1>8. CASE Main
    <2>1. (\E i \in Conns : Handle(i) \/ Check(i) \/ CloseConn(i)) \/ UNCHANGED net
      BY <1>8 DEF Main, StartIdle, StartConn, StartFail, LoopEnter, LoopLeave, ScanConn, SelectNone,
         SelectInterrupted, Select, DoTail
    <2> QED
      BY <1>2, <1>3, <1>4, <1>6, <1>7, <2>1
  <1>9. CASE Signal
    BY <1>2, <1>9 DEF Signal
  <1>10. CASE UNCHANGED vars
    BY <1>2, <1>10 DEF vars, moving
  <1> QED
    BY <1>5, <1>8, <1>9, <1>10 DEF Next

ThreadsTyped ==
    /\ state' \subseteq Conns /\ lock' \subseteq Conns
    /\ tid' \in [Conns -> Tids \cup {NoThread}]
    /\ thread' \in [Tids -> [at : ThreadStates, conn : Conns]]

LEMMA ThreadTypesStep == IInv /\ [Next]_vars => ThreadsTyped
  <1> SUFFICES ASSUME IInv, [Next]_vars PROVE ThreadsTyped
    OBVIOUS
  <1>1. /\ state \subseteq Conns /\ lock \subseteq Conns
        /\ tid \in [Conns -> Tids \cup {NoThread}]
        /\ thread \in [Tids -> [at : ThreadStates, conn : Conns]]
        /\ 0 \in Conns /\ cursor \in Conns
    BY Types, ThreadTypes
  <1>2. CASE UNCHANGED threads
    BY <1>1, <1>2 DEF threads, ThreadsTyped
  <1>3. ASSUME NEW i \in Conns, NEW table \in [Tids -> [at : ThreadStates, conn : Conns]], CreateThread(i, table),
               UNCHANGED lock, state' = state \cup {i}
        PROVE  ThreadsTyped
    <2>1. PICK t \in Tids : tid' = [tid EXCEPT ![i] = t] /\ thread' = [table EXCEPT ![t] = [at |-> "created", conn |-> i]]
      BY <1>3 DEF CreateThread
    <2>2. [at |-> "created", conn |-> i] \in [at : ThreadStates, conn : Conns]
      BY DEF ThreadStates
    <2> QED
      BY <1>1, <1>3, <2>1, <2>2 DEF ThreadsTyped
  <1>4. \A u : Joinable(u) => u \in Tids \/ Joined(u) = thread
    BY <1>1 DEF Joined
  <1>5. \A u : Joined(u) \in [Tids -> [at : ThreadStates, conn : Conns]]
    <2>1. [at |-> "free", conn |-> 0] \in [at : ThreadStates, conn : Conns]
      BY <1>1 DEF ThreadStates
    <2> QED
      BY <1>1, <2>1 DEF Joined
  <1>6. CASE StartConn \/ StartFail
    BY <1>1, <1>3, <1>6 DEF StartConn, StartFail, ThreadsTyped
  <1>7. ASSUME NEW i \in Conns, CheckRestart(i) PROVE ThreadsTyped
    <2>1. (Crash \/ \E table \in {thread, Joined(tid[i])} : Recreate(i, table))
      BY <1>7 DEF CheckRestart
    <2>2. CASE Crash
      BY <1>2, <2>2 DEF Crash
    <2>3. ASSUME NEW table \in {thread, Joined(tid[i])}, Recreate(i, table) PROVE ThreadsTyped
      <3>1. table \in [Tids -> [at : ThreadStates, conn : Conns]]
        BY <1>1, <1>5
      <3>2. /\ state' = state \cup {i} /\ UNCHANGED lock
            /\ CreateThread(i, table) \/ (thread' = table /\ tid' = tid)
        BY <2>3 DEF Recreate
      <3> QED
        BY <1>1, <1>3, <3>1, <3>2 DEF ThreadsTyped
    <2> QED
      BY <2>1, <2>2, <2>3
  <1>8. ASSUME NEW i \in Conns, CheckCancel(i) \/ CloseConn(i) PROVE ThreadsTyped
    <2>1. \/ UNCHANGED threads
          \/ /\ state' \subseteq state /\ UNCHANGED <<lock, tid>>
             /\ thread' \in {thread, Joined(tid[i])}
      BY <1>8 DEF CheckCancel, CloseConn, Crash
    <2> QED
      BY <1>1, <1>2, <1>5, <2>1 DEF ThreadsTyped
  <1>9. ASSUME NEW t \in Tids, SetupThread(t) PROVE ThreadsTyped
    <2>1. /\ state' \subseteq state /\ lock' \subseteq lock \cup {thread[t].conn} /\ UNCHANGED tid
          /\ \E at \in {"locked", "requested", "exited"} : thread' = [thread EXCEPT ![t].at = at]
      BY <1>9 DEF SetupThread, ThreadLock, ThreadSetup, ThreadExec, ThreadFail, ThreadExit
    <2> QED
      BY <1>1, <2>1 DEF ThreadStates, ThreadsTyped
  <1> QED
    BY <1>2, <1>6, <1>7, <1>8, <1>9, ThreadFrame

MainTyped ==
    /\ pc' \in {"start", "while", "scan", "select", "handle", "check", "tail",
                "close", "done", "crashed"}
    /\ cursor' \in Conns /\ fds' \subseteq Fds
    /\ ready' \in {-1, 0, 1}
    /\ run' \in BOOLEAN /\ exit' \in {-1, 0, 2}

LEMMA MainTypesStep == IInv /\ [Next]_vars => MainTyped
  <1> SUFFICES ASSUME IInv, [Next]_vars PROVE MainTyped
    OBVIOUS
  <1>1. /\ pc \in {"start", "while", "scan", "select", "handle", "check", "tail",
                   "close", "done", "crashed"}
        /\ cursor \in Conns /\ fds \subseteq Fds
        /\ ready \in {-1, 0, 1}
        /\ run \in BOOLEAN /\ exit \in {-1, 0, 2}
        /\ 0 \in Conns /\ Conns = 0..(N - 1) /\ N \in Nat
    BY Types DEF IInv, TypeOK
  <1>2. ASSUME NEW after \in {"while", "select", "check", "tail", "done"}, NextConn(after)
        PROVE  /\ pc' \in {"start", "while", "scan", "select", "handle", "check", "tail",
                           "close", "done", "crashed"}
               /\ cursor' \in Conns
    BY <1>1, <1>2 DEF NextConn
  <1>3. CASE UNCHANGED <<main, ready, run, exit>>
    BY <1>1, <1>3 DEF main, MainTyped
  <1>4. ASSUME NEW i \in Conns, Handle(i) PROVE MainTyped
    <2>1. /\ ready' \in {-1, 0, 1} /\ UNCHANGED <<run, exit>>
          /\ NextHandled(ready') \/ (pc' = "while" /\ cursor' = 0 /\ fds' = {})
      BY <1>1, <1>4 DEF Handle, HandleSkip, HandleQuiet, HandleError, HandleEof, HandleData, HandleWriteError, outcome
    <2> QED
      BY <1>1, <1>2, <2>1 DEF NextHandled, MainTyped
  <1>5. ASSUME NEW i \in Conns, Check(i) PROVE MainTyped
    <2>1. /\ ready' \in {ready, -1} /\ UNCHANGED <<run, exit>>
          /\ (NextConn("tail") /\ fds' = fds) \/ (pc' = "crashed" /\ cursor' = 0 /\ fds' = {})
      BY <1>5 DEF Check, CheckSkip, CheckRestart, CheckWait, CheckCancel, Recreate, Crash, outcome
    <2> QED
      BY <1>1, <1>2, <2>1 DEF MainTyped
  <1>6. ASSUME NEW i \in Conns, CloseConn(i) PROVE MainTyped
    <2>1. /\ UNCHANGED <<ready, run, exit>>
          /\ (NextConn("done") /\ fds' = fds) \/ (pc' = "crashed" /\ cursor' = 0 /\ fds' = {})
      BY <1>6 DEF CloseConn, AfterClose, Crash, outcome
    <2> QED
      BY <1>1, <1>2, <2>1 DEF MainTyped
  <1>7. CASE StartIdle \/ StartConn \/ StartFail
    <2>1. /\ ready' \in {ready, 0, -1} /\ UNCHANGED <<run, exit, fds>> /\ NextConn("while")
      BY <1>7 DEF StartIdle, StartConn, StartFail, AfterStart
    <2> QED
      BY <1>1, <1>2, <2>1 DEF MainTyped
  <1>8. CASE ScanConn
    <2>1. UNCHANGED <<ready, run, exit>> /\ NextConn("select")
          /\ (fds' = fds \/ (fds' = fds \cup {fd[cursor]} /\ cursor \in enabled))
      BY <1>8 DEF ScanConn, outcome
    <2>2. cursor \in enabled => fd[cursor] \in Fds
      BY <1>1, FdTypes DEF IInv, FdInv
    <2> QED
      BY <1>1, <1>2, <2>1, <2>2 DEF MainTyped
  <1>9. CASE LoopEnter \/ LoopLeave \/ SelectNone \/ SelectInterrupted \/ (\E some \in SUBSET fds : Select(some)) \/ DoTail
    BY <1>1, <1>9 DEF LoopEnter, LoopLeave, SelectNone, SelectInterrupted, Select, DoTail, outcome, MainTyped
  <1>10. CASE Main
    <2> QED
      BY <1>4, <1>5, <1>6, <1>7, <1>8, <1>9, <1>10 DEF Main
  <1>11. CASE Signal
    BY <1>1, <1>11 DEF Signal, main, MainTyped
  <1>12. ASSUME NEW t \in Tids, SetupThread(t) PROVE UNCHANGED <<main, ready, run, exit>>
    BY <1>12 DEF SetupThread, ThreadLock, ThreadSetup, ThreadExec, ThreadFail, outcome
  <1>13. CASE UNCHANGED vars
    BY <1>3, <1>13 DEF vars, moving, outcome
  <1>14. MainTyped
    BY <1>3, <1>10, <1>11, <1>12, <1>13 DEF Next
  <1> QED
    BY <1>14 DEF MainTyped

RestTyped ==
    /\ good' \subseteq 0..(Size - 1)
    /\ statefile' \in BOOLEAN
    /\ faults' \in 0..MaxFaults

LEMMA RestTypesStep == IInv /\ [Next]_vars => RestTyped
  <1> SUFFICES ASSUME IInv, [Next]_vars PROVE RestTyped
    OBVIOUS
  <1>1. /\ good \subseteq 0..(Size - 1) /\ statefile \in BOOLEAN
        /\ faults \in 0..MaxFaults /\ MaxFaults \in Nat
    BY EngineAssumption DEF IInv, TypeOK
  <1>2. \A kind \in FaultKinds : Fault(kind) => faults' \in 0..MaxFaults
    BY <1>1 DEF Fault
  <1>3. NoFault => faults' \in 0..MaxFaults
    BY <1>1 DEF NoFault
  <1>4. CASE UNCHANGED <<good, statefile, faults>>
    BY <1>1, <1>4 DEF RestTyped
  <1>5. ASSUME NEW i \in Conns, Handle(i) PROVE RestTyped
    <2>1. UNCHANGED statefile
      BY <1>5 DEF Handle, HandleSkip, HandleQuiet, HandleError, HandleEof, HandleData, HandleWriteError, outcome
    <2>2. faults' \in 0..MaxFaults
      BY <1>2, <1>3, <1>5 DEF Handle, HandleSkip, HandleQuiet, HandleError, HandleEof, HandleData, HandleWriteError,
         FaultKinds
    <2>3. good' \subseteq 0..(Size - 1)
      <3>1. ASSUME NEW n \in 1..BufferSize, HandleData(i, n) PROVE good' \subseteq 0..(Size - 1)
        <4>1. disk' \subseteq 0..(Size - 1)
          BY <3>1, ReadTable DEF TableKept
        <4>2. Written(seg, i, n) \subseteq disk'
          BY <3>1 DEF HandleData
        <4>3. good' \subseteq good \cup Written(seg, i, n)
          BY <3>1 DEF HandleData
        <4> QED
          BY <1>1, <4>1, <4>2, <4>3
      <3>2. (\E n \in 1..BufferSize : HandleData(i, n)) \/ UNCHANGED good
        BY <1>5 DEF Handle, HandleSkip, HandleQuiet, HandleError, HandleEof, HandleWriteError, file
      <3> QED
        BY <1>1, <3>1, <3>2
    <2> QED
      BY <1>1, <2>1, <2>2, <2>3 DEF RestTyped
  <1>6. ASSUME NEW i \in Conns, Check(i) PROVE RestTyped
    <2>1. UNCHANGED <<good, statefile>>
      BY <1>6 DEF Check, CheckSkip, CheckRestart, CheckWait, CheckCancel, Recreate, Crash, file, outcome
    <2>2. faults' \in 0..MaxFaults
      BY <1>2, <1>3, <1>6 DEF Check, CheckSkip, CheckRestart, CheckWait, CheckCancel, Recreate, FaultKinds
    <2> QED
      BY <1>1, <2>1, <2>2 DEF RestTyped
  <1>7. ASSUME NEW i \in Conns, CloseConn(i) PROVE RestTyped
    <2>1. UNCHANGED good /\ NoFault /\ (AfterClose \/ UNCHANGED statefile)
      BY <1>7 DEF CloseConn, Crash, file, outcome
    <2>2. AfterClose => statefile' \in BOOLEAN
      BY <1>1 DEF AfterClose
    <2> QED
      BY <1>1, <1>3, <2>1, <2>2 DEF RestTyped
  <1>8. CASE Main
    <2>1. CASE StartIdle \/ StartConn \/ StartFail
      BY <1>1, <1>2, <1>3, <2>1 DEF StartIdle, StartConn, StartFail, file, RestTyped, FaultKinds
    <2>2. CASE LoopEnter \/ LoopLeave \/ ScanConn \/ DoTail
      BY <1>1, <1>3, <2>2 DEF LoopEnter, LoopLeave, ScanConn, DoTail, file, outcome, RestTyped
    <2>3. CASE SelectNone \/ SelectInterrupted \/ \E some \in SUBSET fds : Select(some)
      BY <1>1, <1>2, <1>3, <2>3 DEF SelectNone, SelectInterrupted, Select, file, outcome, RestTyped, FaultKinds
    <2> QED
      BY <1>5, <1>6, <1>7, <1>8, <2>1, <2>2, <2>3 DEF Main
  <1>9. CASE Signal
    BY <1>1, <1>2, <1>9 DEF Signal, file, RestTyped, FaultKinds
  <1>10. ASSUME NEW t \in Tids, SetupThread(t) PROVE RestTyped
    <2>1. UNCHANGED <<good, statefile>>
      BY <1>10 DEF SetupThread, ThreadLock, ThreadSetup, ThreadExec, ThreadFail, file, outcome
    <2>2. faults' \in 0..MaxFaults
      BY <1>1, <1>2, <1>10 DEF SetupThread, ThreadLock, ThreadSetup, ThreadExec, ThreadFail, FaultKinds
    <2> QED
      BY <1>1, <2>1, <2>2 DEF RestTyped
  <1>11. CASE UNCHANGED vars
    BY <1>4, <1>11 DEF vars, moving, file, outcome
  <1> QED
    BY <1>8, <1>9, <1>10, <1>11 DEF Next

LEMMA TypesStep == IInv /\ [Next]_vars => TypeOK'
  <1> SUFFICES ASSUME IInv, [Next]_vars PROVE TypeOK'
    OBVIOUS
  <1>1. TableKept /\ NetTyped /\ ThreadsTyped /\ MainTyped /\ RestTyped
    BY TableStep, NetTypesStep, ThreadTypesStep, MainTypesStep, RestTypesStep
  <1>2. server' \in Servers /\ N \in 1..Requested
    BY DEF IInv, TypeOK, Next, vars
  <1> QED
    BY <1>1, <1>2 DEF TypeOK, TableKept, NetTyped, ThreadsTyped, MainTyped, RestTyped

-----------------------------------------------------------------------------
(***************************************************************************)
(* The invariant                                                           *)
(***************************************************************************)

LEMMA NextIInv == IInv /\ [Next]_vars => IInv'
  <1> SUFFICES ASSUME IInv, [Next]_vars PROVE IInv'
    OBVIOUS
  <1>1. TypeOK' /\ FileInv'
    BY TypesStep, TableStep DEF TableKept
  <1>2. MainInv' /\ StartInv' /\ ThreadInv' /\ FdInv' /\ StreamInv'
    BY MainStep, StartedStep, ThreadStep, FdStep, StreamStep
  <1>3. ContentCorrect' /\ ResumableOrDone'
    BY ContentStep, ResumableStep
  <1> QED
    BY <1>1, <1>2, <1>3 DEF IInv

(* The invariant of one download: where the main thread is, which thread     *)
(* sets up which connection and holds its lock, whose descriptor is whose,   *)
(* and that what the servers send is what the segment table waits for.       *)
THEOREM Invariance == Spec => []IInv
  BY InitIInv, NextIInv, PTL DEF Spec

(* Every variable of a download has its type in every state: the segment     *)
(* table has one entry per connection, the descriptors and thread ids are    *)
(* those of the connections, bytes_done never exceeds the size of the file.  *)
THEOREM EngineTypeOK == Spec => []TypeOK
  BY Invariance, PTL DEF IInv

(* No lock is orphaned while flux_do runs: conn_check cancels a thread only   *)
(* with the lock of its connection in hand, so the thread has not taken it,   *)
(* and one thread at most sets a connection up.                               *)
THEOREM LocksNotOrphaned == Spec => []NoOrphanedLock
  <1>1. IInv => NoOrphanedLock
    <2> SUFFICES ASSUME IInv, Downloading, NEW i \in Conns
                 PROVE  /\ i \in lock <=> \E t \in Tids : HoldsLock(t) /\ thread[t].conn = i
                        /\ \A t, u \in Tids : (SetsUp(t, i) /\ SetsUp(u, i)) => t = u
      BY DEF NoOrphanedLock
    <2>1. ThreadInv /\ InLoop /\ tid \in [Conns -> Tids \cup {NoThread}]
      BY ThreadTypes DEF IInv, TypeOK, Downloading, InLoop
    <2>2. i \in lock => \E t \in Tids : HoldsLock(t) /\ thread[t].conn = i
      BY <2>1 DEF ThreadInv
    <2>3. (\E t \in Tids : HoldsLock(t) /\ thread[t].conn = i) => i \in lock
      BY <2>1 DEF ThreadInv
    <2>4. \A t, u \in Tids : (SetsUp(t, i) /\ SetsUp(u, i)) => t = u
      BY <2>1 DEF ThreadInv, SetsUp
    <2> QED
      BY <2>2, <2>3, <2>4
  <1> QED
    BY <1>1, Invariance, PTL

(* The main thread reads an enabled connection through a descriptor of its    *)
(* own, and no setup thread works on that connection meanwhile.               *)
THEOREM SocketsExclusive == Spec => []SocketExclusive
  <1>1. IInv => SocketExclusive
    <2> SUFFICES ASSUME IInv, NEW i \in enabled
                 PROVE  /\ fd[i] # NoFd
                        /\ \A j \in Conns \ {i} : fd[j] # fd[i]
                        /\ \A t \in Tids : ~SetsUp(t, i)
      BY DEF SocketExclusive
    <2>1. i \in Conns /\ i \notin state /\ fd[i] # NoFd /\ FdInv
      BY ThreadTypes DEF IInv, FdInv
    <2> QED
      BY <2>1, NoThreadOf DEF FdInv, SetsUp
  <1> QED
    BY <1>1, Invariance, PTL

(* With servers that honour ranges, what the server sends next on a           *)
(* connection is the byte that connection writes next, however often segments *)
(* were handed over and connections dropped and set up again.                 *)
THEOREM OwnPart == Spec => []DownloadsOwnPart
  <1>1. IInv => DownloadsOwnPart
    BY DEF IInv, StreamInv, DownloadsOwnPart
  <1> QED
    BY <1>1, Invariance, PTL

(* With servers that honour ranges, every offset counted in bytes_done holds  *)
(* the server's byte for that offset.                                         *)
THEOREM ContentIsCorrect == Spec => []ContentCorrect
  <1>1. IInv => ContentCorrect
    BY DEF IInv
  <1> QED
    BY <1>1, Invariance, PTL

(* flux_close leaves a state file when something was fetched of an unfinished *)
(* download, and none when the download is complete.                          *)
THEOREM ClosedResumableOrDone == Spec => []ResumableOrDone
  <1>1. IInv => ResumableOrDone
    BY DEF IInv
  <1> QED
    BY <1>1, Invariance, PTL

(* A download that reports itself complete left the server's file on the disk. *)
CompleteIsRight ==
    (server.supported /\ ~server.rangeIgnored /\ ready = 1) => good = 0..(Size - 1)

(* With servers that honour ranges, ready = 1 means that every offset of the   *)
(* local file holds the server's byte, through every steal, reconnection,     *)
(* time-out and failed write before it.                                       *)
THEOREM ReadyMeansRight == Spec => []CompleteIsRight
  <1>1. IInv => CompleteIsRight
    <2> SUFFICES ASSUME IInv, server.supported, ~server.rangeIgnored, ready = 1
                 PROVE  good = 0..(Size - 1)
      BY DEF CompleteIsRight
    <2>1. /\ Size \in Nat /\ disk \in SUBSET (0..(Size - 1)) /\ Cardinality(disk) = Size
          /\ disk \subseteq good /\ good \subseteq 0..(Size - 1)
      BY Types DEF IInv, TypeOK, FileInv, MainInv, ContentCorrect
    <2>2. disk = 0..(Size - 1)
      BY <2>1, OffsetsOfFile
    <2> QED
      BY <2>1, <2>2
  <1> QED
    BY <1>1, Invariance, PTL

-----------------------------------------------------------------------------
(***************************************************************************)
(* What Transfer promises                                                  *)
(***************************************************************************)

(* The operators Transfer uses are those of this module. *)
LEMMA SameLayout ==
    /\ \A size, n : Abstract!Divide(size, n) = Divide(size, n)
    /\ \A fresh, size : Abstract!PartlyDone(fresh, size) = PartlyDone(fresh, size)
    /\ \A s : Abstract!Todo(s) = Todo(s)
    /\ \A s, i : /\ Abstract!Remaining(s, i) = Remaining(s, i)
                 /\ Abstract!Reactivated(s, i) = Reactivated(s, i)
    /\ \A s, i, n : /\ Abstract!Kept(s, i, n) = Kept(s, i, n)
                    /\ Abstract!Written(s, i, n) = Written(s, i, n)
                    /\ Abstract!Advanced(s, i, n) = Advanced(s, i, n)
  <1>1. \A size, n : Abstract!DivideConns(size, n) = DivideConns(size, n)
    BY DEF Abstract!DivideConns, DivideConns
  <1>2. \A size, n : Abstract!SegLen(size, n) = SegLen(size, n)
    BY <1>1 DEF Abstract!SegLen, SegLen
  <1>3. \A size, n : Abstract!Tail(size, n) = Tail(size, n)
    BY <1>2 DEF Abstract!Tail, Tail
  <1>4. \A size, n : Abstract!Divide(size, n) = Divide(size, n)
    BY <1>1, <1>2, <1>3 DEF Abstract!Divide, Divide
  <1>5. \A s, i : Abstract!Remaining(s, i) = Remaining(s, i)
    BY DEF Abstract!Remaining, Remaining
  <1>6. \A fresh, size : Abstract!PartlyDone(fresh, size) = PartlyDone(fresh, size)
    BY <1>5 DEF Abstract!PartlyDone, PartlyDone
  <1>7. \A s, i : Abstract!Span(s, i) = Span(s, i)
    BY DEF Abstract!Span, Span
  <1>8. \A s : Abstract!Todo(s) = Todo(s)
    BY <1>7 DEF Abstract!Todo, Todo
  <1>9. \A s : Abstract!Richest(s) = Richest(s)
    BY <1>5 DEF Abstract!Richest, Richest
  <1>10. \A s, i, j : Abstract!Halve(s, i, j) = Halve(s, i, j)
    BY <1>5 DEF Abstract!Halve, Halve
  <1>11. \A s, i : Abstract!Reactivated(s, i) = Reactivated(s, i)
    <2> TAKE s, i
    <2>1. Abstract!Richest(s) = Richest(s)
      BY <1>9
    <2>2. (CHOOSE j \in Abstract!Richest(s) : TRUE) = (CHOOSE j \in Richest(s) : TRUE)
      BY <2>1, Zenon
    <2>3. Abstract!Reactivated(s, i) = IF Richest(s) = {} THEN s
                                       ELSE Halve(s, i, CHOOSE j \in Abstract!Richest(s) : TRUE)
      BY <1>9, <1>10 DEF Abstract!Reactivated
    <2> QED
      BY <2>2, <2>3, Zenon DEF Reactivated
  <1>12. \A s, i, n : Abstract!Kept(s, i, n) = Kept(s, i, n)
    BY <1>5 DEF Abstract!Kept, Kept
  <1>13. \A s, i, n : Abstract!Written(s, i, n) = Written(s, i, n)
    BY <1>12 DEF Abstract!Written, Written
  <1>14. \A s, i, n : Abstract!Advanced(s, i, n) = Advanced(s, i, n)
    BY DEF Abstract!Advanced, Advanced
  <1> QED
    BY <1>4, <1>5, <1>6, <1>8, <1>11, <1>12, <1>13, <1>14

LEMMA AbstractInit == Init => (server.supported => Abstract!Init)
  <1> SUFFICES ASSUME Init, server.supported PROVE Abstract!Init
    OBVIOUS
  <1>1. Fresh = Divide(Size, Requested)
    BY DEF Fresh
  <1>2. seg \in PartlyDone(Fresh, Size)
    <2> DEFINE m == DivideConns(Size, Requested)
    <2>1. Size \in Nat \ {0} /\ Requested \in 1..MinChunkWorth
      BY EngineAssumption
    <2>2. m \in 1..Requested
      BY <2>1, DivideSums
    <2>3. m \in Nat \ {0}
      BY <2>1, <2>2, ChunkAssumption
    <2>4. Fresh \in Layouts(m)
      BY <1>1, <2>1, DividePartitions
    <2>5. \A i \in 0..(m - 1) : Remaining(Fresh, i) > 0
      BY <1>1, <2>1, DivideBounds
    <2> HIDE DEF m
    <2>6. \A i \in 0..(m - 1) : Remaining(Fresh, i) \in Int
      BY <2>4 DEF Layouts, Segment, Remaining
    <2>7. 0 \in 0..(m - 1) /\ \A i \in 0..(m - 1) : Remaining(Fresh, i) >= 0
      BY <2>3, <2>5, <2>6
    <2>8. Fresh \in PartlyDone(Fresh, Size)
      BY <2>1, <2>3, <2>4, <2>5, <2>7, PartlyDoneBounds
    <2> QED
      BY <2>8 DEF Init
  <1>3. /\ disk = Todo(Fresh) \ Todo(seg) /\ bytes_done = Cardinality(disk)
        /\ pc = "start"
    BY DEF Init
  <1>4. Abstract!Cardinality(disk) = Cardinality(disk)
    BY DEF Abstract!Cardinality, Cardinality
  <1> QED
    BY <1>1, <1>2, <1>3, <1>4, SameLayout DEF Abstract!Init

(* The ready of Transfer: nobody reads it before flux_start has cleared it. *)
AbstractReady == IF pc = "start" THEN 0 ELSE ready

(* A download that owes something is not complete. *)
LEMMA OwingIncomplete ==
    ASSUME IInv, NEW i \in Conns, Remaining(seg, i) > 0
    PROVE  bytes_done # Size
  <1>1. /\ N \in Nat /\ Size \in Nat /\ seg \in Layouts(N) /\ i \in 0..(N - 1)
        /\ disk \in SUBSET (0..(Size - 1))
        /\ disk \cup Todo(seg) = 0..(Size - 1)
        /\ disk \cap Todo(seg) = {} /\ bytes_done = Cardinality(disk)
    BY Types DEF IInv, FileInv
  <1>2. Todo(seg) # {}
    BY <1>1, RemainingTodo
  <1>3. disk # 0..(Size - 1)
    BY <1>1, <1>2
  <1> QED
    BY <1>1, <1>3, OffsetsOfFile

(* Where the steps of the main thread go. *)
AbstractStep ==
    \/ UNCHANGED <<seg, bytes_done, disk>> /\ AbstractReady' = AbstractReady
    \/ /\ UNCHANGED <<seg, bytes_done, disk>> /\ AbstractReady = 0
       /\ \/ AbstractReady' = -1
          \/ bytes_done = Size /\ AbstractReady' = 1
    \/ /\ AbstractReady = 0 /\ AbstractReady' = 0
       /\ \/ \E i \in Conns : /\ Remaining(seg, i) <= 0
                              /\ seg' = Reactivated(seg, i)
                              /\ UNCHANGED <<bytes_done, disk>>
          \/ \E i \in Conns, n \in 1..BufferSize : HandleData(i, n)

LEMMA AbstractHandle ==
    ASSUME IInv, [Next]_vars, server.supported, NEW i \in Conns, Handle(i)
    PROVE  AbstractStep
  <1>1. pc = "handle" /\ ready = 0
    BY DEF Handle, HandleSkip, HandleQuiet, HandleError, HandleEof, HandleData, HandleWriteError, Handling, IInv, MainInv
  <1>2. pc' # "start"
    BY <1>1 DEF Handle, HandleSkip, HandleQuiet, HandleError, HandleEof, HandleData, HandleWriteError, NextHandled, NextConn
  <1>3. AbstractReady = 0 /\ AbstractReady' = ready'
    BY <1>1, <1>2 DEF AbstractReady
  <1>4. CASE HandleSkip(i) \/ HandleQuiet(i) \/ HandleError(i)
    <2>1. UNCHANGED <<seg, bytes_done, disk>> /\ ready' = ready
      BY <1>4 DEF HandleSkip, HandleQuiet, HandleError, file, outcome
    <2> QED
      BY <1>1, <1>3, <2>1 DEF AbstractStep
  <1>5. CASE HandleEof(i)
    <2>1. /\ ready' = 0 /\ UNCHANGED <<bytes_done, disk>>
          /\ seg' = IF Remaining(seg, i) <= 0 THEN Reactivated(seg, i) ELSE seg
      BY <1>1, <1>5 DEF HandleEof
    <2> QED
      BY <1>3, <2>1 DEF AbstractStep
  <1>6. ASSUME NEW n \in 1..BufferSize, HandleData(i, n) PROVE AbstractStep
    <2>1. ready' = 0
      BY <1>1, <1>6 DEF HandleData, outcome
    <2> QED
      BY <1>3, <1>6, <2>1 DEF AbstractStep
  <1>7. ASSUME NEW n \in 1..BufferSize, HandleWriteError(i, n) PROVE AbstractStep
    <2>1. UNCHANGED <<seg, bytes_done, disk>> /\ ready' = -1
      BY <1>7 DEF HandleWriteError, file
    <2> QED
      BY <1>3, <2>1 DEF AbstractStep
  <1> QED
    BY <1>4, <1>5, <1>6, <1>7 DEF Handle

LEMMA AbstractSteps ==
    ASSUME IInv, [Next]_vars, server.supported
    PROVE  AbstractStep
  <1>1. /\ MainInv /\ N \in Nat /\ cursor \in 0..(N - 1) /\ cursor \in Conns
        /\ ready \in {-1, 0, 1}
    BY Types, ThreadTypes DEF IInv, TypeOK
  <1>2. CASE UNCHANGED <<seg, bytes_done, disk, ready, pc>>
    BY <1>2 DEF AbstractStep, AbstractReady
  <1>3. ASSUME NEW i \in Conns, Check(i) PROVE AbstractStep
    <2>1. pc = "check" /\ UNCHANGED <<seg, bytes_done, disk>>
      BY <1>3 DEF Check, CheckSkip, CheckRestart, CheckWait, CheckCancel, Checking, Recreate, Crash, file
    <2>2. pc' # "start" /\ ready' \in {ready, -1}
      BY <1>3, <2>1 DEF Check, CheckSkip, CheckRestart, CheckWait, CheckCancel, Recreate, Crash, NextConn, outcome
    <2>3. ready \in {0, -1}
      BY <1>1, <2>1 DEF MainInv
    <2> QED
      BY <2>1, <2>2, <2>3 DEF AbstractStep, AbstractReady
  <1>4. ASSUME NEW i \in Conns, CloseConn(i) PROVE AbstractStep
    <2>1. pc = "close" /\ pc' # "start" /\ UNCHANGED <<seg, bytes_done, disk, ready>>
      BY <1>4 DEF CloseConn, Crash, AfterClose, NextConn, file, outcome
    <2> QED
      BY <2>1 DEF AbstractStep, AbstractReady
  <1>5. CASE StartIdle \/ StartConn \/ StartFail
    <2>1. pc = "start" /\ NextConn("while") /\ (cursor = N - 1 => ready' = 0)
      BY <1>5 DEF StartIdle, StartConn, StartFail, AfterStart
    <2>2. AbstractReady = 0 /\ AbstractReady' = 0
      BY <1>1, <2>1 DEF AbstractReady, NextConn
    <2>3. \/ UNCHANGED <<seg, bytes_done, disk>>
          \/ /\ Remaining(seg, cursor) <= 0 /\ seg' = Reactivated(seg, cursor)
             /\ UNCHANGED <<bytes_done, disk>>
      BY <1>5 DEF StartIdle, StartConn, StartFail, file
    <2> QED
      BY <1>1, <2>2, <2>3 DEF AbstractStep
  <1>6. CASE LoopEnter \/ LoopLeave \/ ScanConn \/ SelectNone \/ \E some \in SUBSET fds : Select(some)
    <2>1. pc # "start" /\ pc' # "start" /\ UNCHANGED <<seg, bytes_done, disk, ready>>
      BY <1>6 DEF LoopEnter, LoopLeave, ScanConn, SelectNone, Select, NextConn, file, outcome
    <2> QED
      BY <2>1 DEF AbstractStep, AbstractReady
  <1>7. CASE SelectInterrupted
    <2>1. pc = "select" /\ pc' = "while" /\ UNCHANGED <<seg, bytes_done, disk>> /\ ready' = -1 /\ ready = 0
      BY <1>1, <1>7 DEF SelectInterrupted, file, MainInv
    <2> QED
      BY <2>1 DEF AbstractStep, AbstractReady
  <1>8. CASE DoTail
    <2>1. /\ pc = "tail" /\ pc' = "while" /\ UNCHANGED <<seg, bytes_done, disk>>
          /\ ready' = IF bytes_done = Size THEN 1 ELSE ready
      BY <1>8 DEF DoTail, file
    <2>2. ready = -1 => bytes_done # Size
      BY <1>1, <2>1, OwingIncomplete DEF MainInv
    <2>3. ready \in {0, -1}
      BY <1>1, <2>1 DEF MainInv
    <2>4. AbstractReady = ready /\ AbstractReady' = ready'
      BY <2>1 DEF AbstractReady
    <2> QED
      BY <2>1, <2>2, <2>3, <2>4 DEF AbstractStep
  <1>9. CASE Main
    BY <1>3, <1>4, <1>5, <1>6, <1>7, <1>8, <1>9, AbstractHandle DEF Main
  <1>10. CASE Signal
    BY <1>2, <1>10 DEF Signal, file, main
  <1>11. ASSUME NEW t \in Tids, SetupThread(t) PROVE UNCHANGED <<seg, bytes_done, disk, ready, pc>>
    BY <1>11 DEF SetupThread, ThreadLock, ThreadSetup, ThreadExec, ThreadFail, file, outcome, main
  <1>12. CASE UNCHANGED vars
    BY <1>2, <1>12 DEF vars, moving, file, outcome, main
  <1> QED
    BY <1>2, <1>9, <1>10, <1>11, <1>12 DEF Next

LEMMA AbstractNext ==
    IInv /\ [Next]_vars => [server.supported => Abstract!Next]_(Abstract!vars)
  <1> SUFFICES ASSUME IInv, [Next]_vars, server.supported
               PROVE  Abstract!Next \/ UNCHANGED Abstract!vars
    OBVIOUS
  <1>1. AbstractStep
    BY AbstractSteps
  <1>2. AbstractReady = (IF pc = "start" THEN 0 ELSE ready)
    BY DEF AbstractReady
  <1>3. AbstractReady' = (IF pc = "start" THEN 0 ELSE ready)'
    BY DEF AbstractReady
  <1>4. CASE UNCHANGED <<seg, bytes_done, disk>> /\ AbstractReady' = AbstractReady
    BY <1>4 DEF Abstract!vars, AbstractReady
  <1>5. CASE UNCHANGED <<seg, bytes_done, disk>> /\ AbstractReady = 0 /\ AbstractReady' = -1
    BY <1>5 DEF Abstract!Next, Abstract!GiveUp, AbstractReady
  <1>6. CASE UNCHANGED <<seg, bytes_done, disk>> /\ AbstractReady = 0 /\ AbstractReady' = 1 /\ bytes_done = Size
    BY <1>6 DEF Abstract!Next, Abstract!Complete, AbstractReady
  <1>7. ASSUME AbstractReady = 0, AbstractReady' = 0, NEW i \in Conns, Remaining(seg, i) <= 0,
               seg' = Reactivated(seg, i), UNCHANGED <<bytes_done, disk>>
        PROVE  Abstract!Next
    <2>1. Abstract!Reactivate(i)
      BY <1>7, SameLayout DEF Abstract!Reactivate, AbstractReady
    <2> QED
      BY <2>1 DEF Abstract!Next, Abstract!Conns, Conns
  <1>8. ASSUME AbstractReady = 0, AbstractReady' = 0, NEW i \in Conns, NEW n \in 1..BufferSize, HandleData(i, n)
        PROVE  Abstract!Next
    <2> DEFINE len == Kept(seg, i, n)
               advanced == Advanced(seg, i, len)
    <2>1. /\ disk' = disk \cup Written(seg, i, n)
          /\ bytes_done' = bytes_done + len
          /\ seg' = IF Reuses(i, n) THEN Reactivated(advanced, i) ELSE advanced
      BY <1>8 DEF HandleData
    <2>2. Reuses(i, n) => Remaining(advanced, i) <= 0
      <3>1. /\ seg \in [0..(N - 1) -> Segment] /\ i \in 0..(N - 1)
            /\ seg[i].currentbyte \in Nat /\ seg[i].lastbyte \in Nat
        BY Types DEF Layouts
      <3>2. Reuses(i, n) => len = seg[i].lastbyte - seg[i].currentbyte
        BY DEF Reuses, Kept, Remaining
      <3> HIDE DEF len
      <3>3. advanced[i].currentbyte = seg[i].currentbyte + len /\ advanced[i].lastbyte = seg[i].lastbyte
        BY <3>1 DEF Advanced, Segment
      <3> HIDE DEF advanced
      <3> QED
        BY <3>1, <3>2, <3>3 DEF Remaining
    <2>3. Abstract!Deliver(i, n)
      BY <1>8, <2>1, <2>2, SameLayout DEF Abstract!Deliver, AbstractReady
    <2> QED
      BY <2>3 DEF Abstract!Next, Abstract!Conns, Conns
  <1> QED
    BY <1>1, <1>4, <1>5, <1>6, <1>7, <1>8 DEF AbstractStep

(* flux_start, flux_do and flux_close, with their threads, sockets, locks and  *)
(* faults, do to the segment table, to bytes_done and to ready only what       *)
(* Transfer allows, whenever the first server honours ranges.                  *)
THEOREM EngineImplementsTransfer == Spec => ImplementsTransfer
  <1>1. Spec => (server.supported => Abstract!Init)
    BY AbstractInit DEF Spec
  <1>2. Spec => [][server.supported => Abstract!Next]_(Abstract!vars)
    BY Invariance, AbstractNext, PTL DEF Spec
  <1> QED
    BY <1>1, <1>2 DEF ImplementsTransfer

=============================================================================
