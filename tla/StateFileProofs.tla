-------------------------- MODULE StateFileProofs --------------------------
(***************************************************************************)
(* First the transfer of one file: its promises hold for every file size,  *)
(* every number of connections up to MIN_CHUNK_WORTH and every buffer      *)
(* size.                                                                   *)
(*                                                                         *)
(* Then the state file: as long as save_state is not cut short, a download *)
(* that is interrupted, killed and resumed any number of times is complete *)
(* when it says so.                                                        *)
(***************************************************************************)
EXTENDS StateFile, FluxLayoutProofs

-----------------------------------------------------------------------------
(***************************************************************************)
(* The transfer of one file                                                *)
(***************************************************************************)

(* CompleteMeansWhole follows from counting: bytes_done is the number of     *)
(* bytes on disk and these lie within the file.  That the count is right     *)
(* needs the bytes still owed to be disjoint from the bytes on disk, which   *)
(* needs the segments to be disjoint.                                        *)
IInv ==
    /\ TypeOK
    /\ size # 0
    /\ SegmentsDisjoint
    /\ NothingLost
    /\ BytesDoneExact
    /\ CompleteMeansWhole

LEMMA InitIInv == Init => IInv
  <1> SUFFICES ASSUME Init PROVE IInv
    OBVIOUS
  <1>1. size \in Nat \ {0}
    BY TransferAssumption DEF Init
  <1>2. PICK n \in 1..MinChunkWorth : /\ seg \in PartlyDone(Divide(size, n), size)
                                      /\ disk = Todo(Divide(size, n)) \ Todo(seg)
    BY TransferAssumption DEF Init
  <1> DEFINE m == DivideConns(size, n)
  <1>3. m \in 1..MinChunkWorth /\ m \in Nat
    BY <1>1, DivideSums, ChunkAssumption
  <1> HIDE DEF m
  <1>4. /\ Divide(size, n) \in Layouts(m)
        /\ Disjoint(Divide(size, n))
        /\ Todo(Divide(size, n)) = 0..(size - 1)
    BY <1>1, <1>2, DividePartitions DEF m
  <1>5. /\ seg \in Layouts(m)
        /\ Disjoint(seg)
        /\ Todo(seg) \subseteq 0..(size - 1)
    BY <1>1, <1>2, <1>3, <1>4, PartlyDonePreserves
  <1>6. NothingLost
    BY <1>2, <1>4, <1>5 DEF NothingLost
  <1>7. BytesDoneExact
    BY DEF BytesDoneExact, Init
  <1>8. disk \in SUBSET (0..(size - 1)) /\ Cardinality(disk) \in 0..size
    BY <1>1, <1>2, <1>4, OffsetsOfFile
  <1>9. TypeOK
    BY <1>1, <1>3, <1>5, <1>8 DEF TypeOK, Init
  <1> QED
    BY <1>1, <1>5, <1>6, <1>7, <1>9 DEF IInv, SegmentsDisjoint, CompleteMeansWhole, Init

(* One read: the bytes kept leave Todo and enter disk.                       *)
LEMMA DeliverIInv ==
    ASSUME IInv, NEW i \in Conns, NEW n \in 1..BufferSize, Deliver(i, n)
    PROVE  /\ IInv'
           /\ disk \subseteq disk'
           /\ Cardinality(disk') - Cardinality(disk) = bytes_done' - bytes_done
  <1> DEFINE len == Kept(seg, i, n)
             advanced == Advanced(seg, i, len)
             written == Written(seg, i, n)
  <1>1. PICK m \in 1..MinChunkWorth : seg \in Layouts(m)
    BY DEF IInv, TypeOK
  <1>2. m \in Nat /\ i \in 0..(m - 1) /\ Disjoint(seg)
    BY <1>1, ChunkAssumption DEF IInv, SegmentsDisjoint, Conns, Layouts
  <1>3. /\ seg[i].currentbyte \in Nat
        /\ len \in Nat
        /\ len <= Remaining(seg, i)
    BY <1>1, <1>2, TransferAssumption DEF Layouts, Segment, Disjoint, Kept, Remaining
  <1>3a. written = seg[i].currentbyte .. (seg[i].currentbyte + len - 1)
    BY DEF Written
  <1> HIDE DEF len, written
  <1>4. /\ advanced \in Layouts(m)
        /\ Disjoint(advanced)
        /\ Todo(advanced) = Todo(seg) \ written
        /\ written \subseteq Todo(seg)
    BY <1>1, <1>2, <1>3, <1>3a, AdvancedPreserves
  <1>5. /\ disk' = disk \cup written
        /\ bytes_done' = bytes_done + len
        /\ ready = 0
        /\ size' = size /\ ready' = ready
        /\ \/ seg' = advanced
           \/ Remaining(advanced, i) <= 0 /\ seg' = Reactivated(advanced, i)
    BY DEF Deliver, len, written
  <1> HIDE DEF advanced
  <1>6. /\ seg' \in Layouts(m)
        /\ Disjoint(seg')
        /\ Todo(seg') = Todo(seg) \ written
    BY <1>2, <1>4, <1>5, ReactivatedPreserves
  <1>7. /\ disk \cup Todo(seg) = 0..(size - 1)
        /\ disk \cap Todo(seg) = {}
        /\ bytes_done = Cardinality(disk)
        /\ bytes_done \in 0..size
        /\ size \in Nat \ {0}
    BY DEF IInv, NothingLost, BytesDoneExact, TypeOK
  <1>8. NothingLost'
    BY <1>4, <1>5, <1>6, <1>7 DEF NothingLost
  <1>9. Cardinality(disk') = Cardinality(disk) + len
    <2>1. IsFiniteSet(disk)
      BY <1>7, OffsetsOfFile
    <2>2. IsFiniteSet(written) /\ Cardinality(written) = len
      <3> DEFINE first == seg[i].currentbyte
                 final == first + len - 1
      <3>1. first \in Int /\ final \in Int /\ final - first + 1 = len
        BY <1>3
      <3>2. first > final <=> len = 0
        BY <1>3
      <3> HIDE DEF first, final
      <3>3. /\ IsFiniteSet(first..final)
            /\ Cardinality(first..final) = IF first > final THEN 0 ELSE final - first + 1
        BY <3>1, FS_Interval
      <3> QED
        BY <3>1, <3>2, <3>3, <1>3a DEF first, final
    <2>3. disk \cap written = {}
      BY <1>4, <1>7
    <2>4. Cardinality(disk \cap written) = 0
      BY <2>3, FS_EmptySet
    <2>5. Cardinality(disk \cup written) = Cardinality(disk) + len - 0
      BY <2>1, <2>2, <2>4, FS_Union
    <2> QED
      BY <2>5, <1>3, <1>5, <1>7
  <1>10. TypeOK'
    <2>1. disk' \in SUBSET (0..(size - 1)) /\ size' = size
      BY <1>5, <1>8 DEF NothingLost
    <2>2. Cardinality(disk') \in 0..size
      BY <2>1, <1>7, OffsetsOfFile
    <2>3. bytes_done' \in 0..size
      BY <2>2, <1>3, <1>5, <1>7, <1>9
    <2>4. ready' \in {-1, 0, 1} /\ disk' \subseteq Nat
      BY <2>1, <1>5
    <2> QED
      BY <1>6, <1>7, <2>1, <2>3, <2>4 DEF TypeOK
  <1>11. BytesDoneExact' /\ CompleteMeansWhole' /\ SegmentsDisjoint' /\ size' # 0
    BY <1>5, <1>6, <1>7, <1>9 DEF BytesDoneExact, CompleteMeansWhole, SegmentsDisjoint
  <1> QED
    BY <1>3, <1>5, <1>7, <1>8, <1>9, <1>10, <1>11 DEF IInv

LEMMA ReactivateIInv ==
    ASSUME IInv, NEW i \in Conns, Reactivate(i)
    PROVE  IInv'
  <1>1. PICK m \in 1..MinChunkWorth : seg \in Layouts(m)
    BY DEF IInv, TypeOK
  <1>2. m \in Nat /\ i \in 0..(m - 1) /\ Disjoint(seg)
    BY <1>1, ChunkAssumption DEF IInv, SegmentsDisjoint, Conns, Layouts
  <1>3. /\ seg' \in Layouts(m)
        /\ Disjoint(seg')
        /\ Todo(seg') = Todo(seg)
    BY <1>1, <1>2, ReactivatedPreserves DEF Reactivate
  <1>4. TypeOK'
    BY <1>1, <1>3 DEF IInv, TypeOK, Reactivate
  <1> QED
    BY <1>3, <1>4 DEF IInv, SegmentsDisjoint, NothingLost, BytesDoneExact,
                      CompleteMeansWhole, Reactivate

LEMMA CompleteIInv ==
    ASSUME IInv, Complete
    PROVE  IInv'
  <1>1. disk \in SUBSET (0..(size - 1)) /\ size \in Nat
    BY DEF IInv, NothingLost, TypeOK
  <1>2. Cardinality(disk) = size
    BY DEF IInv, BytesDoneExact, Complete
  <1>3. disk = 0..(size - 1)
    BY <1>1, <1>2, OffsetsOfFile
  <1> QED
    BY <1>3 DEF IInv, TypeOK, SegmentsDisjoint, NothingLost, BytesDoneExact,
                CompleteMeansWhole, Complete, Conns

LEMMA NextIInv == IInv /\ [Next]_vars => IInv'
  <1> SUFFICES ASSUME IInv, [Next]_vars PROVE IInv'
    OBVIOUS
  <1>1. CASE \E i \in Conns, n \in 1..BufferSize : Deliver(i, n)
    BY <1>1, DeliverIInv
  <1>2. CASE \E i \in Conns : Reactivate(i)
    BY <1>2, ReactivateIInv
  <1>3. CASE Complete
    BY <1>3, CompleteIInv
  <1>4. CASE GiveUp
    BY <1>4 DEF IInv, TypeOK, SegmentsDisjoint, NothingLost, BytesDoneExact,
                CompleteMeansWhole, GiveUp
  <1>5. CASE UNCHANGED vars
    BY <1>5 DEF IInv, TypeOK, SegmentsDisjoint, NothingLost, BytesDoneExact,
                CompleteMeansWhole, vars
  <1> QED
    BY <1>1, <1>2, <1>3, <1>4, <1>5 DEF Next

LEMMA Invariance == Spec => []IInv
  BY InitIInv, NextIInv, PTL DEF Spec

(* The segment table, the counter and the disk stay well typed.              *)
THEOREM TransferTypeOK == Spec => []TypeOK
  <1>1. IInv => TypeOK
    BY DEF IInv
  <1> QED
    BY <1>1, Invariance, PTL

(* flux_divide and reactivate_connection never give one byte to two          *)
(* connections.                                                              *)
THEOREM SegmentsStayDisjoint == Spec => []SegmentsDisjoint
  <1>1. IInv => SegmentsDisjoint
    BY DEF IInv
  <1> QED
    BY <1>1, Invariance, PTL

(* At any time the bytes on disk and the bytes owed are exactly the file.    *)
THEOREM NothingIsLost == Spec => []NothingLost
  <1>1. IInv => NothingLost
    BY DEF IInv
  <1> QED
    BY <1>1, Invariance, PTL

(* bytes_done counts the bytes on disk.                                      *)
THEOREM BytesDoneIsExact == Spec => []BytesDoneExact
  <1>1. IInv => BytesDoneExact
    BY DEF IInv
  <1> QED
    BY <1>1, Invariance, PTL

(* A download that reports itself complete has fetched the whole file.       *)
THEOREM CompleteIsWhole == Spec => []CompleteMeansWhole
  <1>1. IInv => CompleteMeansWhole
    BY DEF IInv
  <1> QED
    BY <1>1, Invariance, PTL

-----------------------------------------------------------------------------
(***************************************************************************)
(* The state file                                                          *)
(***************************************************************************)
Wrote(table) == \E m \in 1..MinChunkWorth : table \in Layouts(m)

(* The saved table is sound while it is being written, too: it is the one in  *)
(* memory.  Outside save_state a state file has all its fields.               *)
SavedOK ==
    /\ saved.exists \in BOOLEAN
    /\ saved.bytes_done \in 0..size
    /\ saved.fields \in Nat
    /\ saved.exists => Wrote(saved.seg) /\ saved.fields <= FieldCount(saved.seg)
    /\ saved.exists /\ datafile => Accounts(saved.seg, saved.bytes_done)
    /\ process \in {"saving", "closing"} => saved.exists /\ saved.fields < FieldCount(saved.seg)
    /\ process \notin {"saving", "closing"} /\ saved.exists
          => saved.fields = FieldCount(saved.seg)

SIInv ==
    /\ torn = FALSE
    /\ size \in Nat \ {0}
    /\ Wrote(seg)
    /\ bytes_done \in 0..size
    /\ disk \subseteq 0..(size - 1)
    /\ ready \in {-1, 0, 1}
    /\ process \in {"down", "opened", "running", "saving", "closing", "done"}
    /\ datafile \in BOOLEAN
    /\ runs \in 0..MaxRuns
    /\ process = "down" => ready = 0
    /\ process \in {"opened", "saving"} => ready = 0
    /\ Active => datafile
    /\ ResumeExact
    /\ CompleteMeansWhole
    /\ SavedOK

(* A table has at least the two leading fields and one connection's.          *)
LEMMA FieldCountType ==
    ASSUME NEW table, Wrote(table)
    PROVE  FieldCount(table) \in Nat /\ FieldCount(table) >= 4
  <1>1. PICK m \in 1..MinChunkWorth : table \in Layouts(m)
    BY DEF Wrote
  <1>2. DOMAIN table = 0..(m - 1) /\ m \in Nat \ {0}
    BY <1>1, ChunkAssumption DEF Layouts
  <1>3. Cardinality(0..(m - 1)) = m
    BY <1>2, FS_Interval
  <1> QED
    BY <1>2, <1>3 DEF FieldCount

(* An accounting gives the counter its range, and at its end the whole file.  *)
LEMMA AccountsBounds ==
    ASSUME size \in Nat \ {0}, disk \subseteq 0..(size - 1), NEW table, NEW done \in Int,
           Accounts(table, done)
    PROVE  /\ IsFiniteSet(Todo(table))
           /\ Cardinality(Todo(table)) \in 0..size
           /\ done \in 0..size
           /\ done = size => disk = 0..(size - 1)
  <1>1. /\ IsFiniteSet(Todo(table))
        /\ Cardinality(Todo(table)) \in 0..size
    BY OffsetsOfFile DEF Accounts
  <1>2. done + Cardinality(Todo(table)) = size
    BY DEF Accounts
  <1>3. done \in 0..size
    BY <1>1, <1>2
  <1>4. ASSUME done = size PROVE disk = 0..(size - 1)
    <2>1. Cardinality(Todo(table)) = 0
      BY <1>1, <1>2, <1>4
    <2>2. Todo(table) = {}
      BY <1>1, <2>1, FS_EmptySet
    <2>3. disk \cup Todo(table) = 0..(size - 1)
      BY DEF Accounts
    <2> QED
      BY <2>2, <2>3
  <1> QED
    BY <1>1, <1>3, <1>4

(* flux_divide accounts for the file with nothing done.                       *)
LEMMA AccountsDivided ==
    ASSUME size \in Nat \ {0}, disk \subseteq 0..(size - 1), NEW n \in 1..MinChunkWorth
    PROVE  Wrote(Divide(size, n)) /\ Accounts(Divide(size, n), 0)
  <1>1. /\ Divide(size, n) \in Layouts(DivideConns(size, n))
        /\ Disjoint(Divide(size, n))
        /\ Todo(Divide(size, n)) = 0..(size - 1)
    BY DividePartitions
  <1>2. DivideConns(size, n) \in 1..MinChunkWorth
    BY DivideSums, ChunkAssumption
  <1>3. Cardinality(0..(size - 1)) = size
    BY FS_Interval
  <1>4. 0 + Cardinality(Todo(Divide(size, n))) = size
    BY <1>1, <1>3
  <1>5. disk \cup Todo(Divide(size, n)) = 0..(size - 1)
    BY <1>1
  <1> QED
    BY <1>1, <1>2, <1>4, <1>5 DEF Wrote, Accounts

(* One read moves the bytes kept from the segments to the counter.            *)
LEMMA AccountsDelivered ==
    ASSUME size \in Nat \ {0}, disk \subseteq 0..(size - 1), Wrote(seg),
           bytes_done \in 0..size, Accounts(seg, bytes_done),
           NEW i \in Conns, NEW n \in 1..BufferSize, Deliver(i, n)
    PROVE  /\ Wrote(seg')
           /\ Accounts(seg, bytes_done)'
           /\ disk \subseteq disk'
           /\ disk' \subseteq 0..(size - 1)
           /\ bytes_done' \in 0..size
  <1> DEFINE len == Kept(seg, i, n)
             advanced == Advanced(seg, i, len)
             written == Written(seg, i, n)
  <1>1. PICK m \in 1..MinChunkWorth : seg \in Layouts(m)
    BY DEF Wrote
  <1>2. m \in Nat /\ i \in 0..(m - 1) /\ Disjoint(seg)
    BY <1>1, ChunkAssumption DEF Accounts, Conns, Layouts
  <1>3. seg[i].currentbyte \in Nat /\ len \in Nat /\ len <= Remaining(seg, i)
    BY <1>1, <1>2, TransferAssumption DEF Layouts, Segment, Disjoint, Kept, Remaining
  <1>4. written = seg[i].currentbyte .. (seg[i].currentbyte + len - 1)
    BY DEF Written
  <1> HIDE DEF len, written
  <1>5. /\ advanced \in Layouts(m)
        /\ Disjoint(advanced)
        /\ Todo(advanced) = Todo(seg) \ written
        /\ written \subseteq Todo(seg)
    BY <1>1, <1>2, <1>3, <1>4, AdvancedPreserves
  <1>6. /\ disk' = disk \cup written
        /\ bytes_done' = bytes_done + len
        /\ size' = size
        /\ \/ seg' = advanced
           \/ Remaining(advanced, i) <= 0 /\ seg' = Reactivated(advanced, i)
    BY DEF Deliver, len, written
  <1> HIDE DEF advanced
  <1>7. /\ seg' \in Layouts(m)
        /\ Disjoint(seg')
        /\ Todo(seg') = Todo(seg) \ written
    BY <1>2, <1>5, <1>6, ReactivatedPreserves
  <1>8. Cardinality(written) = len /\ IsFiniteSet(written)
    <2> DEFINE first == seg[i].currentbyte
               final == first + len - 1
    <2>1. first \in Int /\ final \in Int /\ final - first + 1 = len
      BY <1>3
    <2>2. first > final <=> len = 0
      BY <1>3
    <2> HIDE DEF first, final
    <2>3. /\ IsFiniteSet(first..final)
          /\ Cardinality(first..final) = IF first > final THEN 0 ELSE final - first + 1
      BY <2>1, FS_Interval
    <2> QED
      BY <2>1, <2>2, <2>3, <1>4 DEF first, final
  <1>9. IsFiniteSet(Todo(seg)) /\ Cardinality(Todo(seg)) \in Nat
    BY AccountsBounds
  <1>10. Cardinality(Todo(seg) \ written) = Cardinality(Todo(seg)) - len
    <2>1. Todo(seg) \cap written = written
      BY <1>5
    <2> QED
      BY <1>8, <1>9, <2>1, FS_Difference
  <1>11. Todo(seg) \subseteq 0..(size - 1) /\ disk \cup Todo(seg) = 0..(size - 1)
         /\ bytes_done + Cardinality(Todo(seg)) = size
    BY DEF Accounts
  <1>12. disk \subseteq disk' /\ disk' \subseteq 0..(size - 1)
    BY <1>5, <1>6, <1>11
  <1>13. bytes_done' + Cardinality(Todo(seg')) = size'
    BY <1>3, <1>6, <1>7, <1>9, <1>10, <1>11
  <1>14. Accounts(seg, bytes_done)'
    BY <1>5, <1>6, <1>7, <1>11, <1>13 DEF Accounts
  <1>15. Cardinality(Todo(seg')) \in Nat
    <2>1. Todo(seg') \in SUBSET (0..(size - 1))
      BY <1>7, <1>11
    <2>2. Cardinality(Todo(seg')) \in 0..size
      BY <2>1, OffsetsOfFile
    <2> QED
      BY <2>2
  <1>16. bytes_done' \in 0..size
    BY <1>3, <1>6, <1>13, <1>15
  <1> QED
    BY <1>7, <1>12, <1>14, <1>16 DEF Wrote

(* Handing over work changes no accounting.                                   *)
LEMMA AccountsReactivated ==
    ASSUME Wrote(seg), Accounts(seg, bytes_done), NEW i \in Conns, Reactivate(i)
    PROVE  Wrote(seg') /\ Accounts(seg, bytes_done)'
  <1>1. PICK m \in 1..MinChunkWorth : seg \in Layouts(m)
    BY DEF Wrote
  <1>2. m \in Nat /\ i \in 0..(m - 1) /\ Disjoint(seg)
    BY <1>1, ChunkAssumption DEF Accounts, Conns, Layouts
  <1>3. /\ seg' \in Layouts(m)
        /\ Disjoint(seg')
        /\ Todo(seg') = Todo(seg)
    BY <1>1, <1>2, ReactivatedPreserves DEF Reactivate
  <1> QED
    BY <1>3 DEF Wrote, Accounts, Reactivate

-----------------------------------------------------------------------------

LEMMA BlankWrote == Wrote(Blank)
  <1>1. Blank \in Layouts(1)
    BY DEF Blank, Layouts, Segment
  <1> QED
    BY <1>1, ChunkAssumption DEF Wrote

LEMMA SInitIInv == SInit => SIInv
  <1> SUFFICES ASSUME SInit PROVE SIInv
    OBVIOUS
  <1>1. size \in Nat \ {0} /\ 0 \in 0..MaxRuns
    BY TransferAssumption, StateFileAssumption DEF SInit
  <1>2. SavedOK
    BY <1>1 DEF SInit, SavedOK, NoStateFile
  <1>3. bytes_done \in 0..size /\ disk \subseteq 0..(size - 1)
    BY <1>1 DEF SInit
  <1>4. process = "down" /\ ready = 0 /\ datafile \in BOOLEAN /\ runs = 0 /\ Wrote(seg)
        /\ torn = FALSE
    BY BlankWrote DEF SInit
  <1> QED
    BY <1>1, <1>2, <1>3, <1>4 DEF SIInv, ResumeExact, CompleteMeansWhole, Active

(* A start: a fresh table, the saved one, or none.                            *)
LEMMA OpenIInv ==
    ASSUME SIInv, torn' = FALSE, OpenFresh \/ OpenResume \/ OpenRefused
    PROVE  SIInv'
  <1>1. /\ process = "down" /\ runs' \in 0..MaxRuns /\ ready' = 0
        /\ size' = size /\ disk' = disk /\ size \in Nat \ {0}
        /\ disk \subseteq 0..(size - 1)
    BY StateFileAssumption DEF SIInv, OpenFresh, OpenResume, OpenRefused, Started
  <1>2. CASE OpenFresh
    <2>1. PICK n \in 1..MinChunkWorth : seg' = Divide(size, n)
      BY <1>2, TransferAssumption DEF OpenFresh
    <2>2. Wrote(seg') /\ Accounts(seg', 0)
      BY <1>1, <2>1, AccountsDivided
    <2>3. bytes_done' = 0 /\ datafile' = TRUE /\ saved' = NoStateFile /\ process' = "opened"
      BY <1>2 DEF OpenFresh, DropStale
    <2>4. Accounts(seg, bytes_done)'
      BY <1>1, <2>2, <2>3 DEF Accounts
    <2>5. SavedOK'
      BY <1>1, <2>3 DEF SavedOK, NoStateFile
    <2> QED
      BY <1>1, <2>2, <2>3, <2>4, <2>5 DEF SIInv, ResumeExact, CompleteMeansWhole, Active
  <1>3. CASE OpenResume
    <2>1. /\ process' = "opened" /\ saved' = saved /\ datafile' = datafile
          /\ datafile /\ saved.exists
      BY <1>3 DEF OpenResume, SIInv
    <2>2. /\ saved.fields = FieldCount(saved.seg)
          /\ Wrote(saved.seg)
          /\ Accounts(saved.seg, saved.bytes_done)
          /\ saved.bytes_done \in 0..size
      BY <1>1, <2>1 DEF SIInv, SavedOK
    <2>3. FieldCount(saved.seg) \in Nat /\ FieldCount(saved.seg) >= 4
      BY <2>2, FieldCountType
    <2>4. seg' = saved.seg /\ bytes_done' = saved.bytes_done
      BY <1>3, <2>2, <2>3 DEF OpenResume, LoadedSeg, LoadedBytes, Short
    <2>5. Accounts(seg, bytes_done)'
      BY <1>1, <2>2, <2>4 DEF Accounts
    <2>6. SavedOK'
      BY <1>1, <2>1 DEF SIInv, SavedOK, Accounts
    <2> QED
      BY <1>1, <2>1, <2>2, <2>4, <2>5, <2>6 DEF SIInv, ResumeExact, CompleteMeansWhole, Active
  <1>4. CASE OpenRefused
    <2>1. /\ process' = process /\ saved' = saved /\ datafile' = datafile
          /\ seg' = seg /\ bytes_done' = bytes_done
      BY <1>4 DEF OpenRefused
    <2>2. SavedOK'
      BY <1>1, <2>1 DEF SIInv, SavedOK, Accounts
    <2> QED
      BY <1>1, <2>1, <2>2 DEF SIInv, ResumeExact, CompleteMeansWhole, Active
  <1> QED
    BY <1>2, <1>3, <1>4

(* A step of the transfer, state file unchanged.                              *)
LEMMA TransferringIInv ==
    ASSUME SIInv, torn' = FALSE, Transferring
    PROVE  SIInv'
  <1>1. UNCHANGED <<process, datafile, saved, runs>>
    BY DEF Transferring
  <1>2. /\ size \in Nat \ {0} /\ disk \subseteq 0..(size - 1) /\ Wrote(seg)
        /\ bytes_done \in 0..size /\ (Active => datafile)
        /\ (Active => Accounts(seg, bytes_done))
    BY DEF SIInv, ResumeExact
  <1>3. ASSUME NEW i \in Conns, NEW n \in 1..BufferSize, Fetch(i, n)
        PROVE  SIInv'
    <2>1. process = "running" /\ Deliver(i, n) /\ Accounts(seg, bytes_done)
      BY <1>2, <1>3 DEF Fetch, Active
    <2>2. /\ Wrote(seg')
          /\ Accounts(seg, bytes_done)'
          /\ disk \subseteq disk'
          /\ disk' \subseteq 0..(size - 1)
          /\ bytes_done' \in 0..size
      BY <1>2, <2>1, AccountsDelivered
    <2>3. size' = size /\ ready' = ready /\ ready = 0
      BY <2>1 DEF Deliver
    <2>4. SavedOK'
      BY <1>1, <2>2, <2>3 DEF SIInv, SavedOK, Accounts
    <2> QED
      BY <1>1, <2>1, <2>2, <2>3, <2>4 DEF SIInv, ResumeExact, CompleteMeansWhole, Active
  <1>4. ASSUME NEW i \in Conns, TakeOver(i)
        PROVE  SIInv'
    <2>1. Active /\ Reactivate(i)
      BY <1>4 DEF TakeOver, Active
    <2>2. Wrote(seg') /\ Accounts(seg, bytes_done)'
      BY <1>2, <2>1, AccountsReactivated
    <2>3. UNCHANGED <<size, bytes_done, disk, ready>>
      BY <2>1 DEF Reactivate
    <2>4. SavedOK'
      BY <1>1, <2>3 DEF SIInv, SavedOK, Accounts
    <2> QED
      BY <1>1, <2>2, <2>3, <2>4 DEF SIInv, ResumeExact, CompleteMeansWhole, Active
  <1>5. CASE Stop
    <2>1. /\ process = "running" /\ ready' \in {-1, 1}
          /\ UNCHANGED <<size, seg, bytes_done, disk>>
          /\ ready' = 1 => bytes_done = size
      BY <1>5 DEF Stop, Complete, GiveUp
    <2>2. ready' = 1 => disk = 0..(size - 1)
      BY <1>2, <2>1, AccountsBounds DEF Active
    <2>3. SavedOK'
      BY <1>1, <2>1 DEF SIInv, SavedOK, Accounts
    <2>4. ResumeExact'
      BY <1>1, <2>1 DEF SIInv, ResumeExact, Accounts, Active
    <2> QED
      BY <1>1, <2>1, <2>2, <2>3, <2>4 DEF SIInv, CompleteMeansWhole, Active
  <1> QED
    BY <1>3, <1>4, <1>5 DEF Transferring

(* save_state: what it writes is the table in memory.                         *)
LEMMA SaveIInv ==
    ASSUME SIInv, torn' = FALSE, SaveBegin \/ SaveField
    PROVE  SIInv'
  <1>1. CASE SaveBegin
    <2>1. /\ UNCHANGED <<size, seg, bytes_done, disk, ready, datafile, runs>>
          /\ process' = "saving" /\ Active /\ ready = 0 /\ saved' = Truncated
      BY <1>1 DEF SaveBegin, vars, Active
    <2>2. FieldCount(seg) \in Nat /\ FieldCount(seg) >= 4
      BY FieldCountType DEF SIInv
    <2>3. SavedOK'
      BY <2>1, <2>2 DEF SIInv, SavedOK, ResumeExact, Accounts, Truncated
    <2> QED
      BY <2>1, <2>3 DEF SIInv, ResumeExact, Accounts, CompleteMeansWhole, Active
  <1>2. CASE SaveField
    <2>1. /\ process \in {"saving", "closing"} /\ datafile
          /\ UNCHANGED <<size, disk, datafile, runs>>
          /\ saved' = [saved EXCEPT !.fields = @ + 1]
      BY <1>2 DEF SaveField, Leaves, vars, SIInv, Active
    <2>2. /\ saved.exists /\ Wrote(saved.seg) /\ saved.fields \in Nat
          /\ saved.fields < FieldCount(saved.seg)
          /\ Accounts(saved.seg, saved.bytes_done)
      BY <2>1 DEF SIInv, SavedOK
    <2>3. FieldCount(saved.seg) \in Nat
      BY <2>2, FieldCountType
    <2>4. /\ saved'.exists = saved.exists /\ saved'.seg = saved.seg
          /\ saved'.bytes_done = saved.bytes_done /\ saved'.fields = saved.fields + 1
      BY <2>1, <1>2 DEF SaveField, SIInv, SavedOK
    <2>5. /\ process' \in {"down", "running", "saving", "closing"}
          /\ process' \in {"saving", "closing"} <=> saved.fields + 1 # FieldCount(saved.seg)
          /\ process' = "saving" => process = "saving"
      BY <1>2, <2>1, <2>3 DEF SaveField, AfterSave
    <2>6. SavedOK'
      <3>1. Accounts(saved.seg, saved.bytes_done)'
        BY <2>1, <2>2, <2>4 DEF Accounts
      <3>2. /\ saved'.exists \in BOOLEAN /\ saved'.exists
            /\ saved'.bytes_done \in 0..size'
            /\ Wrote(saved'.seg)
        BY <2>1, <2>2, <2>4 DEF SIInv, SavedOK
      <3>3. /\ saved'.fields \in Nat
            /\ saved'.fields <= FieldCount(saved'.seg)
            /\ saved'.fields # FieldCount(saved'.seg) => saved'.fields < FieldCount(saved'.seg)
        BY <2>2, <2>3, <2>4
      <3>4. process' \in {"saving", "closing"} <=> saved'.fields # FieldCount(saved'.seg)
        BY <2>4, <2>5
      <3> QED
        BY <3>1, <3>2, <3>3, <3>4 DEF SavedOK
    <2>7. CASE process' = "down"
      <3>1. seg' = Blank /\ bytes_done' = 0 /\ ready' = 0
        BY <1>2, <2>7 DEF SaveField, Leaves, Forget
      <3> QED
        BY <2>1, <2>6, <2>7, <3>1, BlankWrote DEF SIInv, ResumeExact, CompleteMeansWhole, Active
    <2>8. CASE process' # "down"
      <3>1. UNCHANGED <<seg, bytes_done, ready>>
        BY <1>2, <2>8 DEF SaveField, Leaves, vars
      <3> QED
        BY <2>1, <2>5, <2>6, <2>8, <3>1
           DEF SIInv, ResumeExact, Accounts, CompleteMeansWhole, Active
    <2> QED
      BY <2>7, <2>8
  <1> QED
    BY <1>1, <1>2

(* The ends of a run, and what happens between two runs.                      *)
LEMMA LeaveIInv ==
    ASSUME SIInv, torn' = FALSE,
           CloseComplete \/ CloseIncomplete \/ Crash \/ RemoveData
    PROVE  SIInv'
  <1>1. CASE CloseComplete
    <2>1. /\ UNCHANGED <<size, seg, bytes_done, disk, ready, datafile, runs>>
          /\ process' = "done" /\ saved' = NoStateFile
      BY <1>1 DEF CloseComplete, vars
    <2>2. SavedOK'
      BY <2>1 DEF SIInv, SavedOK, NoStateFile
    <2> QED
      BY <2>1, <2>2 DEF SIInv, ResumeExact, CompleteMeansWhole, Active
  <1>2. CASE CloseIncomplete /\ bytes_done > 0
    <2>1. /\ UNCHANGED <<size, seg, bytes_done, disk, ready, datafile, runs>>
          /\ process' = "closing" /\ Active /\ saved' = Truncated
      BY <1>2 DEF CloseIncomplete, vars, Active
    <2>2. FieldCount(seg) \in Nat /\ FieldCount(seg) >= 4
      BY FieldCountType DEF SIInv
    <2>3. SavedOK'
      BY <2>1, <2>2 DEF SIInv, SavedOK, ResumeExact, Accounts, Truncated
    <2> QED
      BY <2>1, <2>3 DEF SIInv, ResumeExact, Accounts, CompleteMeansWhole, Active
  <1>3. CASE (CloseIncomplete /\ ~(bytes_done > 0)) \/ Crash
    <2>1. /\ UNCHANGED <<size, disk, datafile, saved, runs>>
          /\ seg' = Blank /\ bytes_done' = 0 /\ ready' = 0
          /\ process' = "down" /\ process \notin {"saving", "closing"}
      BY <1>3 DEF CloseIncomplete, Crash, Leaves, Forget
    <2>2. SavedOK'
      BY <2>1 DEF SIInv, SavedOK, Accounts
    <2> QED
      BY <2>1, <2>2, BlankWrote DEF SIInv, ResumeExact, CompleteMeansWhole, Active
  <1>4. CASE RemoveData
    <2>1. /\ UNCHANGED <<size, seg, bytes_done, ready, process, saved, runs>>
          /\ process = "down" /\ datafile' = FALSE /\ disk' = {}
      BY <1>4 DEF RemoveData
    <2>2. SavedOK'
      BY <2>1 DEF SIInv, SavedOK
    <2>3. /\ ready = 0
          /\ size \in Nat \ {0} /\ Wrote(seg) /\ bytes_done \in 0..size /\ runs \in 0..MaxRuns
      BY <2>1 DEF SIInv
    <2>4. ~Active'
      BY <2>1 DEF Active
    <2>5. ResumeExact' /\ CompleteMeansWhole'
      BY <2>1, <2>3, <2>4 DEF ResumeExact, CompleteMeansWhole
    <2> QED
      BY <2>1, <2>2, <2>3, <2>4, <2>5 DEF SIInv
  <1> QED
    BY <1>1, <1>2, <1>3, <1>4

(* Once a save has been cut short nothing is promised any more.               *)
SInv ==
    /\ torn \in BOOLEAN
    /\ ~torn => SIInv

LEMMA SNextIInv ==
    ASSUME SInv, [SNext]_allvars
    PROVE  SInv'
  <1>1. torn' \in BOOLEAN /\ (~torn' => ~torn)
    BY DEF SInv, SNext, SaveShort, Crash, allvars
  <1> SUFFICES ASSUME torn' = FALSE PROVE SIInv'
    BY <1>1 DEF SInv
  <1>2. SIInv
    BY <1>1 DEF SInv
  <1>3. CASE OpenFresh \/ OpenResume \/ OpenRefused
    BY <1>2, <1>3, OpenIInv
  <1>4. CASE Transferring
    BY <1>2, <1>4, TransferringIInv
  <1>5. CASE SaveBegin \/ SaveField
    BY <1>2, <1>5, SaveIInv
  <1>6. CASE SaveShort
    BY <1>6 DEF SaveShort
  <1>7. CASE CloseComplete \/ CloseIncomplete \/ Crash \/ RemoveData
    BY <1>2, <1>7, LeaveIInv
  <1>8. CASE UNCHANGED allvars
    BY <1>2, <1>8 DEF SIInv, Wrote, SavedOK, ResumeExact, CompleteMeansWhole, Accounts, Active,
                allvars, vars
  <1> QED
    BY <1>3, <1>4, <1>5, <1>6, <1>7, <1>8 DEF SNext

LEMMA SInvariance == SSpec => []SInv
  <1>1. SInit => SInv
    BY SInitIInv DEF SInv, SInit
  <1> QED
    BY <1>1, SNextIInv, PTL DEF SSpec

(* After any number of interruptions, crashes and restarts, a running         *)
(* download knows exactly which bytes are left, unless a save was cut short.  *)
THEOREM ResumeIsExact == SSpec => []ResumeExact
  <1>1. SInv => ResumeExact
    BY DEF SInv, SIInv, ResumeExact
  <1> QED
    BY <1>1, SInvariance, PTL

(* A complete state file never claims more than the output file holds.        *)
THEOREM SavedAlwaysCovers == SSpec => []SavedCovers
  <1>1. SInv => SavedCovers
    BY DEF SInv, SIInv, SavedOK, SavedCovers
  <1> QED
    BY <1>1, SInvariance, PTL

(* What is reported complete is whole, however often it was resumed.          *)
THEOREM ResumedIsWhole == SSpec => []ResumedWhole
  <1>1. SInv => ResumedWhole
    BY DEF SInv, SIInv, ResumedWhole
  <1> QED
    BY <1>1, SInvariance, PTL

-----------------------------------------------------------------------------
(***************************************************************************)
(* State files that were cut short                                         *)
(***************************************************************************)

(* Segments may be negative and may overlap, but they end within the file.    *)
Fits(table) ==
    \E m \in 1..MinChunkWorth :
        /\ table \in Layouts(m)
        /\ \A i \in 0..(m - 1) : table[i].lastbyte <= size

WithinInv ==
    /\ size \in Nat \ {0}
    /\ Fits(seg)
    /\ saved.exists => Fits(saved.seg)
    /\ WritesWithinFile

LEMMA FitsDivided ==
    ASSUME size \in Nat \ {0}, NEW n \in 1..MinChunkWorth
    PROVE  Fits(Divide(size, n))
  <1> DEFINE m == DivideConns(size, n)
  <1>1. m \in 1..n /\ Divide(size, n) \in Layouts(m)
    BY DivideSums, DividePartitions
  <1>2. m \in 1..MinChunkWorth
    BY <1>1, ChunkAssumption
  <1>3. \A i \in 0..(m - 1) : Divide(size, n)[i].lastbyte <= size
    BY DivideBounds
  <1> QED
    BY <1>1, <1>2, <1>3 DEF Fits

(* Taken for the old format, a state file gives each connection a currentbyte *)
(* it had, or another one's or the end of another one's segment.              *)
LEMMA FitsLoaded ==
    ASSUME size \in Nat \ {0}, Fits(saved.seg)
    PROVE  Fits(LoadedSeg)
  <1>1. PICK m \in 1..MinChunkWorth : saved.seg \in Layouts(m)
    BY DEF Fits
  <1>2. m \in Nat \ {0} /\ DOMAIN saved.seg = 0..(m - 1) /\ Cardinality(0..(m - 1)) = m
    <2>1. m \in Nat \ {0} /\ m - 1 \in Int /\ 0 \in Int
      BY ChunkAssumption
    <2>2. Cardinality(0..(m - 1)) = IF 0 > m - 1 THEN 0 ELSE (m - 1) - 0 + 1
      BY <2>1, FS_Interval
    <2>3. Cardinality(0..(m - 1)) = m
      BY <2>1, <2>2
    <2>4. DOMAIN saved.seg = 0..(m - 1)
      BY <1>1 DEF Layouts
    <2> QED
      BY <2>1, <2>3, <2>4
  <1>3. DivideConns(size, m) \in 1..m
    BY <1>1, DivideSums
  <1>4. PICK k \in 1..MinChunkWorth : /\ Divide(size, m) \in Layouts(k)
                                      /\ \A i \in 0..(k - 1) : Divide(size, m)[i].lastbyte <= size
    BY FitsDivided DEF Fits
  <1>5. k \in Nat /\ DOMAIN Divide(size, m) = 0..(k - 1) /\ k <= m
    <2>1. DOMAIN Divide(size, m) = 0..(k - 1) /\ DOMAIN Divide(size, m) = 0..(DivideConns(size, m) - 1)
      BY <1>4 DEF Layouts, Divide
    <2>2. k - 1 \in 0..(DivideConns(size, m) - 1)
      BY <2>1, <1>3, <1>4, ChunkAssumption
    <2> QED
      BY <2>1, <2>2, <1>2, <1>3, ChunkAssumption
  <1>6. ASSUME NEW i \in 0..(k - 1) PROVE TableField(i) \in Nat
    <2>1. i \in Nat /\ i <= m - 1
      BY <1>2, <1>5
    <2>2. i \div 2 \in Nat /\ i \div 2 <= i
      BY <2>1
    <2>3. i \div 2 \in 0..(m - 1)
      BY <2>1, <2>2, <1>2
    <2>4. saved.seg[i \div 2].currentbyte \in Nat /\ saved.seg[i \div 2].lastbyte \in Nat
      BY <2>3, <1>1 DEF Layouts, Segment
    <2> QED
      BY <2>4 DEF TableField
  <1> DEFINE divided == Divide(size, m)
             entry(i) == IF i + 2 < saved.fields THEN [divided[i] EXCEPT !.currentbyte = TableField(i)]
                                                 ELSE divided[i]
  <1>7. LoadedOldFormat = [i \in 0..(k - 1) |-> entry(i)]
    BY <1>2, <1>5 DEF LoadedOldFormat
  <1>8. ASSUME NEW i \in 0..(k - 1) PROVE entry(i) \in Segment /\ entry(i).lastbyte <= size
    <2>1. divided[i] \in Segment /\ divided[i].lastbyte <= size
      BY <1>4 DEF Layouts
    <2>2. TableField(i) \in Nat
      BY <1>6
    <2> HIDE DEF divided
    <2> QED
      BY <2>1, <2>2 DEF Segment
  <1> HIDE DEF entry, divided
  <1>9. Fits(LoadedOldFormat)
    BY <1>4, <1>7, <1>8 DEF Fits, Layouts
  <1> QED
    BY <1>9 DEF LoadedSeg

(* A read is written within the file if its segment ends there.               *)
LEMMA WithinTransferring ==
    ASSUME WithinInv, Transferring
    PROVE  WithinInv'
  <1>1. PICK m \in 1..MinChunkWorth : seg \in Layouts(m) /\ \A i \in 0..(m - 1) : seg[i].lastbyte <= size
    BY DEF WithinInv, Fits
  <1>2. /\ m \in Nat /\ Conns = 0..(m - 1) /\ size \in Nat
        /\ \A i \in Conns : seg[i].currentbyte \in Nat /\ seg[i].lastbyte \in Nat /\ seg[i].lastbyte <= size
        /\ disk \subseteq 0..(size - 1)
    BY <1>1, ChunkAssumption DEF WithinInv, Conns, Layouts, Segment, WritesWithinFile
  <1>3. UNCHANGED <<size, saved>>
    BY DEF Transferring, Fetch, TakeOver, Stop, Deliver, Reactivate, Complete, GiveUp
  <1>4. ASSUME NEW i \in Conns, Reactivate(i) PROVE Fits(seg)' /\ disk' = disk
    <2>1. seg' = Reactivated(seg, i) /\ Remaining(seg, i) <= 0 /\ disk' = disk
      BY <1>4 DEF Reactivate
    <2>2. seg' \in Layouts(m) /\ \A k \in 0..(m - 1) : seg'[k].lastbyte <= size
      BY <1>1, <1>2, <2>1, ReactivatedBounds
    <2> QED
      BY <1>3, <2>1, <2>2 DEF Fits
  <1>5. ASSUME NEW i \in Conns, NEW n \in 1..BufferSize, Fetch(i, n) PROVE Fits(seg)' /\ disk' \subseteq 0..(size - 1)
    <2> DEFINE len == Kept(seg, i, n)
               advanced == Advanced(seg, i, len)
    <2>1. /\ Remaining(seg, i) >= 0
          /\ disk' = disk \cup Written(seg, i, n)
          /\ \/ seg' = advanced
             \/ Remaining(advanced, i) <= 0 /\ seg' = Reactivated(advanced, i)
      BY <1>5 DEF Fetch, Deliver
    <2>2. len \in Nat /\ seg[i].currentbyte + len <= seg[i].lastbyte
          /\ Written(seg, i, n) = seg[i].currentbyte .. (seg[i].currentbyte + len - 1)
      BY <1>2, <2>1, TransferAssumption DEF Kept, Remaining, Written
    <2> HIDE DEF len
    <2>3. disk' \subseteq 0..(size - 1)
      <3>1. seg[i].currentbyte + len - 1 <= size - 1 /\ seg[i].currentbyte >= 0
            /\ seg[i].currentbyte \in Nat
        BY <1>2, <2>2
      <3>2. seg[i].currentbyte .. (seg[i].currentbyte + len - 1) \subseteq 0..(size - 1)
        BY <3>1, <1>2, <2>2
      <3> QED
        BY <1>2, <2>1, <2>2, <3>2
    <2>4. advanced \in Layouts(m) /\ \A k \in 0..(m - 1) : advanced[k].lastbyte <= size
      <3>1. [seg[i] EXCEPT !.currentbyte = @ + len] \in Segment
        BY <1>1, <1>2, <2>2 DEF Layouts, Segment
      <3>2. advanced = [k \in 0..(m - 1) |-> IF k = i THEN [seg[i] EXCEPT !.currentbyte = @ + len] ELSE seg[k]]
        BY <1>1, <1>2 DEF Advanced, Layouts
      <3>3. [seg[i] EXCEPT !.currentbyte = @ + len].lastbyte = seg[i].lastbyte
        BY <1>1, <1>2 DEF Layouts, Segment
      <3> HIDE DEF advanced
      <3> QED
        BY <1>1, <1>2, <3>1, <3>2, <3>3 DEF Layouts
    <2> HIDE DEF advanced
    <2>5. seg' \in Layouts(m) /\ \A k \in 0..(m - 1) : seg'[k].lastbyte <= size
      <3>1. CASE Remaining(advanced, i) <= 0 /\ seg' = Reactivated(advanced, i)
        <4>1. /\ Reactivated(advanced, i) \in Layouts(m)
              /\ \A k \in 0..(m - 1) : Reactivated(advanced, i)[k].lastbyte <= size
          BY <1>2, <2>4, <3>1, ReactivatedBounds
        <4> QED
          BY <3>1, <4>1
      <3> QED
        BY <2>1, <2>4, <3>1
    <2> QED
      BY <1>3, <2>3, <2>5 DEF Fits
  <1>6. CASE Stop
    BY <1>3, <1>6 DEF Stop, Complete, GiveUp, WithinInv, Fits, WritesWithinFile
  <1> QED
    BY <1>2, <1>3, <1>4, <1>5, <1>6 DEF Transferring, TakeOver, WithinInv, Fits, WritesWithinFile

LEMMA WithinNext == WithinInv /\ [SNext]_allvars => WithinInv'
  <1> SUFFICES ASSUME WithinInv, [SNext]_allvars PROVE WithinInv'
    OBVIOUS
  <1>1. size \in Nat \ {0} /\ Fits(seg) /\ (saved.exists => Fits(saved.seg)) /\ disk \subseteq 0..(size - 1)
    BY DEF WithinInv, WritesWithinFile
  <1>2. ASSUME UNCHANGED <<size, disk>>, \/ seg' = seg
                                         \/ seg' = Blank
                                         \/ saved.exists /\ seg' = LoadedSeg
                                         \/ \E n \in 1..MinChunkWorth : seg' = Divide(size, n),
               \/ ~saved'.exists
               \/ saved'.exists = saved.exists /\ saved'.seg = saved.seg
               \/ saved'.seg = seg
        PROVE  WithinInv'
    <2>1. Fits(Blank)
      <3>1. Blank \in Layouts(1) /\ Blank[0].lastbyte = 0
        BY DEF Blank, Layouts, Segment
      <3> QED
        BY <1>1, <3>1, ChunkAssumption DEF Fits
    <2>2. Fits(seg') /\ (saved'.exists => Fits(saved'.seg))
      BY <1>1, <1>2, <2>1, FitsLoaded, FitsDivided
    <2> QED
      BY <1>1, <1>2, <2>2 DEF WithinInv, Fits, WritesWithinFile
  <1>3. CASE OpenFresh
    <2>1. UNCHANGED <<size, disk>> /\ ~saved'.exists /\ \E n \in 1..MinChunkWorth : seg' = Divide(size, n)
      BY <1>3, TransferAssumption DEF OpenFresh, DropStale, NoStateFile
    <2> QED
      BY <1>2, <2>1
  <1>4. CASE OpenResume \/ OpenRefused
    BY <1>2, <1>4 DEF OpenResume, OpenRefused
  <1>5. CASE SaveBegin
    BY <1>2, <1>5 DEF SaveBegin, vars, Truncated
  <1>6. CASE SaveField \/ SaveShort
    <2>1. UNCHANGED <<size, disk>> /\ (seg' = seg \/ seg' = Blank)
      BY <1>6 DEF SaveField, SaveShort, Leaves, Forget, vars
    <2>2. saved' = saved \/ saved' = [saved EXCEPT !.fields = @ + 1]
      BY <1>6 DEF SaveField, SaveShort
    <2>3. saved'.exists = saved.exists /\ saved'.seg = saved.seg
      <3>1. CASE saved' = [saved EXCEPT !.fields = @ + 1]
        BY <3>1
      <3> QED
        BY <2>2, <3>1
    <2> QED
      BY <1>2, <2>1, <2>3
  <1>7. CASE CloseComplete \/ CloseIncomplete \/ Crash
    <2>1. UNCHANGED <<size, disk>> /\ (seg' = seg \/ seg' = Blank)
      BY <1>7 DEF CloseComplete, CloseIncomplete, Crash, Leaves, Forget, vars
    <2>2. saved' = saved \/ ~saved'.exists \/ saved'.seg = seg
      BY <1>7 DEF CloseComplete, CloseIncomplete, Crash, NoStateFile, Truncated
    <2> QED
      BY <1>2, <2>1, <2>2
  <1>8. CASE RemoveData
    BY <1>1, <1>8 DEF RemoveData, WithinInv, Fits, WritesWithinFile
  <1>9. CASE UNCHANGED allvars
    BY <1>2, <1>9 DEF allvars, vars
  <1> QED
    BY <1>3, <1>4, <1>5, <1>6, <1>7, <1>8, <1>9, WithinTransferring DEF SNext

(* However a save was cut short, and whatever flux_open makes of the state     *)
(* file then, no write lands past the end of the file.                        *)
THEOREM AlwaysWithinFile == SSpec => []WritesWithinFile
  <1>1. SInit => WithinInv
    <2> SUFFICES ASSUME SInit PROVE WithinInv
      OBVIOUS
    <2>1. size \in Nat \ {0} /\ seg = Blank /\ disk = {} /\ ~saved.exists
      BY TransferAssumption DEF SInit, NoStateFile
    <2>2. Blank \in Layouts(1) /\ Blank[0].lastbyte = 0
      BY DEF Blank, Layouts, Segment
    <2> QED
      BY <2>1, <2>2, ChunkAssumption DEF WithinInv, Fits, WritesWithinFile
  <1>2. WithinInv => WritesWithinFile
    BY DEF WithinInv
  <1> QED
    BY <1>1, <1>2, WithinNext, PTL DEF SSpec

=============================================================================
