-------------------------- MODULE FluxLayoutProofs --------------------------
(***************************************************************************)
(* What flux_divide and reactivate_connection do to the segment table, for *)
(* every file size and every number of connections.                        *)
(***************************************************************************)
EXTENDS FluxLayout, FiniteSetTheorems, TLAPS

-----------------------------------------------------------------------------

(* Euclidean division, as the SMT encoding of \div and % needs it spelled out. *)
LEMMA QuotientRemainder ==
    ASSUME NEW a \in Nat, NEW b \in Nat \ {0}
    PROVE  /\ a \div b \in Nat
           /\ a % b \in 0..(b - 1)
           /\ a = b * (a \div b) + (a % b)
  OBVIOUS

(* The remainder of a division is the only one in range. *)
LEMMA RemainderUnique ==
    ASSUME NEW a \in Nat, NEW b \in Nat \ {0}, NEW q \in Nat, NEW r \in 0..(b - 1),
           a = b * q + r
    PROVE  a % b = r
  OBVIOUS

(* Multiplication by a natural number is monotonic. *)
LEMMA TimesMonotonic ==
    ASSUME NEW a \in Nat, NEW b \in Nat, NEW c \in Nat, a <= b
    PROVE  c * a <= c * b
  OBVIOUS

-----------------------------------------------------------------------------

(* The arithmetic of flux_divide: the segments of length seg_len plus the   *)
(* tail add up to the file.  It needs at most MIN_CHUNK_WORTH connections:   *)
(* then seg_len exceeds size % num_connections and size % seg_len is what    *)
(* the equal segments leave over.                                            *)
LEMMA DivideSums ==
    ASSUME NEW size \in Nat \ {0}, NEW n \in 1..MinChunkWorth
    PROVE  /\ DivideConns(size, n) \in 1..n
           /\ SegLen(size, n) \in Nat \ {0}
           /\ Tail(size, n) \in Nat
           /\ size = SegLen(size, n) * DivideConns(size, n) + Tail(size, n)
  <1> DEFINE m == DivideConns(size, n)
             len == SegLen(size, n)
             chunks == size \div MinChunkWorth
  <1> USE ChunkAssumption
  <1>1. chunks \in Nat /\ MinChunkWorth * chunks <= size
    BY QuotientRemainder
  <1>2. m \in 1..n /\ (m = 1 \/ m <= chunks)
    BY <1>1 DEF DivideConns
  <1>3. len \in Nat /\ size % m \in 0..(m - 1) /\ size = len * m + (size % m)
    <2>1. m \in Nat \ {0} /\ len = size \div m
      BY <1>2 DEF SegLen
    <2> HIDE DEF m, len
    <2>2. /\ size \div m \in Nat
          /\ size % m \in 0..(m - 1)
          /\ size = m * (size \div m) + (size % m)
      BY <2>1, QuotientRemainder
    <2> QED
      BY <2>1, <2>2
  <1>4. CASE m = 1
    <2>1. len = size
      BY <1>3, <1>4
    <2>2. Tail(size, n) = 0
      BY <2>1, RemainderUnique DEF Tail
    <2> QED
      BY <1>2, <1>4, <2>1, <2>2
  <1>5. CASE m <= chunks
    <2>1. MinChunkWorth * m <= size
      BY <1>1, <1>2, <1>5, TimesMonotonic
    <2>2. len >= MinChunkWorth
      <3> SUFFICES ASSUME len + 1 <= MinChunkWorth PROVE FALSE
        BY <1>3
      <3>1. m * (len + 1) <= m * MinChunkWorth
        BY <1>2, <1>3, TimesMonotonic
      <3> QED
        BY <3>1, <2>1, <1>2, <1>3
    <2>3. size % m \in 0..(len - 1)
      BY <1>2, <1>3, <2>2
    <2>4. size = len * m + (size % m)
      BY <1>3
    <2>5. Tail(size, n) = size % m
      <3> HIDE DEF m, len
      <3>1. len \in Nat \ {0} /\ m \in Nat
        BY <1>2, <1>3, <2>2
      <3>2. size % len = size % m
        BY <3>1, <2>3, <2>4, RemainderUnique
      <3> QED
        BY <3>2 DEF Tail, len
    <2> HIDE DEF m, len
    <2> QED
      BY <1>2, <1>3, <2>2, <2>3, <2>4, <2>5 DEF m, len
  <1> QED
    BY <1>2, <1>4, <1>5

-----------------------------------------------------------------------------

(* flux_divide partitions the file: as many segments as connections, none    *)
(* negative, no two of them overlapping, together exactly the offsets        *)
(* 0..size-1.                                                                *)
THEOREM DividePartitions ==
    ASSUME NEW size \in Nat \ {0}, NEW n \in 1..MinChunkWorth
    PROVE  /\ Divide(size, n) \in Layouts(DivideConns(size, n))
           /\ Disjoint(Divide(size, n))
           /\ Todo(Divide(size, n)) = 0..(size - 1)
  <1> DEFINE m == DivideConns(size, n)
             len == SegLen(size, n)
             tail == Tail(size, n)
             seg == Divide(size, n)
  <1>1. /\ m \in Nat \ {0}
        /\ len \in Nat \ {0}
        /\ tail \in Nat
        /\ size = len * m + tail
    BY DivideSums
  <1>2. /\ DOMAIN seg = 0..(m - 1)
        /\ \A i \in 0..(m - 1) :
              seg[i] = [currentbyte |-> len * i,
                        lastbyte |-> len * i + len + (IF i = m - 1 THEN tail ELSE 0)]
    BY DEF Divide
  <1> HIDE DEF m, len, tail, seg
  <1>3. \A i \in Nat : len * i \in Nat /\ len * i + len = len * (i + 1)
    BY <1>1
  <1>4. \A i \in 0..(m - 1) :
           /\ seg[i].currentbyte = len * i
           /\ seg[i].currentbyte \in Nat
           /\ seg[i].lastbyte \in Nat
           /\ seg[i].lastbyte = IF i = m - 1 THEN size ELSE len * (i + 1)
           /\ seg[i].currentbyte <= seg[i].lastbyte
    <2> SUFFICES ASSUME NEW i \in 0..(m - 1)
                 PROVE  /\ seg[i].currentbyte = len * i
                        /\ seg[i].currentbyte \in Nat
                        /\ seg[i].lastbyte \in Nat
                        /\ seg[i].lastbyte = IF i = m - 1 THEN size ELSE len * (i + 1)
                        /\ seg[i].currentbyte <= seg[i].lastbyte
      OBVIOUS
    <2>1. i \in Nat /\ len * i \in Nat /\ len * i + len = len * (i + 1)
      BY <1>1, <1>3
    <2>2. /\ seg[i].currentbyte = len * i
          /\ seg[i].lastbyte = len * i + len + (IF i = m - 1 THEN tail ELSE 0)
      BY <1>2
    <2>3. CASE i = m - 1
      <3>1. i + 1 = m
        BY <2>3, <1>1
      <3>2. len * i + len = len * m
        BY <2>1, <3>1
      <3> QED
        BY <2>1, <2>2, <2>3, <3>2, <1>1
    <2>4. CASE i # m - 1
      BY <2>1, <2>2, <2>4, <1>1
    <2> QED
      BY <2>3, <2>4
  <1>5. seg \in Layouts(m)
    <2>1. seg = [i \in 0..(m - 1) |->
                    [currentbyte |-> len * i,
                     lastbyte |-> len * i + len + (IF i = m - 1 THEN tail ELSE 0)]]
      BY DEF seg, Divide, m, len, tail
    <2>2. \A i \in 0..(m - 1) : seg[i] \in Segment
      BY <1>2, <1>4 DEF Segment
    <2> QED
      BY <2>1, <2>2 DEF Layouts
  <1>6. \A i, j \in 0..(m - 1) : i < j => seg[i].lastbyte <= seg[j].currentbyte
    <2> TAKE i, j \in 0..(m - 1)
    <2> HAVE i < j
    <2>1. len * (i + 1) <= len * j
      BY <1>1, TimesMonotonic
    <2> QED
      BY <2>1, <1>4, <1>1
  <1>7. Disjoint(seg)
    <2>1. \A i, j \in 0..(m - 1) : i # j => Span(seg, i) \cap Span(seg, j) = {}
      <3> TAKE i, j \in 0..(m - 1)
      <3> HAVE i # j
      <3>1. CASE i < j
        BY <3>1, <1>4, <1>6 DEF Span
      <3>2. CASE j < i
        BY <3>2, <1>4, <1>6 DEF Span
      <3> QED
        BY <3>1, <3>2
    <2> QED
      BY <2>1, <1>2, <1>4 DEF Disjoint
  <1>8. Todo(seg) \subseteq 0..(size - 1)
    <2> SUFFICES ASSUME NEW i \in 0..(m - 1), NEW x \in Span(seg, i)
                 PROVE  x \in 0..(size - 1)
      BY <1>2 DEF Todo
    <2>1. seg[i].lastbyte <= size
      <3>1. CASE i = m - 1
        BY <3>1, <1>1, <1>4
      <3>2. CASE i # m - 1
        <4>1. len * (i + 1) <= len * m
          BY <3>2, <1>1, TimesMonotonic
        <4>2. len * m \in Nat /\ len * (i + 1) \in Nat
          BY <1>1, <1>3
        <4>3. seg[i].lastbyte = len * (i + 1)
          BY <3>2, <1>4
        <4>4. size = len * m + tail /\ tail \in Nat
          BY <1>1
        <4> QED
          BY <4>1, <4>2, <4>3, <4>4
      <3> QED
        BY <3>1, <3>2
    <2> QED
      BY <2>1, <1>1, <1>4 DEF Span
  <1>9. 0..(size - 1) \subseteq Todo(seg)
    <2> SUFFICES ASSUME NEW x \in 0..(size - 1)
                 PROVE  \E i \in 0..(m - 1) : x \in Span(seg, i)
      BY <1>2 DEF Todo
    <2>1. /\ x \div len \in Nat
          /\ x % len \in 0..(len - 1)
          /\ x = len * (x \div len) + (x % len)
      <3>1. x \in Nat /\ len \in Nat \ {0}
        BY <1>1
      <3> QED
        BY <3>1, QuotientRemainder
    <2>2. CASE x \div len < m - 1
      <3>1. x \div len \in 0..(m - 1)
        BY <2>1, <2>2, <1>1
      <3>2. x < len * (x \div len) + len /\ len * (x \div len) <= x
        BY <2>1, <1>1, <1>3
      <3>3. x < len * (x \div len + 1)
        BY <3>2, <2>1, <1>3
      <3>4. /\ seg[x \div len].currentbyte = len * (x \div len)
            /\ seg[x \div len].lastbyte = len * (x \div len + 1)
        BY <3>1, <2>2, <1>1, <1>4
      <3>5. seg[x \div len].currentbyte \in Nat /\ seg[x \div len].lastbyte \in Nat
        BY <3>1, <1>4
      <3>6. x \in Span(seg, x \div len)
        BY <3>2, <3>3, <3>4, <3>5 DEF Span
      <3> QED
        BY <3>1, <3>6
    <2>3. CASE x \div len >= m - 1
      <3>1. len * (m - 1) <= len * (x \div len)
        BY <2>1, <2>3, <1>1, TimesMonotonic
      <3>2. m - 1 \in 0..(m - 1) /\ m - 1 \in Nat
        BY <1>1
      <3>3. len * (m - 1) <= x
        BY <3>1, <3>2, <2>1, <1>1, <1>3
      <3>4. x \in Span(seg, m - 1)
        BY <3>2, <3>3, <1>1, <1>4 DEF Span
      <3> QED
        BY <3>2, <3>4
    <2> QED
      BY <2>1, <2>2, <2>3, <1>1
  <1> QED
    BY <1>5, <1>7, <1>8, <1>9 DEF m, seg

-----------------------------------------------------------------------------

(* The donor reactivate_connection picks is a connection with work worth a   *)
(* split, so never the one that ran dry.                                     *)
LEMMA RichestIsDonor ==
    ASSUME NEW m \in Nat, NEW seg \in Layouts(m), NEW i \in 0..(m - 1),
           Remaining(seg, i) <= 0, NEW j \in Richest(seg)
    PROVE  /\ j \in 0..(m - 1)
           /\ j # i
           /\ Remaining(seg, j) \in Nat \ {0}
  BY ChunkAssumption DEF Richest, Layouts, Segment, Remaining

(* Handing half of j's segment to a dry connection i neither loses nor       *)
(* duplicates an offset.                                                     *)
LEMMA HalvePreserves ==
    ASSUME NEW m \in Nat, NEW seg \in Layouts(m), Disjoint(seg),
           NEW i \in 0..(m - 1), NEW j \in 0..(m - 1), i # j,
           Remaining(seg, i) <= 0, Remaining(seg, j) \in Nat \ {0}
    PROVE  /\ Halve(seg, i, j) \in Layouts(m)
           /\ Disjoint(Halve(seg, i, j))
           /\ Todo(Halve(seg, i, j)) = Todo(seg)
  <1> DEFINE new == Halve(seg, i, j)
             middle == seg[j].currentbyte + Remaining(seg, j) \div 2
  <1>1. /\ DOMAIN seg = 0..(m - 1)
        /\ \A k \in 0..(m - 1) : /\ seg[k].currentbyte \in Nat
                                 /\ seg[k].lastbyte \in Nat
                                 /\ seg[k].currentbyte <= seg[k].lastbyte
    BY DEF Layouts, Segment, Disjoint
  <1>2. middle \in seg[j].currentbyte..seg[j].lastbyte
    <2> DEFINE half == Remaining(seg, j) \div 2
    <2>1. half \in Nat /\ half <= Remaining(seg, j)
      OBVIOUS
    <2>2. /\ middle = seg[j].currentbyte + half
          /\ Remaining(seg, j) = seg[j].lastbyte - seg[j].currentbyte
      BY DEF Remaining
    <2> HIDE DEF half, middle
    <2> QED
      BY <1>1, <2>1, <2>2
  <1> HIDE DEF middle
  <1>3. new = [seg EXCEPT ![i] = [currentbyte |-> middle, lastbyte |-> seg[j].lastbyte],
                          ![j].lastbyte = middle]
    BY DEF Halve, middle
  <1>4. /\ DOMAIN new = 0..(m - 1)
        /\ new[i] = [currentbyte |-> middle, lastbyte |-> seg[j].lastbyte]
        /\ new[j] = [currentbyte |-> seg[j].currentbyte, lastbyte |-> middle]
        /\ \A k \in 0..(m - 1) : k # i /\ k # j => new[k] = seg[k]
    BY <1>1, <1>3 DEF Layouts, Segment
  <1>5. new \in Layouts(m)
    <2>1. new = [k \in 0..(m - 1) |-> new[k]]
      BY <1>1, <1>3
    <2>2. seg[j].currentbyte \in Nat /\ seg[j].lastbyte \in Nat /\ middle \in Nat
      BY <1>1, <1>2
    <2>3. new[i] \in Segment /\ new[j] \in Segment
      BY <1>4, <2>2 DEF Segment
    <2>4. \A k \in 0..(m - 1) : k # i /\ k # j => new[k] \in Segment
      BY <1>4 DEF Layouts
    <2>5. \A k \in 0..(m - 1) : new[k] \in Segment
      BY <2>3, <2>4
    <2> HIDE DEF new
    <2> QED
      BY <2>1, <2>5 DEF Layouts
  <1> HIDE DEF new
  <1>6. /\ Span(new, i) \cup Span(new, j) = Span(seg, j)
        /\ Span(new, i) \cap Span(new, j) = {}
    BY <1>1, <1>2, <1>4 DEF Span
  <1>7. Span(seg, i) = {}
    BY <1>1 DEF Span, Remaining
  <1>8. \A k \in 0..(m - 1) : k # i /\ k # j => Span(new, k) = Span(seg, k)
    BY <1>4 DEF Span
  <1>9. Disjoint(new)
    <2>1. \A k \in 0..(m - 1) : new[k].currentbyte <= new[k].lastbyte
      BY <1>1, <1>2, <1>4
    <2>2. \A k, l \in 0..(m - 1) : k # l => Span(seg, k) \cap Span(seg, l) = {}
      BY <1>1 DEF Disjoint
    <2>3. \A k, l \in 0..(m - 1) : k # l => Span(new, k) \cap Span(new, l) = {}
      <3> HIDE DEF Span
      <3> QED
        BY <2>2, <1>6, <1>8
    <2> QED
      BY <2>1, <2>3, <1>4 DEF Disjoint
  <1>10. Todo(new) = Todo(seg)
    <2>1. \A x : (\E k \in 0..(m - 1) : x \in Span(new, k))
                    <=> (\E k \in 0..(m - 1) : x \in Span(seg, k))
      BY <1>6, <1>7, <1>8
    <2> QED
      BY <2>1, <1>1, <1>4 DEF Todo
  <1> QED
    BY <1>5, <1>9, <1>10 DEF new

(* reactivate_connection keeps the segment table a partition of the same     *)
(* offsets.                                                                  *)
THEOREM ReactivatedPreserves ==
    ASSUME NEW m \in Nat, NEW seg \in Layouts(m), Disjoint(seg),
           NEW i \in 0..(m - 1), Remaining(seg, i) <= 0
    PROVE  /\ Reactivated(seg, i) \in Layouts(m)
           /\ Disjoint(Reactivated(seg, i))
           /\ Todo(Reactivated(seg, i)) = Todo(seg)
  <1>1. CASE Richest(seg) = {}
    BY <1>1 DEF Reactivated
  <1>2. CASE Richest(seg) # {}
    <2> DEFINE j == CHOOSE k \in Richest(seg) : TRUE
    <2>1. j \in Richest(seg)
      BY <1>2
    <2> HIDE DEF j
    <2>2. j \in 0..(m - 1) /\ j # i /\ Remaining(seg, j) \in Nat \ {0}
      BY <2>1, RichestIsDonor
    <2>3. Reactivated(seg, i) = Halve(seg, i, j)
      BY <1>2 DEF Reactivated, j
    <2> QED
      BY <2>2, <2>3, HalvePreserves
  <1> QED
    BY <1>1, <1>2

(* Writing at the front of a segment takes exactly the bytes written out of  *)
(* what is still to be fetched.                                              *)
THEOREM AdvancedPreserves ==
    ASSUME NEW m \in Nat, NEW seg \in Layouts(m), Disjoint(seg),
           NEW i \in 0..(m - 1), NEW len \in Nat, len <= Remaining(seg, i)
    PROVE  LET written == seg[i].currentbyte .. (seg[i].currentbyte + len - 1)
           IN  /\ Advanced(seg, i, len) \in Layouts(m)
               /\ Disjoint(Advanced(seg, i, len))
               /\ Todo(Advanced(seg, i, len)) = Todo(seg) \ written
               /\ written \subseteq Todo(seg)
  <1> DEFINE new == Advanced(seg, i, len)
             written == seg[i].currentbyte .. (seg[i].currentbyte + len - 1)
  <1>1. /\ DOMAIN seg = 0..(m - 1)
        /\ \A k \in 0..(m - 1) : /\ seg[k].currentbyte \in Nat
                                 /\ seg[k].lastbyte \in Nat
                                 /\ seg[k].currentbyte <= seg[k].lastbyte
    BY DEF Layouts, Segment, Disjoint
  <1>2. /\ DOMAIN new = 0..(m - 1)
        /\ new[i] = [currentbyte |-> seg[i].currentbyte + len, lastbyte |-> seg[i].lastbyte]
        /\ \A k \in 0..(m - 1) : k # i => new[k] = seg[k]
    BY <1>1 DEF Advanced, Layouts, Segment
  <1>3. new \in Layouts(m)
    <2>1. new = [k \in 0..(m - 1) |-> new[k]]
      BY <1>1 DEF Advanced
    <2>2. new[i] \in Segment
      BY <1>1, <1>2 DEF Segment
    <2>3. \A k \in 0..(m - 1) : new[k] \in Segment
      BY <1>2, <2>2 DEF Layouts
    <2> HIDE DEF new
    <2> QED
      BY <2>1, <2>3 DEF Layouts
  <1> HIDE DEF new
  <1>4. /\ Span(new, i) = Span(seg, i) \ written
        /\ written \subseteq Span(seg, i)
    <2> DEFINE from == seg[i].currentbyte
               to   == seg[i].lastbyte
    <2>1. from \in Nat /\ to \in Nat /\ len <= to - from
      BY <1>1 DEF Remaining
    <2>2. /\ Span(new, i) = (from + len)..(to - 1)
          /\ Span(seg, i) = from..(to - 1)
          /\ written = from..(from + len - 1)
      BY <1>2 DEF Span
    <2> HIDE DEF from, to, written
    <2>3. /\ (from + len)..(to - 1) = (from..(to - 1)) \ (from..(from + len - 1))
          /\ from..(from + len - 1) \subseteq from..(to - 1)
      BY <2>1
    <2> QED
      BY <2>2, <2>3
  <1>5. \A k \in 0..(m - 1) : k # i => Span(new, k) = Span(seg, k)
    BY <1>2 DEF Span
  <1>6. \A k, l \in 0..(m - 1) : k # l => Span(seg, k) \cap Span(seg, l) = {}
    BY <1>1 DEF Disjoint
  <1>7. Disjoint(new)
    <2>1. \A k \in 0..(m - 1) : new[k].currentbyte <= new[k].lastbyte
      BY <1>1, <1>2 DEF Remaining
    <2>2. \A k, l \in 0..(m - 1) : k # l => Span(new, k) \cap Span(new, l) = {}
      <3> HIDE DEF written
      <3> QED
        BY <1>4, <1>5, <1>6
    <2> QED
      BY <2>1, <2>2, <1>2 DEF Disjoint
  <1>8. Todo(new) = Todo(seg) \ written
    <2> HIDE DEF written
    <2>1. \A x : (\E k \in 0..(m - 1) : x \in Span(new, k))
                    <=> (x \notin written /\ \E k \in 0..(m - 1) : x \in Span(seg, k))
      BY <1>4, <1>5, <1>6
    <2> QED
      BY <2>1, <1>1, <1>2 DEF Todo
  <1>9. written \subseteq Todo(seg)
    BY <1>1, <1>4 DEF Todo
  <1> QED
    BY <1>3, <1>7, <1>8, <1>9 DEF new

(* A table saved before any work was handed over still holds a part of the   *)
(* file for every connection.                                                *)
THEOREM PartlyDonePreserves ==
    ASSUME NEW m \in Nat, NEW fresh \in Layouts(m), Disjoint(fresh),
           NEW size \in Nat, NEW seg \in PartlyDone(fresh, size)
    PROVE  /\ seg \in Layouts(m)
           /\ Disjoint(seg)
           /\ Todo(seg) \subseteq Todo(fresh)
  <1>1. /\ DOMAIN fresh = 0..(m - 1)
        /\ \A k \in 0..(m - 1) : /\ fresh[k].currentbyte \in Nat
                                 /\ fresh[k].lastbyte \in Nat
                                 /\ fresh[k] \in Segment
    BY DEF Layouts, Segment
  <1>2. PICK done \in [0..(m - 1) -> 0..size] :
           /\ \A k \in 0..(m - 1) : done[k] <= Remaining(fresh, k)
           /\ seg = [k \in 0..(m - 1) |-> [fresh[k] EXCEPT !.currentbyte = @ + done[k]]]
    BY <1>1 DEF PartlyDone
  <1>3. \A k \in 0..(m - 1) :
           seg[k] = [currentbyte |-> fresh[k].currentbyte + done[k],
                     lastbyte |-> fresh[k].lastbyte]
    BY <1>1, <1>2 DEF Segment
  <1>4. \A k \in 0..(m - 1) :
           /\ done[k] \in Nat
           /\ fresh[k].currentbyte + done[k] <= fresh[k].lastbyte
    BY <1>1, <1>2 DEF Remaining
  <1>5. /\ seg \in Layouts(m)
        /\ \A k \in 0..(m - 1) : /\ seg[k].currentbyte <= seg[k].lastbyte
                                 /\ Span(seg, k) \subseteq Span(fresh, k)
    <2>1. \A k \in 0..(m - 1) : seg[k] \in Segment
      <3> TAKE k \in 0..(m - 1)
      <3> DEFINE first == fresh[k].currentbyte + done[k]
                 end == fresh[k].lastbyte
      <3>1. seg[k] = [currentbyte |-> first, lastbyte |-> end]
        BY <1>3
      <3>2. first \in Nat /\ end \in Nat
        BY <1>1, <1>4
      <3> HIDE DEF first, end
      <3> QED
        BY <3>1, <3>2 DEF Segment
    <2>2. seg \in Layouts(m)
      BY <1>2, <2>1 DEF Layouts
    <2>3. \A k \in 0..(m - 1) : /\ seg[k].currentbyte = fresh[k].currentbyte + done[k]
                                /\ seg[k].lastbyte = fresh[k].lastbyte
      <3> TAKE k \in 0..(m - 1)
      <3> DEFINE first == fresh[k].currentbyte + done[k]
                 end == fresh[k].lastbyte
      <3>1. seg[k] = [currentbyte |-> first, lastbyte |-> end]
        BY <1>3
      <3> HIDE DEF first, end
      <3>2. seg[k].currentbyte = first /\ seg[k].lastbyte = end
        BY <3>1
      <3> QED
        BY <3>2 DEF first, end
    <2>4. \A k \in 0..(m - 1) : /\ seg[k].currentbyte <= seg[k].lastbyte
                                /\ Span(seg, k) \subseteq Span(fresh, k)
      BY <1>1, <1>4, <2>3 DEF Span
    <2> QED
      BY <2>2, <2>4
  <1>6. DOMAIN seg = 0..(m - 1)
    BY <1>2
  <1>7. Disjoint(seg)
    <2>1. \A k, l \in 0..(m - 1) : k # l => Span(fresh, k) \cap Span(fresh, l) = {}
      BY <1>1 DEF Disjoint
    <2>2. \A k, l \in 0..(m - 1) : k # l => Span(seg, k) \cap Span(seg, l) = {}
      <3> HIDE DEF Span
      <3> QED
        BY <1>5, <2>1
    <2> QED
      BY <1>5, <1>6, <2>2 DEF Disjoint
  <1>8. Todo(seg) \subseteq Todo(fresh)
    BY <1>1, <1>5, <1>6 DEF Todo
  <1> QED
    BY <1>5, <1>7, <1>8

-----------------------------------------------------------------------------

(* A set of offsets of a file has at most as many elements as the file, and  *)
(* as many only if it is all of them.                                        *)
LEMMA OffsetsOfFile ==
    ASSUME NEW n \in Nat, NEW D \in SUBSET (0..(n - 1))
    PROVE  /\ IsFiniteSet(D)
           /\ Cardinality(D) \in 0..n
           /\ Cardinality(D) = n => D = 0..(n - 1)
  <1>1. IsFiniteSet(0..(n - 1)) /\ Cardinality(0..(n - 1)) = n
    BY FS_Interval
  <1>2. /\ IsFiniteSet(D)
        /\ Cardinality(D) <= n
        /\ n = Cardinality(D) => 0..(n - 1) = D
    BY <1>1, FS_Subset
  <1>3. Cardinality(D) \in Nat
    BY <1>2, FS_CardinalityType
  <1> QED
    BY <1>2, <1>3

(* Taking over work moves no end of a segment up, and no beginning but the taker's. *)
LEMMA ReactivatedBounds ==
    ASSUME NEW m \in Nat, NEW s \in Layouts(m),
           NEW i \in 0..(m - 1), Remaining(s, i) <= 0,
           NEW size \in Nat, \A k \in 0..(m - 1) : s[k].lastbyte <= size
    PROVE  /\ Reactivated(s, i) \in Layouts(m)
           /\ \A k \in 0..(m - 1) :
                 /\ Reactivated(s, i)[k].lastbyte <= size
                 /\ k # i => Reactivated(s, i)[k].currentbyte = s[k].currentbyte
  <1>1. CASE Richest(s) = {}
    BY <1>1 DEF Reactivated
  <1>2. CASE Richest(s) # {}
    <2> DEFINE j == CHOOSE k \in Richest(s) : TRUE
               middle == s[j].currentbyte + Remaining(s, j) \div 2
    <2>1. j \in Richest(s)
      BY <1>2
    <2>2. Reactivated(s, i) = Halve(s, i, j)
      BY <1>2 DEF Reactivated
    <2> HIDE DEF j
    <2>3. j \in 0..(m - 1) /\ j # i /\ Remaining(s, j) \in Nat \ {0}
      BY <2>1, RichestIsDonor
    <2>4. middle \in Nat /\ middle <= s[j].lastbyte
      <3> DEFINE r == Remaining(s, j)
      <3>1. s[j].currentbyte \in Nat /\ s[j].lastbyte = s[j].currentbyte + r
        BY <2>3 DEF Layouts, Segment, Remaining
      <3>2. r \in Nat
        BY <2>3
      <3> HIDE DEF r
      <3>3. r \div 2 \in Nat /\ r \div 2 <= r
        BY <3>2
      <3> QED
        BY <2>3, <3>1, <3>2, <3>3 DEF r
    <2> DEFINE taken == [currentbyte |-> middle, lastbyte |-> s[j].lastbyte]
               left == [currentbyte |-> s[j].currentbyte, lastbyte |-> middle]
    <2>5. Halve(s, i, j) = [s EXCEPT ![i] = [currentbyte |-> middle, lastbyte |-> s[j].lastbyte],
                                     ![j].lastbyte = middle]
      BY DEF Halve
    <2>6. \A k \in 0..(m - 1) : s[k] \in Segment
      BY DEF Layouts
    <2> HIDE DEF middle
    <2>7. /\ DOMAIN Halve(s, i, j) = 0..(m - 1)
          /\ Halve(s, i, j)[i] = taken
          /\ Halve(s, i, j)[j] = left
          /\ \A k \in 0..(m - 1) : k # i /\ k # j => Halve(s, i, j)[k] = s[k]
      BY <2>3, <2>5, <2>6 DEF Layouts, Segment
    <2>8. taken \in Segment /\ left \in Segment /\ taken.lastbyte <= size /\ left.lastbyte <= size
          /\ left.currentbyte = s[j].currentbyte
      BY <2>3, <2>4, <2>6 DEF Segment
    <2> HIDE DEF taken, left
    <2>9. Halve(s, i, j) = [k \in 0..(m - 1) |-> Halve(s, i, j)[k]]
      BY <2>5, <2>7
    <2>10. \A k \in 0..(m - 1) : /\ Halve(s, i, j)[k] \in Segment
                                 /\ Halve(s, i, j)[k].lastbyte <= size
                                 /\ k # i => Halve(s, i, j)[k].currentbyte = s[k].currentbyte
      BY <2>6, <2>7, <2>8
    <2> QED
      BY <2>2, <2>9, <2>10 DEF Layouts
  <1> QED
    BY <1>1, <1>2

(* flux_divide gives no connection anything beyond the file, and each of them  *)
(* something.                                                                 *)
LEMMA DivideBounds ==
    ASSUME NEW size \in Nat \ {0}, NEW n \in 1..MinChunkWorth
    PROVE  \A i \in 0..(DivideConns(size, n) - 1) :
              /\ Remaining(Divide(size, n), i) > 0
              /\ Divide(size, n)[i].lastbyte <= size
  <1> DEFINE m == DivideConns(size, n)
             len == SegLen(size, n)
             fresh == Divide(size, n)
  <1>1. m \in Nat /\ len \in Nat \ {0} /\ Tail(size, n) \in Nat
    BY DivideSums, ChunkAssumption
  <1>2. fresh \in Layouts(m) /\ Todo(fresh) = 0..(size - 1)
    BY DividePartitions
  <1>3. ASSUME NEW i \in 0..(m - 1) PROVE fresh[i].lastbyte > fresh[i].currentbyte
    <2>1. /\ fresh[i].currentbyte = len * i
          /\ fresh[i].lastbyte = len * i + len + (IF i = m - 1 THEN Tail(size, n) ELSE 0)
      BY <1>3 DEF Divide
    <2>2. len * i \in Int
      BY <1>1, <1>3
    <2> QED
      BY <1>1, <2>1, <2>2
  <1>4. \A i \in 0..(m - 1) : fresh[i].currentbyte \in Nat /\ fresh[i].lastbyte \in Nat
    BY <1>2 DEF Layouts, Segment
  <1>5. DOMAIN fresh = 0..(m - 1)
    BY <1>2 DEF Layouts
  <1> HIDE DEF m, fresh
  <1>6. ASSUME NEW i \in 0..(m - 1) PROVE fresh[i].lastbyte <= size
    <2>1. fresh[i].lastbyte - 1 \in Span(fresh, i)
      BY <1>3, <1>4, <1>6 DEF Span
    <2>2. fresh[i].lastbyte - 1 \in 0..(size - 1)
      BY <2>1, <1>2, <1>5, <1>6 DEF Todo
    <2> QED
      BY <2>2, <1>4
  <1> QED
    BY <1>3, <1>4, <1>6 DEF m, fresh, Remaining

=============================================================================
