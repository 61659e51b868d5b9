----------------------------- MODULE FluxLayout -----------------------------
(***************************************************************************)
(* How a file is laid out over connections (src/src/flux.c): the initial   *)
(* split made by flux_divide and the work stealing of                      *)
(* reactivate_connection.  A layout is a function from the connections     *)
(* 0..n-1 to records: the connection has still to fetch the offsets from   *)
(* currentbyte up to, and not including, lastbyte.                         *)
(***************************************************************************)
EXTENDS Integers, FiniteSets

CONSTANT MinChunkWorth   \* MIN_CHUNK_WORTH: work smaller than this is not split

ASSUME ChunkAssumption == MinChunkWorth \in Nat \ {0}

Segment == [currentbyte : Nat, lastbyte : Nat]

Layouts(n) == [0..(n - 1) -> Segment]

Remaining(seg, i) == seg[i].lastbyte - seg[i].currentbyte

\* The offsets connection i has still to fetch.
Span(seg, i) == seg[i].currentbyte .. (seg[i].lastbyte - 1)

\* The offsets any connection has still to fetch.
Todo(seg) == UNION {Span(seg, i) : i \in DOMAIN seg}

\* No segment is negative and no two of them overlap.
Disjoint(seg) ==
    /\ \A i \in DOMAIN seg : seg[i].currentbyte <= seg[i].lastbyte
    /\ \A i, j \in DOMAIN seg : i # j => Span(seg, i) \cap Span(seg, j) = {}

-----------------------------------------------------------------------------
(***************************************************************************)
(* flux_divide                                                             *)
(***************************************************************************)

\* The number of connections a file of this size gets when asked for n.
DivideConns(size, n) ==
    LET maxconns == IF size \div MinChunkWorth > 1 THEN size \div MinChunkWorth ELSE 1
    IN  IF maxconns < n THEN maxconns ELSE n

SegLen(size, n) == size \div DivideConns(size, n)

\* size % seg_len: what the last connection gets on top of its seg_len.
\* It is defined for a size of at least one byte: for an empty file seg_len
\* is 0 and the C expression divides by zero.
Tail_Dropped(size, n) == 0
Tail(size, n) == size % SegLen(size, n)

Divide(size, n) ==
    LET m == DivideConns(size, n)
        len == SegLen(size, n)
    IN  [i \in 0..(m - 1) |->
            [currentbyte |-> len * i,
             lastbyte |-> len * i + len + (IF i = m - 1 THEN Tail(size, n) ELSE 0)]]

-----------------------------------------------------------------------------
(***************************************************************************)
(* reactivate_connection, once its early return has been passed.           *)
(***************************************************************************)

\* The connection with the largest remaining work of at least MinChunkWorth;
\* the first one when several have as much.  Empty or a singleton.
Richest(seg) ==
    {j \in DOMAIN seg :
        /\ Remaining(seg, j) >= MinChunkWorth
        /\ \A k \in DOMAIN seg :
              \/ Remaining(seg, k) < Remaining(seg, j)
              \/ Remaining(seg, k) = Remaining(seg, j) /\ j <= k}

\* Connection i takes over the second half of j's work.
Halve_VictimKeepsAll(seg, i, j) ==
    LET middle == seg[j].currentbyte + Remaining(seg, j) \div 2
    IN  [seg EXCEPT ![i] = [currentbyte |-> middle, lastbyte |-> seg[j].lastbyte]]
Halve(seg, i, j) ==
    LET middle == seg[j].currentbyte + Remaining(seg, j) \div 2
    IN  [seg EXCEPT ![i] = [currentbyte |-> middle, lastbyte |-> seg[j].lastbyte],
                    ![j].lastbyte = middle]

Reactivated(seg, i) ==
    IF Richest(seg) = {} THEN seg
    ELSE Halve(seg, i, CHOOSE j \in Richest(seg) : TRUE)

\* How many of the n bytes read on connection i belong to it: the server may
\* send more than the segment still holds, because its end was stolen.
Kept_All(seg, i, n) == n
Kept(seg, i, n) == IF Remaining(seg, i) < n THEN Remaining(seg, i) ELSE n

\* Where they are written.
Written(seg, i, n) ==
    seg[i].currentbyte .. (seg[i].currentbyte + Kept(seg, i, n) - 1)

\* Connection i has written len bytes.
Advanced(seg, i, len) == [seg EXCEPT ![i].currentbyte = @ + len]

\* The tables an unfinished download that began with fresh may have saved:
\* done[i] bytes of each segment have been fetched, no segment split since.
PartlyDone(fresh, size) ==
    LET table(done) == [i \in DOMAIN fresh |-> [fresh[i] EXCEPT !.currentbyte = @ + done[i]]]
        partial == {done \in [DOMAIN fresh -> 0..size] :
                        /\ \A i \in DOMAIN fresh : done[i] <= Remaining(fresh, i)
                        /\ \E i \in DOMAIN fresh : done[i] < Remaining(fresh, i)}
    IN  {table(done) : done \in partial}

=============================================================================
