--------------------------- MODULE SourcesProofs ----------------------------
(***************************************************************************)
(* Proofs about where the URLs of downloads come from: that of a playlist  *)
(* the right variant, segments and keys are chosen, whatever its lines     *)
(* are; and, about the menus of the terminal, for every number of items    *)
(* and every size the terminal may have or get, what is shown, where the   *)
(* cursor is, what is chosen, and in which state the terminal is left.     *)
(***************************************************************************)
EXTENDS HlsPlaylist, Selection, LoopProofs, FiniteSetTheorems

-----------------------------------------------------------------------------
(***************************************************************************)
(* hls_select_variant                                                      *)
(***************************************************************************)
Ranked(V) == \A v \in V : v.bw \in Int /\ v.h \in Int

LEMMA HigherOrders ==
    ASSUME NEW V, Ranked(V), NEW a \in V, NEW b \in V, NEW c \in V
    PROVE  /\ ~Higher(a, a)
           /\ Higher(a, b) => ~Higher(b, a)
           /\ ~Higher(a, b) /\ ~Higher(b, c) => ~Higher(a, c)
  <1>1. /\ a.bw \in Int /\ a.h \in Int /\ b.bw \in Int /\ b.h \in Int /\ c.bw \in Int /\ c.h \in Int
    BY DEF Ranked
  <1> QED
    BY <1>1 DEF Higher

\* One turn of the loop after the other.
Turns(f, V, vs, want) ==
    /\ f \in [0..Len(vs) -> V]
    /\ f[0] = vs[1] /\ f[1] = vs[1]
    /\ \A i \in 2..Len(vs) : f[i] = IF Better(want, vs[i], f[i - 1]) THEN vs[i] ELSE f[i - 1]
    /\ Winner(vs, want) = f[Len(vs)]

LEMMA WinnerLoops ==
    ASSUME NEW V, NEW vs \in Seq(V), vs # <<>>, NEW want
    PROVE  \E f : Turns(f, V, vs, want)
  <1> DEFINE n == Len(vs)
             step == [p \in (1..n) \X V |->
                        IF p[1] = 1 THEN vs[1] ELSE IF Better(want, vs[p[1]], p[2]) THEN vs[p[1]] ELSE p[2]]
  <1>1. n \in Nat /\ n >= 1 /\ \A i \in 1..n : vs[i] \in V
    OBVIOUS
  <1>2. vs[1] \in V
    BY <1>1
  <1>3. step \in [(1..n) \X V -> V]
    BY <1>1, <1>2
  <1>4. \A i \in 1..n, b \in V :
           step[<<i, b>>] = IF i = 1 THEN vs[1] ELSE IF Better(want, vs[i], b) THEN vs[i] ELSE b
    OBVIOUS
  <1> HIDE DEF step
  <1>5. PICK g \in [0..n -> V] : g[0] = vs[1] /\ \A i \in 1..n : g[i] = step[<<i, g[i - 1]>>]
    <2> HIDE DEF n
    <2>1. n \in Nat
      BY <1>1
    <2> PICK v0 : v0 = vs[1]
      OBVIOUS
    <2>2. v0 \in V
      BY <1>2
    <2>3. \E g : Runs(g, n, V, v0, step)
      BY <2>1, <2>2, <1>3, LoopRuns
    <2> QED
      BY <2>3 DEF Runs
  <1>6. \A i \in 1..n : g[i] = IF i = 1 THEN vs[1] ELSE IF Better(want, vs[i], g[i - 1]) THEN vs[i] ELSE g[i - 1]
    <2>1. \A i \in 1..n : i - 1 \in 0..n
      BY <1>1
    <2> QED
      BY <1>4, <1>5, <2>1
  <1> DEFINE Pass(h) == [i \in 1..n |->
                           IF i = 1 THEN vs[1] ELSE IF Better(want, vs[i], h[i - 1]) THEN vs[i] ELSE h[i - 1]]
             f == [i \in 1..n |-> g[i]]
             c == CHOOSE h : h = Pass(h)
  <1>7. f = Pass(f)
    <2>1. ASSUME NEW i \in 1..n PROVE f[i] = Pass(f)[i]
      <3>1. CASE i = 1
        BY <1>6, <2>1, <3>1
      <3>2. CASE i # 1
        <4>1. i - 1 \in 1..n
          BY <1>1, <3>2
        <4>2. f[i - 1] = g[i - 1] /\ f[i] = g[i]
          BY <4>1
        <4> QED
          BY <1>6, <3>2, <4>1, <4>2
      <3> QED
        BY <3>1, <3>2
    <2> QED
      BY <2>1
  <1>8. c = Pass(c)
    BY <1>7
  <1>9. Winner(vs, want) = c[n]
    BY DEF Winner
  <1> HIDE DEF c, f
  <1>10. \A i \in 1..n : c[i] = IF i = 1 THEN vs[1] ELSE IF Better(want, vs[i], c[i - 1]) THEN vs[i] ELSE c[i - 1]
    BY <1>8
  <1> DEFINE P == {i \in 0..n : i = 0 \/ c[i] = g[i]}
  <1>11. \A i \in 0..n : i \in P
    <2>1. 0 \in P
      BY <1>1
    <2>2. ASSUME NEW i \in 1..n, i - 1 \in P PROVE i \in P
      <3>1. i = 1 \/ c[i - 1] = g[i - 1]
        BY <2>2
      <3>2. c[i] = g[i]
        BY <1>6, <1>10, <3>1
      <3> QED
        BY <3>2
    <2> HIDE DEF P
    <2> QED
      BY <1>1, <2>1, <2>2, AfterEveryStep
  <1>12. c[n] = g[n]
    BY <1>1, <1>11
  <1>13. g[1] = vs[1]
    BY <1>1, <1>6
  <1>14. \A i \in 2..n : g[i] = IF Better(want, vs[i], g[i - 1]) THEN vs[i] ELSE g[i - 1]
    <2>1. \A i \in 2..n : i \in 1..n /\ i # 1
      BY <1>1
    <2> QED
      BY <1>6, <2>1
  <1> QED
    BY <1>5, <1>9, <1>12, <1>13, <1>14 DEF Turns

(* None of the variants is better than the winner.                            *)
LEMMA WinnerWins ==
    ASSUME NEW V, Ranked(V), NEW vs \in Seq(V), vs # <<>>, NEW want \in {"best", "worst", "smallest"}
    PROVE  \E k \in 1..Len(vs) :
              /\ Winner(vs, want) = vs[k]
              /\ \A j \in 1..Len(vs) : IF want = "best" THEN ~Higher(vs[j], vs[k]) ELSE ~Higher(vs[k], vs[j])
  <1> DEFINE n == Len(vs)
             Wins(v, i) == \A j \in 1..i : IF want = "best" THEN ~Higher(vs[j], v) ELSE ~Higher(v, vs[j])
  <1>1. n \in Nat /\ n >= 1 /\ \A i \in 1..n : vs[i] \in V
    OBVIOUS
  <1>2. PICK f \in [0..n -> V] :
              /\ f[0] = vs[1] /\ f[1] = vs[1]
              /\ \A i \in 2..n : f[i] = IF Better(want, vs[i], f[i - 1]) THEN vs[i] ELSE f[i - 1]
              /\ Winner(vs, want) = f[n]
    <2> HIDE DEF n
    <2>1. \E f : Turns(f, V, vs, want)
      BY WinnerLoops
    <2> QED
      BY <2>1 DEF n, Turns
  <1> DEFINE P == {i \in 0..n : i = 0 \/ ((\E k \in 1..i : f[i] = vs[k]) /\ Wins(f[i], i))}
  <1>3. 0 \in P
    BY <1>1
  <1>4. ASSUME NEW i \in 1..n, i - 1 \in P PROVE i \in P
    <2>1. CASE i = 1
      <3>1. f[i] = vs[1] /\ 1 \in 1..i
        BY <1>2, <2>1
      <3>2. Wins(f[i], i)
        <4>1. ~Higher(vs[1], vs[1])
          BY <1>1, HigherOrders
        <4> QED
          BY <2>1, <3>1, <4>1
      <3> QED
        BY <3>1, <3>2
    <2>2. CASE i # 1
      <3> PICK b, c : b = f[i - 1] /\ c = vs[i]
        OBVIOUS
      <3>1. /\ i \in 2..n /\ i - 1 \in 1..n /\ \A j \in 1..i : j = i \/ j \in 1..(i - 1)
            /\ \A j \in 1..i : j \in 1..n
        BY <1>1, <2>2
      <3>2. (\E k \in 1..(i - 1) : b = vs[k]) /\ Wins(b, i - 1)
        BY <1>4, <3>1
      <3>3. b \in V /\ c \in V /\ \A j \in 1..(i - 1) : vs[j] \in V
        BY <1>1, <3>1, <3>2
      <3>4. f[i] = IF Better(want, c, b) THEN c ELSE b
        BY <1>2, <3>1
      <3>5. CASE Better(want, c, b)
        <4>1. f[i] = c
          BY <3>4, <3>5
        <4>2. IF want = "best" THEN ~Higher(b, c) ELSE ~Higher(c, b)
          BY <3>3, <3>5, HigherOrders DEF Better
        <4>3. ASSUME NEW j \in 1..i PROVE IF want = "best" THEN ~Higher(vs[j], c) ELSE ~Higher(c, vs[j])
          <5>1. CASE j = i
            BY <3>3, <5>1, HigherOrders
          <5>2. CASE j \in 1..(i - 1)
            <6>1. IF want = "best" THEN ~Higher(vs[j], b) ELSE ~Higher(b, vs[j])
              BY <3>2, <5>2
            <6>2. vs[j] \in V
              BY <3>3, <5>2
            <6> QED
              BY <3>3, <4>2, <6>1, <6>2, HigherOrders
          <5> QED
            BY <3>1, <5>1, <5>2
        <4>4. Wins(f[i], i) /\ i \in 1..i /\ f[i] = vs[i]
          BY <1>1, <4>1, <4>3
        <4> QED
          BY <4>4
      <3>6. CASE ~Better(want, c, b)
        <4>1. f[i] = b
          BY <3>4, <3>6
        <4>2. IF want = "best" THEN ~Higher(c, b) ELSE ~Higher(b, c)
          BY <3>3, <3>6, HigherOrders DEF Better
        <4>3. Wins(f[i], i)
          BY <3>1, <3>2, <4>1, <4>2
        <4>4. \E k \in 1..i : f[i] = vs[k]
          <5>1. PICK k \in 1..(i - 1) : b = vs[k]
            BY <3>2
          <5> QED
            BY <4>1, <5>1
        <4> QED
          BY <4>3, <4>4
      <3> QED
        BY <3>5, <3>6
    <2> QED
      BY <2>1, <2>2
  <1>5. n \in P
    <2> HIDE DEF P
    <2>1. \A i \in 0..n : i \in P
      BY <1>1, <1>3, <1>4, AfterEveryStep
    <2> QED
      BY <1>1, <2>1
  <1>6. PICK k \in 1..n : f[n] = vs[k] /\ Wins(f[n], n)
    BY <1>1, <1>5
  <1> QED
    BY <1>2, <1>6

Climbs(f, V, vs, height) ==
    /\ f \in [0..Len(vs) -> V \cup {NoVariant}]
    /\ f[0] = NoVariant
    /\ \A i \in 1..Len(vs) : f[i] = IF Fits(vs[i], f[i - 1], height) THEN vs[i] ELSE f[i - 1]
    /\ UpTo(vs, height) = f[Len(vs)]

LEMMA UpToLoops ==
    ASSUME NEW V, NEW vs \in Seq(V), NEW height
    PROVE  \E f : Climbs(f, V, vs, height)
  <1> DEFINE n == Len(vs)
             W == V \cup {NoVariant}
             step == [p \in (1..n) \X W |-> IF Fits(vs[p[1]], p[2], height) THEN vs[p[1]] ELSE p[2]]
  <1>1. n \in Nat /\ \A i \in 1..n : vs[i] \in V
    OBVIOUS
  <1>2. step \in [(1..n) \X W -> W]
    BY <1>1
  <1>3. \A i \in 1..n, b \in W : step[<<i, b>>] = IF Fits(vs[i], b, height) THEN vs[i] ELSE b
    OBVIOUS
  <1>4. PICK g : Runs(g, n, W, NoVariant, step)
    <2> HIDE DEF n, step, W
    <2>1. NoVariant \in W /\ n \in Nat
      BY <1>1 DEF W
    <2> QED
      BY <2>1, <1>2, LoopRuns
  <1> HIDE DEF step
  <1>5. /\ g \in [0..n -> W] /\ g[0] = NoVariant
        /\ \A i \in 1..n : g[i] = step[<<i, g[i - 1]>>]
    BY <1>4 DEF Runs
  <1>6. \A i \in 1..n : g[i] = IF Fits(vs[i], g[i - 1], height) THEN vs[i] ELSE g[i - 1]
    <2>1. \A i \in 1..n : i - 1 \in 0..n
      BY <1>1
    <2> QED
      BY <1>3, <1>5, <2>1
  <1> DEFINE Pass(h) == [i \in 0..n |->
                           IF i = 0 THEN NoVariant
                           ELSE IF Fits(vs[i], h[i - 1], height) THEN vs[i] ELSE h[i - 1]]
             f == [i \in 0..n |-> g[i]]
             c == CHOOSE h : h = Pass(h)
  <1>7. f = Pass(f)
    <2>1. ASSUME NEW i \in 0..n PROVE f[i] = Pass(f)[i]
      <3>1. CASE i = 0
        BY <1>5, <2>1, <3>1
      <3>2. CASE i # 0
        <4>1. i - 1 \in 0..n /\ i \in 1..n
          BY <1>1, <3>2
        <4>2. f[i - 1] = g[i - 1] /\ f[i] = g[i]
          BY <4>1
        <4> QED
          BY <1>6, <3>2, <4>1, <4>2
      <3> QED
        BY <3>1, <3>2
    <2> QED
      BY <2>1
  <1>8. c = Pass(c)
    BY <1>7
  <1>9. UpTo(vs, height) = c[n]
    BY DEF UpTo
  <1> HIDE DEF c, f
  <1>10. /\ c[0] = NoVariant
         /\ \A i \in 1..n : c[i] = IF Fits(vs[i], c[i - 1], height) THEN vs[i] ELSE c[i - 1]
    <2>1. \A i \in 0..n : c[i] = IF i = 0 THEN NoVariant
                                 ELSE IF Fits(vs[i], c[i - 1], height) THEN vs[i] ELSE c[i - 1]
      BY <1>8
    <2> QED
      BY <1>1, <2>1
  <1> DEFINE P == {i \in 0..n : c[i] = g[i]}
  <1>11. \A i \in 0..n : i \in P
    <2>1. 0 \in P
      BY <1>1, <1>5, <1>10
    <2>2. ASSUME NEW i \in 1..n, i - 1 \in P PROVE i \in P
      <3>1. c[i - 1] = g[i - 1]
        BY <2>2
      <3>2. c[i] = g[i]
        BY <1>6, <1>10, <3>1
      <3> QED
        BY <3>2
    <2> HIDE DEF P
    <2> QED
      BY <1>1, <2>1, <2>2, AfterEveryStep
  <1>12. c[n] = g[n]
    BY <1>1, <1>11
  <1> QED
    BY <1>5, <1>6, <1>9, <1>12 DEF Climbs

(* None of the variants up to the height is higher than the one UpTo chooses. *)
LEMMA UpToWins ==
    ASSUME NEW V, Ranked(V), NoVariant \notin V, NEW vs \in Seq(V), NEW height \in Int
    PROVE  \/ /\ UpTo(vs, height) = NoVariant
              /\ \A j \in 1..Len(vs) : ~(vs[j].h <= height)
           \/ \E k \in 1..Len(vs) :
                /\ UpTo(vs, height) = vs[k] /\ vs[k].h <= height
                /\ \A j \in 1..Len(vs) : vs[j].h <= height => ~Higher(vs[j], vs[k])
  <1> DEFINE n == Len(vs)
             NoneOf(v, i) == v = NoVariant /\ \A j \in 1..i : ~(vs[j].h <= height)
             Highest(v, i) == \A j \in 1..i : vs[j].h <= height => ~Higher(vs[j], v)
             OneOf(v, i) == (\E k \in 1..i : v = vs[k]) /\ v.h <= height /\ Highest(v, i)
  <1>1. n \in Nat /\ \A i \in 1..n : vs[i] \in V
    OBVIOUS
  <1>2. PICK f : Climbs(f, V, vs, height)
    BY UpToLoops
  <1>3. /\ f[0] = NoVariant
        /\ \A i \in 1..n : f[i] = IF Fits(vs[i], f[i - 1], height) THEN vs[i] ELSE f[i - 1]
        /\ UpTo(vs, height) = f[n]
    BY <1>2 DEF Climbs
  <1> DEFINE P == {i \in 0..n : NoneOf(f[i], i) \/ OneOf(f[i], i)}
  <1>4. 0 \in P
    BY <1>1, <1>3
  <1>5. ASSUME NEW i \in 1..n, i - 1 \in P PROVE i \in P
    <2> PICK b, c : b = f[i - 1] /\ c = vs[i]
      OBVIOUS
    <2>1. i - 1 \in 0..n /\ \A j \in 1..i : j \in 1..n /\ (j = i \/ j \in 1..(i - 1))
      BY <1>1
    <2>2. NoneOf(b, i - 1) \/ OneOf(b, i - 1)
      BY <1>5, <2>1
    <2>3. c \in V /\ \A j \in 1..(i - 1) : j \in 1..n /\ vs[j] \in V
      BY <1>1
    <2>4. f[i] = IF Fits(c, b, height) THEN c ELSE b
      BY <1>3
    <2>5. CASE Fits(c, b, height)
      <3>1. f[i] = c /\ c.h <= height
        BY <2>4, <2>5 DEF Fits
      <3>2. ASSUME NEW j \in 1..i, vs[j].h <= height PROVE ~Higher(vs[j], c)
        <4>1. CASE j = i
          BY <2>3, <4>1, HigherOrders
        <4>2. CASE j \in 1..(i - 1)
          <5>1. b # NoVariant /\ OneOf(b, i - 1)
            <6>1. ~NoneOf(b, i - 1)
              BY <3>2, <4>2
            <6>2. OneOf(b, i - 1)
              BY <2>2, <6>1
            <6> QED
              BY <2>3, <6>2
          <5>2. ~Higher(vs[j], b) /\ b \in V /\ vs[j] \in V
            BY <2>3, <3>2, <4>2, <5>1
          <5>3. Higher(c, b)
            BY <2>5, <5>1 DEF Fits
          <5>4. ~Higher(b, c)
            BY <2>3, <5>2, <5>3, HigherOrders
          <5> QED
            BY <2>3, <5>2, <5>4, HigherOrders
        <4> QED
          BY <2>1, <4>1, <4>2
      <3>3. OneOf(f[i], i)
        <4>1. i \in 1..i /\ f[i] = vs[i]
          BY <1>1, <3>1
        <4> QED
          BY <3>1, <3>2, <4>1
      <3> QED
        BY <3>3
    <2>6. CASE ~Fits(c, b, height)
      <3>1. f[i] = b
        BY <2>4, <2>6
      <3>2. CASE NoneOf(b, i - 1)
        <4>1. ~(c.h <= height)
          BY <2>6, <3>2 DEF Fits
        <4>2. NoneOf(f[i], i)
          BY <2>1, <3>1, <3>2, <4>1
        <4> QED
          BY <4>2
      <3>3. CASE OneOf(b, i - 1)
        <4>1. b # NoVariant
          BY <2>3, <3>3
        <4>2. c.h <= height => ~Higher(c, b)
          BY <2>6, <4>1 DEF Fits
        <4>3. Highest(b, i)
          BY <2>1, <3>3, <4>2
        <4>4. \E k \in 1..i : b = vs[k]
          <5>1. PICK k \in 1..(i - 1) : b = vs[k]
            BY <3>3
          <5> QED
            BY <5>1
        <4>5. OneOf(f[i], i)
          BY <3>1, <3>3, <4>3, <4>4
        <4> QED
          BY <4>5
      <3> QED
        BY <2>2, <3>2, <3>3
    <2> QED
      BY <2>5, <2>6
  <1>6. n \in P
    <2> HIDE DEF P
    <2>1. \A i \in 0..n : i \in P
      BY <1>1, <1>4, <1>5, AfterEveryStep
    <2> QED
      BY <1>1, <2>1
  <1>7. NoneOf(f[n], n) \/ OneOf(f[n], n)
    BY <1>6
  <1>8. CASE NoneOf(f[n], n)
    BY <1>3, <1>8
  <1>9. CASE OneOf(f[n], n)
    <2>1. PICK k \in 1..n : f[n] = vs[k]
      BY <1>9
    <2> QED
      BY <1>3, <1>9, <2>1
  <1> QED
    BY <1>7, <1>8, <1>9

\* What SelectVariant promises of the one it chooses (see VariantRight).
Fitting(vs, q) == {v \in ToSet(vs) : q.want = "height" /\ v.h <= q.height /\ \E w \in ToSet(vs) : w.h > 0}

Nearest(v, vs, q) ==
    /\ v \in ToSet(vs)
    /\ q.want = "best" => ~\E w \in ToSet(vs) : Higher(w, v)
    /\ q.want = "worst" => ~\E w \in ToSet(vs) : Higher(v, w)
    /\ Fitting(vs, q) # {} => v \in Fitting(vs, q) /\ ~\E w \in Fitting(vs, q) : Higher(w, v)
    /\ (q.want = "height" /\ Fitting(vs, q) = {}) => ~\E w \in ToSet(vs) : Higher(v, w)

LEMMA MembersOf ==
    ASSUME NEW V, NEW vs \in Seq(V)
    PROVE  /\ ToSet(vs) \subseteq V
           /\ \A i \in 1..Len(vs) : vs[i] \in ToSet(vs)
           /\ \A v \in ToSet(vs) : \E i \in 1..Len(vs) : v = vs[i]
           /\ DOMAIN vs = 1..Len(vs)
  BY DEF ToSet

LEMMA SelectsNearest ==
    ASSUME NEW V, Ranked(V), NoVariant \notin V, NEW vs \in Seq(V), vs # <<>>,
           NEW q \in [want : {"best", "worst", "height"}, height : Nat]
    PROVE  Nearest(SelectVariant(vs, q), vs, q)
  <1>1. /\ ToSet(vs) \subseteq V
        /\ \A i \in 1..Len(vs) : vs[i] \in ToSet(vs)
        /\ \A v \in ToSet(vs) : \E i \in 1..Len(vs) : v = vs[i]
        /\ DOMAIN vs = 1..Len(vs)
    BY MembersOf
  <1>2. ASSUME NEW want \in {"best", "worst", "smallest"}
        PROVE  /\ Winner(vs, want) \in ToSet(vs)
               /\ want = "best" => ~\E w \in ToSet(vs) : Higher(w, Winner(vs, want))
               /\ want # "best" => ~\E w \in ToSet(vs) : Higher(Winner(vs, want), w)
    <2>1. PICK k \in 1..Len(vs) :
              /\ Winner(vs, want) = vs[k]
              /\ \A j \in 1..Len(vs) : IF want = "best" THEN ~Higher(vs[j], vs[k]) ELSE ~Higher(vs[k], vs[j])
      BY WinnerWins
    <2> QED
      BY <1>1, <2>1
  <1>3. q.want \in {"best", "worst", "height"} /\ q.height \in Int
    OBVIOUS
  <1>4. CASE q.want = "best"
    <2>1. SelectVariant(vs, q) = Winner(vs, "best")
      BY <1>4 DEF SelectVariant
    <2>2. Fitting(vs, q) = {}
      BY <1>4 DEF Fitting
    <2> QED
      BY <1>2, <1>4, <2>1, <2>2 DEF Nearest
  <1>5. CASE q.want = "worst"
    <2>1. SelectVariant(vs, q) = Winner(vs, "worst")
      BY <1>5 DEF SelectVariant
    <2>2. Fitting(vs, q) = {}
      BY <1>5 DEF Fitting
    <2> QED
      BY <1>2, <1>5, <2>1, <2>2 DEF Nearest
  <1>6. CASE q.want = "height"
    <2>1. \A v \in ToSet(vs) : v.h \in Int
      BY <1>1 DEF Ranked
    <2>2. CASE \A i \in DOMAIN vs : vs[i].h <= 0
      <3>1. SelectVariant(vs, q) = Winner(vs, "smallest")
        BY <1>6, <2>2 DEF SelectVariant
      <3>2. \A w \in ToSet(vs) : ~(w.h > 0)
        BY <1>1, <2>1, <2>2
      <3>3. Fitting(vs, q) = {}
        BY <3>2 DEF Fitting
      <3> QED
        BY <1>2, <1>6, <3>1, <3>3 DEF Nearest
    <2>3. CASE /\ ~\A i \in DOMAIN vs : vs[i].h <= 0
               /\ UpTo(vs, q.height) = NoVariant
               /\ \A j \in 1..Len(vs) : ~(vs[j].h <= q.height)
      <3>1. SelectVariant(vs, q) = Winner(vs, "smallest")
        BY <1>6, <2>3 DEF SelectVariant
      <3>2. Fitting(vs, q) = {}
        BY <1>1, <2>3 DEF Fitting
      <3> QED
        BY <1>2, <1>6, <3>1, <3>2 DEF Nearest
    <2>4. ASSUME ~\A i \in DOMAIN vs : vs[i].h <= 0,
                 NEW k \in 1..Len(vs), UpTo(vs, q.height) = vs[k], vs[k].h <= q.height,
                 \A j \in 1..Len(vs) : vs[j].h <= q.height => ~Higher(vs[j], vs[k])
          PROVE  Nearest(SelectVariant(vs, q), vs, q)
      <3>1. vs[k] # NoVariant
        BY <1>1
      <3>2. SelectVariant(vs, q) = vs[k]
        BY <1>6, <2>4, <3>1 DEF SelectVariant
      <3>3. \E w \in ToSet(vs) : w.h > 0
        BY <1>1, <2>1, <2>4
      <3>4. vs[k] \in Fitting(vs, q)
        BY <1>1, <1>6, <2>4, <3>3 DEF Fitting
      <3>5. \A w \in Fitting(vs, q) : ~Higher(w, vs[k])
        BY <1>1, <2>4 DEF Fitting
      <3> QED
        BY <1>1, <1>6, <3>2, <3>4, <3>5 DEF Nearest
    <2> QED
      BY <1>3, <2>2, <2>3, <2>4, UpToWins
  <1> QED
    BY <1>3, <1>4, <1>5, <1>6

-----------------------------------------------------------------------------
(***************************************************************************)
(* hls_pick_audio                                                          *)
(***************************************************************************)
OfGroup(m, v) == {a \in ToSet(m.audios) : a.group = v.group /\ a.url # None}

LEMMA PicksAudio ==
    ASSUME NEW A, NEW m, m.audios \in Seq(A), NEW v
    PROVE  IF v.group = None \/ OfGroup(m, v) = {} THEN PickAudio(m, v) = None
           ELSE \E a \in OfGroup(m, v) :
                   a.url = PickAudio(m, v) /\ (a.default \/ ~\E d \in OfGroup(m, v) : d.default)
  <1> PICK as \in Seq(A) : as = m.audios
    OBVIOUS
  <1> DEFINE R == Renditions(m, v)
             D == {i \in R : m.audios[i].default}
  <1>1. DOMAIN as = 1..Len(as) /\ Len(as) \in Nat
    OBVIOUS
  <1>2. R = {i \in 1..Len(as) : as[i].url # None /\ v.group # None /\ as[i].group = v.group}
    BY <1>1 DEF Renditions
  <1>3. /\ \A i \in 1..Len(as) : as[i] \in ToSet(as)
        /\ \A a \in ToSet(as) : \E i \in 1..Len(as) : a = as[i]
    BY MembersOf
  <1>4. CASE R = {}
    <2>1. v.group = None \/ OfGroup(m, v) = {}
      BY <1>2, <1>3, <1>4, SMTT(30) DEF OfGroup
    <2>2. PickAudio(m, v) = None
      BY <1>4 DEF PickAudio
    <2> QED
      BY <2>1, <2>2
  <1>5. CASE R # {}
    <2>1. \A i \in R : as[i] \in OfGroup(m, v) /\ v.group # None
      BY <1>2, <1>3 DEF OfGroup
    <2>2. \A a \in OfGroup(m, v) : \E i \in R : a = as[i]
      BY <1>2, <1>3, <1>5, SMTT(30) DEF OfGroup
    <2>3. v.group # None /\ OfGroup(m, v) # {}
      BY <1>5, <2>1
    <2>4. R \subseteq Nat /\ D \subseteq Nat
      BY <1>2
    <2>5. PickAudio(m, v) = as[Min(IF D = {} THEN R ELSE D)].url
      BY <1>5 DEF PickAudio
    <2>6. CASE D = {}
      <3>1. Min(R) \in R
        BY <1>5, <2>4, LeastExists
      <3>2. ~\E d \in OfGroup(m, v) : d.default
        BY <2>2, <2>6
      <3> QED
        BY <2>1, <2>3, <2>5, <2>6, <3>1, <3>2
    <2>7. CASE D # {}
      <3>1. Min(D) \in D
        BY <2>4, <2>7, LeastExists
      <3>2. Min(D) \in R /\ as[Min(D)].default
        BY <3>1
      <3> QED
        BY <2>1, <2>3, <2>5, <2>7, <3>2
    <2> QED
      BY <2>6, <2>7
  <1> QED
    BY <1>4, <1>5

-----------------------------------------------------------------------------
(***************************************************************************)
(* The master playlist: what is read of it                                 *)
(***************************************************************************)
Groups == {l.group : l \in MasterLines}

Resolved == {Resolve(b, r) : b \in Playlists, r \in References}

Variants == [bw : Int, h : Int, group : Groups, url : Resolved]

Audios == [group : Groups, default : {l.default : l \in MasterLines}, url : Resolved \cup {None}]

StreamInfs == {l \in MasterLines : l.tag = "STREAM-INF"}

Masters == [variants : Seq(Variants), audios : Seq(Audios), pending : StreamInfs \cup {None}]

LEMMA VariantsRanked == Ranked(Variants) /\ NoVariant \notin Variants
  <1>1. None \notin Resolved
    BY LinesAssumption DEF Resolved, Bases
  <1>2. NoVariant.url = None
    BY DEF NoVariant
  <1> QED
    BY <1>1, <1>2 DEF Ranked, Variants

LEMMA MasterLineTyped ==
    ASSUME base \in Playlists, NEW m \in Masters, NEW added \in MasterLines
    PROVE  MasterLine(m, added) \in Masters
  <1>1. /\ m.variants \in Seq(Variants) /\ m.audios \in Seq(Audios)
        /\ m.pending \in StreamInfs \cup {None}
    BY DEF Masters
  <1>2. ASSUME NEW ref \in References PROVE Resolve(base, ref) \in Resolved
    BY <1>2 DEF Resolved
  <1>3. CASE added.tag = "STREAM-INF"
    <2>1. MasterLine(m, added) = [m EXCEPT !.pending = added] /\ added \in StreamInfs
      BY <1>3 DEF MasterLine, StreamInfs
    <2> QED
      BY <1>1, <2>1 DEF Masters
  <1>4. CASE added.tag = "MEDIA"
    <2>1. MasterLine(m, added) = AddMedia(m, added)
      BY <1>4 DEF MasterLine
    <2>2. AddMedia(m, added) = m
          \/ \E a : a \in Audios /\ AddMedia(m, added) = [m EXCEPT !.audios = Append(m.audios, a)]
      <3> DEFINE u == IF added.ref = None THEN None ELSE Resolve(base, added.ref)
                 a == [group |-> added.group, default |-> added.default, url |-> u]
      <3>1. added.ref # None => added.ref \in References
        BY <1>4 DEF References
      <3>2. u \in Resolved \cup {None}
        BY <1>2, <3>1
      <3>3. a \in Audios
        BY <3>2 DEF Audios, Groups
      <3> QED
        BY <3>3 DEF AddMedia
    <2>3. ASSUME NEW a \in Audios PROVE [m EXCEPT !.audios = Append(m.audios, a)] \in Masters
      <3>1. Append(m.audios, a) \in Seq(Audios)
        BY <1>1
      <3> QED
        BY <3>1 DEF Masters
    <2> QED
      BY <2>1, <2>2, <2>3
  <1>5. CASE added.tag = "URL"
    <2>1. MasterLine(m, added) = AddVariant(m, added)
      BY <1>5 DEF MasterLine
    <2>2. added.ref \in References
      BY <1>5, LinesAssumption DEF References
    <2>3. CASE m.pending = None \/ Len(m.variants) >= MaxVariants
      BY <2>1, <2>3 DEF AddVariant
    <2>4. CASE m.pending \in StreamInfs /\ ~(m.pending = None \/ Len(m.variants) >= MaxVariants)
      <3> DEFINE v == [bw |-> m.pending.bw, h |-> m.pending.h,
                       group |-> m.pending.group, url |-> Resolve(base, added.ref)]
      <3>1. m.pending \in MasterLines /\ m.pending.bw \in Int /\ m.pending.h \in Int
        BY <2>4, LinesAssumption DEF StreamInfs
      <3>2. v \in Variants
        BY <1>2, <2>2, <3>1 DEF Variants, Groups
      <3>3. Append(m.variants, v) \in Seq(Variants)
        BY <1>1, <3>2
      <3>4. AddVariant(m, added) = [m EXCEPT !.variants = Append(m.variants, v), !.pending = None]
        BY <2>4 DEF AddVariant
      <3> HIDE DEF v
      <3> QED
        BY <2>1, <3>3, <3>4 DEF Masters
    <2> QED
      BY <1>1, <2>3, <2>4
  <1> QED
    BY <1>3, <1>4, <1>5 DEF MasterLine

-----------------------------------------------------------------------------
(***************************************************************************)
(* The media playlist: what a line adds to what it says                    *)
(***************************************************************************)

\* There is an EXTINF since the last URL.
Waiting == \E p \in 1..Len(text) : text[p].tag = "EXTINF" /\ \A q \in (p + 1)..Len(text) : text[q].tag # "URL"

Place(i) == Cardinality({s \in SegmentLines : s <= i})

Before(i) == Cardinality({s \in SegmentLines : s < i})

LEMMA KeyLineIs ==
    ASSUME text \in Seq(MediaLines), NEW i \in 1..(Len(text) + 1)
    PROVE  /\ KeyLine(i) \in 0..(i - 1)
           /\ KeyLine(i) # 0 => text[KeyLine(i)].tag = "KEY"
           /\ \A p \in 1..(i - 1) : text[p].tag = "KEY" => p <= KeyLine(i)
  <1> DEFINE S == {0} \cup {p \in 1..(i - 1) : text[p].tag = "KEY"}
  <1>1. i - 1 \in Nat /\ S \in SUBSET (0..(i - 1)) /\ S # {}
    OBVIOUS
  <1>2. KeyLine(i) = Max(S)
    BY DEF KeyLine
  <1> HIDE DEF S
  <1>3. Max(S) \in S /\ \A p \in S : p <= Max(S)
    BY <1>1, LargestExists
  <1> QED
    BY <1>2, <1>3 DEF S

\* The largest of a set that is known to have one.
LEMMA LargestIs ==
    ASSUME NEW S \in SUBSET Nat, NEW m \in S, \A i \in S : i <= m
    PROVE  Max(S) = m
  <1>1. \E x \in S : \A y \in S : x >= y
    OBVIOUS
  <1>2. Max(S) \in S /\ \A y \in S : Max(S) >= y
    BY <1>1 DEF Max
  <1>3. Max(S) \in Nat /\ m \in Nat /\ Max(S) >= m /\ Max(S) <= m
    BY <1>2
  <1> QED
    BY <1>3

LEMMA SegmentsFinite ==
    ASSUME text \in Seq(MediaLines)
    PROVE  /\ IsFiniteSet(SegmentLines) /\ SegmentLines \subseteq 1..Len(text)
           /\ Cardinality(SegmentLines) \in Nat
           /\ \A i \in SegmentLines : Place(i) \in 1..Cardinality(SegmentLines)
  <1>1. SegmentLines \subseteq 1..Len(text) /\ Len(text) \in Nat
    BY DEF SegmentLines
  <1>2. IsFiniteSet(SegmentLines)
    <2>1. IsFiniteSet(1..Len(text))
      BY <1>1, FS_Interval
    <2> QED
      BY <1>1, <2>1, FS_Subset
  <1>3. Cardinality(SegmentLines) \in Nat
    BY <1>2, FS_CardinalityType
  <1>4. ASSUME NEW i \in SegmentLines PROVE Place(i) \in 1..Cardinality(SegmentLines)
    <2> DEFINE S == {s \in SegmentLines : s <= i}
    <2>1. S \subseteq SegmentLines /\ i \in S
      BY <1>1
    <2> HIDE DEF S
    <2>2. IsFiniteSet(S) /\ Cardinality(S) <= Cardinality(SegmentLines)
      BY <1>2, <2>1, FS_Subset
    <2>3. Cardinality(S) \in Nat /\ Cardinality(S) # 0
      BY <2>1, <2>2, FS_CardinalityType, FS_EmptySet
    <2>4. Place(i) = Cardinality(S)
      BY DEF Place, S
    <2> QED
      BY <1>3, <2>2, <2>3, <2>4
  <1> QED
    BY <1>1, <1>2, <1>3, <1>4

LEMMA LineAdded ==
    ASSUME text \in Seq(MediaLines), NEW added \in MediaLines, text' = Append(text, added)
    PROVE  /\ text' \in Seq(MediaLines) /\ Len(text) \in Nat /\ Len(text') = Len(text) + 1
           /\ DOMAIN text = 1..Len(text) /\ DOMAIN text' = 1..(Len(text) + 1)
           /\ text'[Len(text) + 1] = added
           /\ \A i \in 1..Len(text) : text'[i] = text[i]
  OBVIOUS

LEMMA WaitingGrows ==
    ASSUME text \in Seq(MediaLines), NEW added \in MediaLines, text' = Append(text, added)
    PROVE  Waiting' <=> added.tag = "EXTINF" \/ (Waiting /\ added.tag # "URL")
  <1> PICK n : n = Len(text)
    OBVIOUS
  <1>1. /\ n \in Nat /\ Len(text') = n + 1 /\ text'[n + 1] = added
        /\ \A i \in 1..n : text'[i] = text[i]
    BY LineAdded
  <1>2. Waiting' <=> \E p \in 1..(n + 1) : text'[p].tag = "EXTINF" /\ \A q \in (p + 1)..(n + 1) : text'[q].tag # "URL"
    BY <1>1 DEF Waiting
  <1>3. Waiting <=> \E p \in 1..n : text[p].tag = "EXTINF" /\ \A q \in (p + 1)..n : text[q].tag # "URL"
    BY DEF Waiting
  <1>4. ASSUME added.tag = "EXTINF" PROVE Waiting'
    <2>1. n + 1 \in 1..(n + 1) /\ \A q \in ((n + 1) + 1)..(n + 1) : text'[q].tag # "URL"
      BY <1>1
    <2> QED
      BY <1>1, <1>2, <1>4, <2>1
  <1>5. ASSUME Waiting, added.tag # "URL" PROVE Waiting'
    <2>1. PICK p \in 1..n : text[p].tag = "EXTINF" /\ \A q \in (p + 1)..n : text[q].tag # "URL"
      BY <1>3, <1>5
    <2>2. \A q \in (p + 1)..(n + 1) : q = n + 1 \/ (q \in (p + 1)..n /\ q \in 1..n)
      BY <1>1
    <2>3. p \in 1..(n + 1) /\ text'[p].tag = "EXTINF"
      BY <1>1, <2>1
    <2>4. \A q \in (p + 1)..(n + 1) : text'[q].tag # "URL"
      BY <1>1, <1>5, <2>1, <2>2
    <2> QED
      BY <1>2, <2>3, <2>4
  <1>6. ASSUME Waiting', added.tag # "EXTINF" PROVE Waiting /\ added.tag # "URL"
    <2>1. PICK p \in 1..(n + 1) : text'[p].tag = "EXTINF" /\ \A q \in (p + 1)..(n + 1) : text'[q].tag # "URL"
      BY <1>2, <1>6
    <2>2. p \in 1..n
      BY <1>1, <1>6, <2>1
    <2>3. n + 1 \in (p + 1)..(n + 1) /\ \A q \in (p + 1)..n : q \in (p + 1)..(n + 1) /\ q \in 1..n
      BY <1>1, <2>2
    <2>4. added.tag # "URL"
      BY <1>1, <2>1, <2>3
    <2>5. text[p].tag = "EXTINF" /\ \A q \in (p + 1)..n : text[q].tag # "URL"
      BY <1>1, <2>1, <2>2, <2>3
    <2> QED
      BY <1>3, <2>2, <2>4, <2>5
  <1> QED
    BY <1>4, <1>5, <1>6

LEMMA SegmentsGrow ==
    ASSUME text \in Seq(MediaLines), NEW added \in MediaLines, text' = Append(text, added)
    PROVE  SegmentLines' = IF added.tag = "URL" /\ Waiting THEN SegmentLines \cup {Len(text) + 1} ELSE SegmentLines
  <1> PICK n : n = Len(text)
    OBVIOUS
  <1>1. /\ n \in Nat /\ DOMAIN text = 1..n /\ DOMAIN text' = 1..(n + 1) /\ text'[n + 1] = added
        /\ \A i \in 1..n : text'[i] = text[i]
    BY LineAdded
  <1>2. ASSUME NEW i \in 1..n PROVE SegmentLine(i)' <=> SegmentLine(i)
    <2>1. /\ \A p \in 1..(i - 1) : p \in 1..n
          /\ \A p \in 1..(i - 1) : \A q \in (p + 1)..(i - 1) : q \in 1..n
      BY <1>1
    <2>2. text'[i] = text[i] /\ \A p \in 1..(i - 1) : text'[p] = text[p]
      BY <1>1, <2>1
    <2>3. \A p \in 1..(i - 1) :
             (\A q \in (p + 1)..(i - 1) : text'[q].tag # "URL") <=> \A q \in (p + 1)..(i - 1) : text[q].tag # "URL"
      BY <1>1, <2>1
    <2> QED
      BY <2>2, <2>3 DEF SegmentLine
  <1>3. SegmentLine(n + 1)' <=> added.tag = "URL" /\ Waiting
    <2>1. (n + 1) - 1 = n /\ \A p \in 1..n : \A q \in (p + 1)..n : q \in 1..n
      BY <1>1
    <2>2. \A p \in 1..n : text'[p] = text[p] /\
             ((\A q \in (p + 1)..n : text'[q].tag # "URL") <=> \A q \in (p + 1)..n : text[q].tag # "URL")
      BY <1>1, <2>1
    <2>3. SegmentLine(n + 1)' <=>
             /\ added.tag = "URL"
             /\ \E p \in 1..n : text'[p].tag = "EXTINF" /\ \A q \in (p + 1)..n : text'[q].tag # "URL"
      BY <1>1, <2>1 DEF SegmentLine
    <2> QED
      BY <2>2, <2>3 DEF Waiting
  <1>4. \A i : i \in SegmentLines' <=> i \in 1..(n + 1) /\ SegmentLine(i)'
    BY <1>1 DEF SegmentLines
  <1>5. \A i : i \in SegmentLines <=> i \in 1..n /\ SegmentLine(i)
    BY <1>1 DEF SegmentLines
  <1>6. \A i : i \in 1..(n + 1) <=> i \in 1..n \/ i = n + 1
    BY <1>1
  <1>7. n + 1 \notin 1..n
    BY <1>1
  <1> QED
    BY <1>2, <1>3, <1>4, <1>5, <1>6, <1>7

LEMMA PlacesGrow ==
    ASSUME text \in Seq(MediaLines), NEW added \in MediaLines, text' = Append(text, added),
           NEW n, n = Len(text)
    PROVE  /\ \A i \in SegmentLines : Place(i)' = Place(i) /\ Before(i)' = Before(i)
           /\ added.tag = "URL" /\ Waiting =>
                /\ Cardinality(SegmentLines)' = Cardinality(SegmentLines) + 1
                /\ Place(n + 1)' = Cardinality(SegmentLines) + 1
                /\ Before(n + 1)' = Cardinality(SegmentLines)
  <1>1. SegmentLines' = IF added.tag = "URL" /\ Waiting THEN SegmentLines \cup {n + 1} ELSE SegmentLines
    BY SegmentsGrow
  <1>2. IsFiniteSet(SegmentLines) /\ SegmentLines \subseteq 1..n /\ n \in Nat
    BY SegmentsFinite
  <1>3. ASSUME NEW i \in SegmentLines PROVE Place(i)' = Place(i) /\ Before(i)' = Before(i)
    <2>1. {s \in SegmentLines' : s <= i} = {s \in SegmentLines : s <= i}
      BY <1>1, <1>2
    <2>2. {s \in SegmentLines' : s < i} = {s \in SegmentLines : s < i}
      BY <1>1, <1>2
    <2> QED
      BY <2>1, <2>2 DEF Place, Before
  <1>4. ASSUME added.tag = "URL" /\ Waiting
        PROVE  /\ Cardinality(SegmentLines)' = Cardinality(SegmentLines) + 1
               /\ Place(n + 1)' = Cardinality(SegmentLines) + 1
               /\ Before(n + 1)' = Cardinality(SegmentLines)
    <2>1. SegmentLines' = SegmentLines \cup {n + 1} /\ n + 1 \notin SegmentLines
      BY <1>1, <1>2, <1>4
    <2>2. Cardinality(SegmentLines \cup {n + 1}) = Cardinality(SegmentLines) + 1
      BY <1>2, <2>1, FS_AddElement
    <2> PICK S : S = SegmentLines
      OBVIOUS
    <2>3. \A s \in S : s < n + 1 /\ s <= n + 1
      <3>1. \A s \in 1..n : s < n + 1 /\ s <= n + 1
        BY <1>2
      <3> QED
        BY <1>2, <3>1
    <2>4. n + 1 <= n + 1 /\ ~(n + 1 < n + 1)
      BY <1>2
    <2>5. {s \in S \cup {n + 1} : s <= n + 1} = S \cup {n + 1}
      BY <2>3, <2>4
    <2>6. {s \in S \cup {n + 1} : s < n + 1} = S
      BY <2>3, <2>4
    <2> QED
      BY <2>1, <2>2, <2>5, <2>6 DEF Place, Before
  <1> QED
    BY <1>3, <1>4

LEMMA KeysGrow ==
    ASSUME text \in Seq(MediaLines), NEW added \in MediaLines, text' = Append(text, added),
           NEW n, n = Len(text)
    PROVE  /\ \A i \in 1..(n + 1) : KeyLine(i)' = KeyLine(i)
           /\ KeyLine(n + 2)' = IF added.tag = "KEY" THEN n + 1 ELSE KeyLine(n + 1)
  <1>1. /\ n \in Nat /\ text'[n + 1] = added /\ \A i \in 1..n : text'[i] = text[i]
    BY LineAdded
  <1>2. ASSUME NEW i \in 1..(n + 1) PROVE KeyLine(i)' = KeyLine(i)
    <2>1. {p \in 1..(i - 1) : text'[p].tag = "KEY"} = {p \in 1..(i - 1) : text[p].tag = "KEY"}
      <3>1. \A p \in 1..(i - 1) : p \in 1..n
        BY <1>1
      <3> QED
        BY <1>1, <3>1
    <2> QED
      BY <2>1 DEF KeyLine
  <1> DEFINE S == {0} \cup {p \in 1..n : text[p].tag = "KEY"}
             T == {0} \cup {p \in 1..(n + 1) : text'[p].tag = "KEY"}
  <1>3. (n + 2) - 1 = n + 1 /\ (n + 1) - 1 = n
    BY <1>1
  <1>4. KeyLine(n + 2)' = Max(T) /\ KeyLine(n + 1) = Max(S)
    BY <1>3 DEF KeyLine
  <1>5. ASSUME added.tag = "KEY" PROVE KeyLine(n + 2)' = n + 1
    <2>1. T \in SUBSET Nat /\ n + 1 \in T /\ \A i \in T : i <= n + 1
      BY <1>1, <1>5
    <2> HIDE DEF T
    <2>2. Max(T) = n + 1
      BY <2>1, LargestIs
    <2> QED
      BY <1>4, <2>2
  <1>6. ASSUME added.tag # "KEY" PROVE KeyLine(n + 2)' = KeyLine(n + 1)
    <2>1. \A p : p \in 1..(n + 1) <=> p \in 1..n \/ p = n + 1
      BY <1>1
    <2>2. T = S
      BY <1>1, <1>6, <2>1
    <2> QED
      BY <1>4, <2>2
  <1> QED
    BY <1>2, <1>5, <1>6

LEMMA NumberGrows ==
    ASSUME text \in Seq(MediaLines), NEW added \in MediaLines, text' = Append(text, added)
    PROVE  FirstNumber' = IF added.tag = "MEDIA-SEQUENCE" THEN added.number ELSE FirstNumber
  <1> PICK n : n = Len(text)
    OBVIOUS
  <1>1. /\ n \in Nat /\ DOMAIN text = 1..n /\ DOMAIN text' = 1..(n + 1) /\ text'[n + 1] = added
        /\ \A i \in 1..n : text'[i] = text[i]
    BY LineAdded
  <1> DEFINE S == {i \in DOMAIN text : text[i].tag = "MEDIA-SEQUENCE"}
             T == {i \in DOMAIN text' : text'[i].tag = "MEDIA-SEQUENCE"}
  <1>2. /\ FirstNumber = IF S = {} THEN 0 ELSE text[Max(S)].number
        /\ FirstNumber' = IF T = {} THEN 0 ELSE text'[Max(T)].number
    BY DEF FirstNumber
  <1>3. CASE added.tag = "MEDIA-SEQUENCE"
    <2>1. T \in SUBSET Nat /\ n + 1 \in T /\ \A i \in T : i <= n + 1
      BY <1>1, <1>3
    <2> HIDE DEF T
    <2>2. Max(T) = n + 1 /\ T # {}
      BY <2>1, LargestIs
    <2> QED
      BY <1>1, <1>2, <1>3, <2>2
  <1>4. CASE added.tag # "MEDIA-SEQUENCE"
    <2>1. \A p : p \in 1..(n + 1) <=> p \in 1..n \/ p = n + 1
      BY <1>1
    <2>2. T = S
      BY <1>1, <1>4, <2>1
    <2>3. S # {} => Max(S) \in 1..n
      <3>1. S \in SUBSET (0..n)
        BY <1>1
      <3>2. S # {} => Max(S) \in S
        <4> HIDE DEF S
        <4> QED
          BY <1>1, <3>1, LargestExists
      <3> QED
        BY <1>1, <3>2
    <2> QED
      BY <1>1, <1>2, <1>4, <2>2, <2>3
  <1> QED
    BY <1>3, <1>4

LEMMA SequenceGrows ==
    ASSUME text \in Seq(MediaLines), NEW added \in MediaLines, text' = Append(text, added)
    PROVE  /\ SequenceFirst' => SequenceFirst
           /\ SequenceFirst' /\ SegmentLines # {} => added.tag # "MEDIA-SEQUENCE"
  <1> PICK n : n = Len(text)
    OBVIOUS
  <1>1. /\ n \in Nat /\ DOMAIN text = 1..n /\ DOMAIN text' = 1..(n + 1) /\ text'[n + 1] = added
        /\ \A i \in 1..n : text'[i] = text[i]
    BY LineAdded
  <1>2. SegmentLines \subseteq SegmentLines' /\ SegmentLines \subseteq 1..n
    BY SegmentsGrow, SegmentsFinite
  <1>3. n + 1 \in DOMAIN text' /\ DOMAIN text \subseteq DOMAIN text' /\ \A s \in 1..n : ~(n + 1 < s)
    BY <1>1
  <1>4. SequenceFirst' => SequenceFirst
    BY <1>1, <1>2, <1>3 DEF SequenceFirst
  <1>5. SequenceFirst' /\ SegmentLines # {} => added.tag # "MEDIA-SEQUENCE"
    BY <1>1, <1>2, <1>3 DEF SequenceFirst
  <1> QED
    BY <1>4, <1>5

\* The iv of the segment of line i.
IvRight(segment, i) ==
    IF text[KeyLine(i)].iv # None THEN segment.iv = text[KeyLine(i)].iv
    ELSE SequenceFirst => segment.iv = <<"sequence", FirstNumber + Before(i)>>

\* What Says says, but that the key has not been fetched yet.
SaysAll(segment, i) ==
    /\ segment.url = Resolve(base, text[i].ref)
    /\ segment.enc = ~InTheClear(i)
    /\ segment.enc => segment.key = Resolve(base, text[KeyLine(i)].ref) /\ IvRight(segment, i)

LEMMA OldSegmentsKeep ==
    ASSUME text \in Seq(MediaLines), NEW added \in MediaLines, text' = Append(text, added), base' = base,
           NEW i \in SegmentLines, NEW segment, SaysAll(segment, i)
    PROVE  SaysAll(segment, i)'
  <1> PICK n : n = Len(text)
    OBVIOUS
  <1>1. n \in Nat /\ \A j \in 1..n : text'[j] = text[j]
    BY LineAdded
  <1>2. i \in 1..n /\ i \in 1..(n + 1)
    BY <1>1, SegmentsFinite
  <1> PICK k : k = KeyLine(i)
    OBVIOUS
  <1>3. k \in 0..(i - 1) /\ KeyLine(i)' = k
    BY <1>2, KeyLineIs, KeysGrow
  <1>4. text'[i] = text[i] /\ (k # 0 => text'[k] = text[k])
    BY <1>1, <1>2, <1>3
  <1>5. InTheClear(i)' <=> InTheClear(i)
    BY <1>3, <1>4 DEF InTheClear
  <1>6. ~InTheClear(i) => k # 0
    BY DEF InTheClear
  <1>7. Before(i)' = Before(i)
    BY PlacesGrow
  <1>8. IvRight(segment, i) /\ k # 0 => IvRight(segment, i)'
    <2>1. /\ SequenceFirst' => SequenceFirst
          /\ SequenceFirst' => added.tag # "MEDIA-SEQUENCE"
      BY SequenceGrows
    <2>2. added.tag # "MEDIA-SEQUENCE" => FirstNumber' = FirstNumber
      BY NumberGrows
    <2> QED
      BY <1>3, <1>4, <1>7, <2>1, <2>2 DEF IvRight
  <1>9. segment.enc = ~InTheClear(i) /\ segment.url = Resolve(base, text[i].ref)
    BY DEF SaysAll
  <1>10. segment.enc = (~InTheClear(i))'
    BY <1>5, <1>9
  <1>11. segment.url = Resolve(base', text'[i].ref)
    BY <1>4, <1>9
  <1>12. ASSUME segment.enc PROVE (segment.key = Resolve(base, text[KeyLine(i)].ref) /\ IvRight(segment, i))'
    <2>1. k # 0
      BY <1>6, <1>9, <1>12
    <2>2. segment.key = Resolve(base, text[k].ref) /\ IvRight(segment, i)
      BY <1>12 DEF SaysAll
    <2> QED
      BY <1>3, <1>4, <1>8, <2>1, <2>2
  <1> QED
    BY <1>10, <1>11, <1>12 DEF SaysAll

-----------------------------------------------------------------------------
(***************************************************************************)
(* The media playlist: what has been read of it                            *)
(***************************************************************************)
Numbers == {l.number : l \in MediaLines} \cup {0}

FullUrls == {Resolve(b, r) : b \in Bases, r \in References}

Ivs == {l.iv : l \in MediaLines} \cup {None}

SegmentSet == [url : FullUrls, enc : BOOLEAN, key : FullUrls \cup {None},
               iv : Ivs \cup {<<"sequence", m + k>> : m \in Numbers, k \in Nat}]

MediaSet == [segments : Seq(SegmentSet), sequence : Numbers, enc : BOOLEAN, key : FullUrls \cup {None},
             iv : Ivs, pending : BOOLEAN]

KeyHolds(m, k) ==
    /\ k = 0 => ~m.enc
    /\ k # 0 => m.enc = (text[k].method = "AES-128") /\ text[k].method \in {"NONE", "AES-128"}
    /\ m.enc => m.key = Resolve(base, text[k].ref) /\ m.iv = text[k].iv /\ m.key # None

MediaRead ==
    /\ text \in Seq(MediaLines) /\ media \in MediaSet
    /\ media.pending = Waiting
    /\ media.sequence = FirstNumber
    /\ KeyHolds(media, KeyLine(Len(text) + 1))
    /\ Len(media.segments) = Cardinality(SegmentLines)
    /\ \A i \in SegmentLines : SaysAll(media.segments[Place(i)], i)
    /\ \A j \in 1..Len(media.segments) : media.segments[j].enc => media.segments[j].key # None

LEMMA NothingRead ==
    ASSUME text = <<>>, media = NoMedia
    PROVE  MediaRead
  <1>1. text \in Seq(MediaLines) /\ Len(text) = 0 /\ DOMAIN text = {}
    OBVIOUS
  <1>2. media \in MediaSet
    BY DEF NoMedia, MediaSet, Numbers, Ivs
  <1>3. Waiting = FALSE
    BY <1>1 DEF Waiting
  <1>4. FirstNumber = 0
    BY <1>1 DEF FirstNumber
  <1>5. SegmentLines = {}
    BY <1>1 DEF SegmentLines
  <1>6. Cardinality(SegmentLines) = 0
    BY <1>5, FS_EmptySet
  <1>7. KeyLine(Len(text) + 1) = 0
    <2>1. Len(text) + 1 \in 1..(Len(text) + 1) /\ (Len(text) + 1) - 1 = 0
      BY <1>1
    <2>2. KeyLine(Len(text) + 1) \in 0..((Len(text) + 1) - 1)
      BY <1>1, <2>1, KeyLineIs
    <2> QED
      BY <2>1, <2>2
  <1>8. ~media.enc /\ media.pending = FALSE /\ media.sequence = 0 /\ media.segments = <<>>
    BY DEF NoMedia
  <1>9. KeyHolds(media, KeyLine(Len(text) + 1))
    BY <1>7, <1>8 DEF KeyHolds
  <1>10. media.pending = Waiting /\ media.sequence = FirstNumber
    BY <1>3, <1>4, <1>8
  <1>11. Len(media.segments) = 0
    BY <1>8
  <1>12. \A j \in 1..Len(media.segments) : media.segments[j].enc => media.segments[j].key # None
    BY <1>11
  <1> QED
    BY <1>1, <1>2, <1>5, <1>6, <1>9, <1>10, <1>11, <1>12 DEF MediaRead

LEMMA NothingReadNext == text' = <<>> /\ media' = NoMedia => MediaRead'
  <1>1. text = <<>> /\ media = NoMedia => MediaRead
    BY NothingRead
  <1>2. (text = <<>> /\ media = NoMedia => MediaRead)'
    BY <1>1, PTL
  <1> QED
    BY <1>2

LEMMA MediaLineTyped ==
    ASSUME base \in Bases, NEW m \in MediaSet, NEW added \in MediaLines, ~Unsupported(m, added)
    PROVE  MediaLine(m, added) \in MediaSet
  <1>1. /\ m.segments \in Seq(SegmentSet) /\ m.sequence \in Numbers /\ m.enc \in BOOLEAN
        /\ m.key \in FullUrls \cup {None} /\ m.iv \in Ivs /\ m.pending \in BOOLEAN
    BY DEF MediaSet
  <1>2. ASSUME NEW ref \in References PROVE Resolve(base, ref) \in FullUrls
    BY <1>2 DEF FullUrls
  <1>3. CASE added.tag = "EXTINF"
    BY <1>3 DEF MediaLine, MediaSet
  <1>4. CASE added.tag = "MEDIA-SEQUENCE"
    <2>1. added.number \in Numbers
      BY DEF Numbers
    <2> QED
      BY <1>4, <2>1 DEF MediaLine, MediaSet
  <1>5. CASE added.tag = "KEY"
    <2> DEFINE e == added.method = "AES-128"
               k == IF e THEN Resolve(base, added.ref) ELSE None
               v == IF e THEN added.iv ELSE None
    <2>1. MediaLine(m, added) = [m EXCEPT !.enc = e, !.key = k, !.iv = v]
      BY <1>5 DEF MediaLine, ApplyKey
    <2>2. e => added.ref \in References
      BY <1>5 DEF Unsupported, References
    <2>3. e \in BOOLEAN /\ k \in FullUrls \cup {None} /\ v \in Ivs
      BY <1>2, <2>2 DEF Ivs
    <2> HIDE DEF e, k, v
    <2> QED
      BY <2>1, <2>3 DEF MediaSet
  <1>6. CASE added.tag = "URL" /\ m.pending
    <2>1. MediaLine(m, added) = AddSegment(m, added)
      BY <1>6 DEF MediaLine
    <2>2. added.ref \in References
      BY <1>6, LinesAssumption DEF References
    <2> DEFINE s == [url |-> Resolve(base, added.ref), enc |-> m.enc,
                     key |-> IF m.enc THEN m.key ELSE None, iv |-> SegmentIv(m)]
    <2>3. SegmentIv(m) \in Ivs \cup {<<"sequence", a + k>> : a \in Numbers, k \in Nat}
      <3>1. Len(m.segments) \in Nat
        BY <1>1
      <3> QED
        BY <1>1, <3>1 DEF SegmentIv, Ivs
    <2>4. s \in SegmentSet
      BY <1>1, <1>2, <2>2, <2>3 DEF SegmentSet
    <2>5. Append(m.segments, s) \in Seq(SegmentSet)
      BY <1>1, <2>4
    <2>6. AddSegment(m, added) = [m EXCEPT !.segments = Append(m.segments, s), !.pending = FALSE]
      BY DEF AddSegment
    <2> HIDE DEF s
    <2> QED
      BY <2>1, <2>5, <2>6 DEF MediaSet
  <1> QED
    BY <1>3, <1>4, <1>5, <1>6 DEF MediaLine

LEMMA KeysHold ==
    ASSUME MediaRead, base \in Bases, base' = base, NEW added \in MediaLines, ~Unsupported(media, added),
           text' = Append(text, added), media' = MediaLine(media, added)
    PROVE  KeyHolds(media, KeyLine(Len(text) + 1))'
  <1> PICK n, m, k : n = Len(text) /\ m = media /\ k = KeyLine(n + 1)
    OBVIOUS
  <1>1. text \in Seq(MediaLines) /\ m \in MediaSet /\ KeyHolds(m, k)
    BY DEF MediaRead
  <1>2. /\ n \in Nat /\ Len(text') = n + 1 /\ text'[n + 1] = added
        /\ \A i \in 1..n : text'[i] = text[i]
    BY <1>1, LineAdded
  <1> PICK k2 : k2 = KeyLine(n + 2)'
    OBVIOUS
  <1>3. k2 = IF added.tag = "KEY" THEN n + 1 ELSE k
    BY <1>1, KeysGrow
  <1>4. (n + 1) + 1 = n + 2 /\ n + 1 \in 1..(n + 1) /\ (n + 1) - 1 = n
    BY <1>2
  <1>5. k \in 0..n
    BY <1>1, <1>4, KeyLineIs
  <1> PICK m2 : m2 = MediaLine(m, added)
    OBVIOUS
  <1>6. ~Unsupported(m, added)
    OBVIOUS
  <1>7. KeyHolds(m2, k2)'
    <2>1. CASE added.tag = "KEY"
      <3> DEFINE e == added.method = "AES-128"
                 u == IF e THEN Resolve(base, added.ref) ELSE None
                 v == IF e THEN added.iv ELSE None
      <3>1. m2 = [m EXCEPT !.enc = e, !.key = u, !.iv = v]
        BY <2>1 DEF MediaLine, ApplyKey
      <3>2. m2.enc = e /\ m2.key = u /\ m2.iv = v
        <4> HIDE DEF e, u, v
        <4> QED
          BY <1>1, <3>1 DEF MediaSet
      <3>3. k2 = n + 1 /\ k2 # 0 /\ text'[k2] = added
        BY <1>2, <1>3, <2>1
      <3>4. added.method \in {"NONE", "AES-128"} /\ (e => added.ref # None)
        BY <1>6, <2>1 DEF Unsupported
      <3>5. e => Resolve(base, added.ref) # None
        <4>1. e => added.ref \in References
          BY <2>1, <3>4 DEF References
        <4> QED
          BY <4>1, LinesAssumption
      <3> QED
        BY <3>2, <3>3, <3>4, <3>5 DEF KeyHolds
    <2>2. CASE added.tag # "KEY"
      <3>1. m2.enc = m.enc /\ m2.key = m.key /\ m2.iv = m.iv
        BY <1>1, <2>2 DEF MediaLine, AddSegment, MediaSet
      <3>2. k2 = k /\ (k # 0 => text'[k] = text[k])
        BY <1>2, <1>3, <1>5, <2>2
      <3>3. m.enc => k # 0
        BY <1>1 DEF KeyHolds
      <3> QED
        BY <1>1, <3>1, <3>2, <3>3 DEF KeyHolds
    <2> QED
      BY <2>1, <2>2
  <1>8. KeyLine(Len(text) + 1)' = k2
    BY <1>2, <1>4 DEF KeyLine
  <1>9. media' = m2
    OBVIOUS
  <1> QED
    BY <1>7, <1>8, <1>9 DEF KeyHolds

\* The segment of line n + 1 is made as the playlist says it.
LEMMA NewSegmentRight ==
    ASSUME MediaRead, base \in Bases, base' = base, NEW added \in MediaLines,
           text' = Append(text, added), added.tag = "URL", media.pending,
           NEW n, n = Len(text), NEW segment,
           segment = [url |-> Resolve(base, added.ref), enc |-> media.enc,
                      key |-> IF media.enc THEN media.key ELSE None, iv |-> SegmentIv(media)]
    PROVE  SaysAll(segment, n + 1)' /\ (segment.enc => segment.key # None)
  <1> PICK m, k : m = media /\ k = KeyLine(n + 1)
    OBVIOUS
  <1>1. text \in Seq(MediaLines) /\ m \in MediaSet /\ KeyHolds(m, k)
    BY DEF MediaRead
  <1>2. /\ n \in Nat /\ text'[n + 1] = added
        /\ \A i \in 1..n : text'[i] = text[i]
    BY <1>1, LineAdded
  <1>3. n + 1 \in 1..(n + 1) /\ (n + 1) - 1 = n
    BY <1>2
  <1>4. k \in 0..n /\ KeyLine(n + 1)' = k
    BY <1>1, <1>3, KeyLineIs, KeysGrow
  <1>5. k # 0 => text'[k] = text[k]
    BY <1>2, <1>4
  <1>6. /\ segment.url = Resolve(base, added.ref) /\ segment.enc = m.enc
        /\ segment.key = (IF m.enc THEN m.key ELSE None) /\ segment.iv = SegmentIv(m)
    OBVIOUS
  <1>7. m.enc \in BOOLEAN
    BY <1>1 DEF MediaSet
  <1>8. m.enc = ~(k = 0 \/ text[k].method = "NONE")
    BY <1>1, <1>7 DEF KeyHolds
  <1>9. segment.enc = (~InTheClear(n + 1))'
    BY <1>4, <1>5, <1>6, <1>8 DEF InTheClear
  <1>10. segment.url = Resolve(base', text'[n + 1].ref)
    BY <1>2, <1>6
  <1>11. ASSUME segment.enc PROVE (segment.key = Resolve(base, text[KeyLine(n + 1)].ref) /\ IvRight(segment, n + 1))'
    <2>1. m.enc /\ k # 0
      BY <1>1, <1>6, <1>11 DEF KeyHolds
    <2>2. m.key = Resolve(base, text[k].ref) /\ m.iv = text[k].iv
      BY <1>1, <2>1 DEF KeyHolds
    <2>3. FirstNumber' = FirstNumber
      BY <1>1, NumberGrows
    <2>4. Waiting /\ m.sequence = FirstNumber /\ Len(m.segments) = Cardinality(SegmentLines)
      BY DEF MediaRead
    <2>5. Before(n + 1)' = Cardinality(SegmentLines)
      BY <1>1, <2>4, PlacesGrow
    <2>6. m.iv = None => segment.iv = <<"sequence", m.sequence + Len(m.segments)>>
      BY <1>6, <2>1 DEF SegmentIv
    <2>7. m.iv # None => segment.iv = m.iv
      BY <1>6, <2>1 DEF SegmentIv
    <2>8. text'[KeyLine(n + 1)'] = text[k]
      BY <1>4, <1>5, <2>1
    <2>9. IvRight(segment, n + 1)'
      BY <2>2, <2>3, <2>4, <2>5, <2>6, <2>7, <2>8 DEF IvRight
    <2> QED
      BY <1>6, <2>1, <2>2, <2>8, <2>9
  <1>12. segment.enc => segment.key # None
    BY <1>1, <1>6 DEF KeyHolds
  <1> QED
    BY <1>9, <1>10, <1>11, <1>12 DEF SaysAll

LEMMA ReadsOn ==
    ASSUME MediaRead, base \in Bases, base' = base, NEW added \in MediaLines, ~Unsupported(media, added),
           text' = Append(text, added), media' = MediaLine(media, added)
    PROVE  MediaRead'
  <1> PICK n, m : n = Len(text) /\ m = media
    OBVIOUS
  <1>1. /\ text \in Seq(MediaLines) /\ m \in MediaSet /\ m.pending = Waiting /\ m.sequence = FirstNumber
        /\ Len(m.segments) = Cardinality(SegmentLines)
        /\ \A i \in SegmentLines : SaysAll(m.segments[Place(i)], i)
        /\ \A j \in 1..Len(m.segments) : m.segments[j].enc => m.segments[j].key # None
    BY DEF MediaRead
  <1>2. /\ n \in Nat /\ Len(text') = n + 1 /\ text'[n + 1] = added /\ text' \in Seq(MediaLines)
        /\ \A i \in 1..n : text'[i] = text[i]
    BY <1>1, LineAdded
  <1> PICK m2 : m2 = MediaLine(m, added)
    OBVIOUS
  <1>3. m2 \in MediaSet /\ media' = m2
    BY <1>1, MediaLineTyped
  <1>4. /\ m.segments \in Seq(SegmentSet) /\ m.pending \in BOOLEAN
    BY <1>1 DEF MediaSet
  <1>5. m2.sequence = IF added.tag = "MEDIA-SEQUENCE" THEN added.number ELSE m.sequence
    BY <1>1 DEF MediaLine, ApplyKey, AddSegment, MediaSet
  <1>6. m2.sequence = FirstNumber'
    BY <1>1, <1>5, NumberGrows
  <1>7. m2.pending <=> added.tag = "EXTINF" \/ (m.pending /\ added.tag # "URL")
    BY <1>1, <1>4 DEF MediaLine, ApplyKey, AddSegment, MediaSet
  <1>8. m2.pending = Waiting'
    <2>1. m2.pending \in BOOLEAN
      BY <1>3 DEF MediaSet
    <2>2. Waiting' <=> added.tag = "EXTINF" \/ (Waiting /\ added.tag # "URL")
      BY <1>1, WaitingGrows
    <2>3. Waiting' \in BOOLEAN /\ Waiting \in BOOLEAN
      BY DEF Waiting
    <2> QED
      BY <1>1, <1>7, <2>1, <2>2, <2>3
  <1>9. KeyHolds(media, KeyLine(Len(text) + 1))'
    BY KeysHold
  <1>10. \A i \in SegmentLines : Place(i) \in 1..Len(m.segments)
    BY <1>1, SegmentsFinite
  <1>11. /\ Len(m2.segments) = Cardinality(SegmentLines)'
         /\ \A i \in SegmentLines' : SaysAll(m2.segments[Place(i)], i)'
         /\ \A j \in 1..Len(m2.segments) : m2.segments[j].enc => m2.segments[j].key # None
    <2>1. CASE added.tag = "URL" /\ m.pending
      <3> DEFINE s == [url |-> Resolve(base, added.ref), enc |-> m.enc,
                       key |-> IF m.enc THEN m.key ELSE None, iv |-> SegmentIv(m)]
      <3>1. m2.segments = Append(m.segments, s)
        <4>1. m2 = [m EXCEPT !.segments = Append(m.segments, s), !.pending = FALSE]
          BY <2>1 DEF MediaLine, AddSegment
        <4> HIDE DEF s
        <4> QED
          BY <1>1, <4>1 DEF MediaSet
      <3>2. SaysAll(s, n + 1)' /\ (s.enc => s.key # None)
        <4> PICK t : t = s
          OBVIOUS
        <4>1. SaysAll(t, n + 1)' /\ (t.enc => t.key # None)
          BY <2>1, NewSegmentRight
        <4> QED
          BY <4>1
      <3> PICK t : t = s
        OBVIOUS
      <3>3. SaysAll(t, n + 1)' /\ (t.enc => t.key # None) /\ m2.segments = Append(m.segments, t)
        BY <3>1, <3>2
      <3> HIDE DEF s
      <3>4. Len(m2.segments) = Len(m.segments) + 1 /\ Len(m.segments) \in Nat
        BY <1>4, <3>3
      <3>5. /\ m2.segments[Len(m.segments) + 1] = t
            /\ \A j \in 1..Len(m.segments) : m2.segments[j] = m.segments[j]
        BY <1>4, <3>3
      <3>6. Waiting
        BY <1>1, <2>1
      <3>7. /\ Cardinality(SegmentLines)' = Cardinality(SegmentLines) + 1
            /\ Place(n + 1)' = Cardinality(SegmentLines) + 1
            /\ \A i \in SegmentLines : Place(i)' = Place(i)
        BY <1>1, <2>1, <3>6, PlacesGrow
      <3>8. SegmentLines' = SegmentLines \cup {n + 1}
        BY <1>1, <2>1, <3>6, SegmentsGrow
      <3>9. ASSUME NEW i \in SegmentLines' PROVE SaysAll(m2.segments[Place(i)], i)'
        <4>1. CASE i = n + 1
          <5>1. m2.segments[Place(i)'] = t
            BY <1>1, <3>5, <3>7, <4>1
          <5> QED
            BY <3>3, <4>1, <5>1
        <4>2. CASE i \in SegmentLines
          <5> PICK old : old = m.segments[Place(i)]
            OBVIOUS
          <5>1. SaysAll(old, i)'
            BY <1>1, <4>2, OldSegmentsKeep
          <5>2. m2.segments[Place(i)'] = old
            BY <1>10, <3>5, <3>7, <4>2
          <5> QED
            BY <5>1, <5>2
        <4> QED
          BY <3>8, <4>1, <4>2
      <3>10. ASSUME NEW j \in 1..Len(m2.segments), m2.segments[j].enc PROVE m2.segments[j].key # None
        <4>1. j = Len(m.segments) + 1 \/ j \in 1..Len(m.segments)
          BY <3>4
        <4> QED
          BY <1>1, <3>3, <3>5, <3>10, <4>1
      <3> QED
        BY <1>1, <3>4, <3>7, <3>9, <3>10
    <2>2. CASE ~(added.tag = "URL" /\ m.pending)
      <3>1. m2.segments = m.segments
        BY <1>1, <2>2 DEF MediaLine, ApplyKey, MediaSet
      <3>2. ~(added.tag = "URL" /\ Waiting)
        BY <1>1, <2>2
      <3>3. SegmentLines' = SegmentLines
        BY <1>1, <3>2, SegmentsGrow
      <3>4. \A i \in SegmentLines : Place(i)' = Place(i)
        BY <1>1, PlacesGrow
      <3>5. ASSUME NEW i \in SegmentLines' PROVE SaysAll(m2.segments[Place(i)], i)'
        <4> PICK old : old = m.segments[Place(i)]
          OBVIOUS
        <4>1. SaysAll(old, i)'
          BY <1>1, <3>3, OldSegmentsKeep
        <4> QED
          BY <3>1, <3>3, <3>4, <4>1
      <3> QED
        BY <1>1, <3>1, <3>3, <3>5
    <2> QED
      BY <2>1, <2>2
  <1> QED
    BY <1>2, <1>3, <1>6, <1>8, <1>9, <1>11 DEF MediaRead

-----------------------------------------------------------------------------
(***************************************************************************)
(* hls_download: what has been done of it                                  *)
(***************************************************************************)

\* The key that was fetched is that of all the segments.
OneKey == \A j \in 1..Len(media.segments) : media.segments[j].enc => media.segments[j].key = key

PlaylistInv ==
    /\ audiourl \in Resolved \cup {None}
    /\ plphase \in {"fetch", "master"} => base \in Playlists
    /\ plphase = "fetch" => text = <<>> /\ master = NoMaster
    /\ plphase = "master" => master \in Masters
    /\ plphase \in {"fetch", "master", "variant"} => media = NoMedia
    /\ plphase = "variant" => base \in Resolved /\ VariantRight
    /\ plphase \in {"media", "key", "ready"} => base \in Bases /\ MediaRead
    /\ plphase = "ready" => OneKey

LEMMA ResolvedBases == Resolved \subseteq Bases /\ Playlists \subseteq Bases
  BY DEF Resolved, Bases

LEMMA PlaylistStarts == PlaylistInit => PlaylistInv
  BY DEF PlaylistInit, PlaylistInv

LEMMA FirstKeyIs ==
    ASSUME MediaRead
    PROVE  /\ FirstKey(media) = None => \A j \in 1..Len(media.segments) : ~media.segments[j].enc
           /\ ~KeyRotates(media) =>
                \A j \in 1..Len(media.segments) : media.segments[j].enc => media.segments[j].key = FirstKey(media)
  <1> DEFINE E == Encrypted(media)
  <1>1. media.segments \in Seq(SegmentSet)
    BY DEF MediaRead, MediaSet
  <1>2. E = {j \in 1..Len(media.segments) : media.segments[j].enc}
    BY <1>1 DEF Encrypted
  <1>3. ASSUME FirstKey(media) = None PROVE E = {}
    <2> SUFFICES ASSUME E # {} PROVE FALSE
      OBVIOUS
    <2>1. E \in SUBSET Nat
      BY <1>1, <1>2
    <2> HIDE DEF E
    <2>2. Min(E) \in E
      BY <2>1, LeastExists
    <2>3. media.segments[Min(E)].key # None
      BY <1>2, <2>2 DEF MediaRead
    <2>4. FirstKey(media) = media.segments[Min(E)].key
      BY DEF FirstKey, E
    <2> QED
      BY <1>3, <2>3, <2>4
  <1>4. ~KeyRotates(media) => \A j \in E : media.segments[j].key = FirstKey(media)
    BY DEF KeyRotates
  <1> HIDE DEF E
  <1> QED
    BY <1>2, <1>3, <1>4

LEMMA MasterSteps ==
    ASSUME PlaylistInv, ReadMasterLine
    PROVE  PlaylistInv'
  <1>1. /\ plphase = "master" /\ plphase' = plphase /\ base' = base /\ media' = media /\ audiourl' = audiourl
        /\ \E added \in MasterLines : master' = MasterLine(master, added)
    BY DEF ReadMasterLine
  <1>2. base \in Playlists /\ master \in Masters /\ media = NoMedia /\ audiourl \in Resolved \cup {None}
    BY <1>1 DEF PlaylistInv
  <1>3. master' \in Masters
    BY <1>1, <1>2, MasterLineTyped
  <1> QED
    BY <1>1, <1>2, <1>3 DEF PlaylistInv

LEMMA ChoiceRight ==
    ASSUME PlaylistInv, EndMaster, master.variants # <<>>
    PROVE  plphase' = "variant" /\ base' \in Resolved /\ audiourl' \in Resolved \cup {None} /\ VariantRight'
  <1>1. plphase = "master" /\ master \in Masters
    BY DEF PlaylistInv, EndMaster
  <1>2. master.variants \in Seq(Variants) /\ master.audios \in Seq(Audios)
    BY <1>1 DEF Masters
  <1>3. PICK q \in Qualities :
           /\ plphase' = "variant" /\ quality' = q
           /\ chosen' = SelectVariant(master.variants, q)
           /\ base' = SelectVariant(master.variants, q).url
           /\ audiourl' = PickAudio(master, SelectVariant(master.variants, q))
    BY DEF EndMaster
  <1> PICK vs, v : vs = master.variants /\ v = SelectVariant(vs, q)
    OBVIOUS
  <1>4. q \in [want : {"best", "worst", "height"}, height : Nat]
    BY PlaylistAssumption
  <1>5. Nearest(v, vs, q)
    BY <1>2, <1>4, VariantsRanked, SelectsNearest
  <1>6. v \in Variants
    <2>1. ToSet(vs) \subseteq Variants
      BY <1>2, MembersOf
    <2> QED
      BY <1>5, <2>1 DEF Nearest
  <1> PICK u : u = PickAudio(master, v)
    OBVIOUS
  <1>7. IF v.group = None \/ OfGroup(master, v) = {} THEN u = None
        ELSE \E a \in OfGroup(master, v) : a.url = u /\ (a.default \/ ~\E d \in OfGroup(master, v) : d.default)
    BY <1>2, PicksAudio
  <1>8. u \in Resolved \cup {None}
    <2>1. ToSet(master.audios) \subseteq Audios
      BY <1>2, MembersOf
    <2>2. \A a \in OfGroup(master, v) : a.url \in Resolved \cup {None}
      BY <2>1 DEF OfGroup, Audios
    <2> QED
      BY <1>7, <2>2
  <1>9. master' = master /\ chosen' = v /\ quality' = q /\ base' = v.url /\ audiourl' = u
    BY <1>3 DEF EndMaster
  <1>10. VariantRight'
    <2> DEFINE F == Fitting(vs, q)
               G == OfGroup(master, v)
    <2>1. F = {w \in ToSet(master'.variants) : quality'.want = "height" /\ w.h <= quality'.height
                                                 /\ \E x \in ToSet(master'.variants) : x.h > 0}
      BY <1>9 DEF Fitting
    <2>2. G = {a \in ToSet(master'.audios) : a.group = chosen'.group /\ a.url # None}
      BY <1>9 DEF OfGroup
    <2>3. /\ chosen' \in ToSet(master'.variants)
          /\ quality'.want = "best" => ~\E w \in ToSet(master'.variants) : Higher(w, chosen')
          /\ quality'.want = "worst" => ~\E w \in ToSet(master'.variants) : Higher(chosen', w)
          /\ F # {} => chosen' \in F /\ ~\E w \in F : Higher(w, chosen')
          /\ (quality'.want = "height" /\ F = {}) => ~\E w \in ToSet(master'.variants) : Higher(chosen', w)
      BY <1>5, <1>9 DEF Nearest
    <2>4. IF chosen'.group = None \/ G = {} THEN audiourl' = None
          ELSE \E a \in G : a.url = audiourl' /\ (a.default \/ ~\E d \in G : d.default)
      BY <1>7, <1>9
    <2> HIDE DEF F, G
    <2> QED
      BY <2>1, <2>2, <2>3, <2>4 DEF VariantRight
  <1>11. v.url \in Resolved
    BY <1>6 DEF Variants
  <1> QED
    BY <1>3, <1>8, <1>9, <1>10, <1>11

LEMMA ReadStays ==
    ASSUME MediaRead, text' = text, media' = media, base' = base
    PROVE  MediaRead'
  <1>1. \A i : SegmentLine(i)' <=> SegmentLine(i)
    BY DEF SegmentLine
  <1>2. SegmentLines' = SegmentLines
    BY <1>1 DEF SegmentLines
  <1>3. \A i : Place(i)' = Place(i) /\ Before(i)' = Before(i)
    BY <1>2 DEF Place, Before
  <1>4. \A i : KeyLine(i)' = KeyLine(i)
    BY DEF KeyLine
  <1>5. FirstNumber' = FirstNumber
    BY DEF FirstNumber
  <1>6. SequenceFirst' <=> SequenceFirst
    BY <1>2 DEF SequenceFirst
  <1>7. Waiting' = Waiting
    BY DEF Waiting
  <1>8. \A s, i : IvRight(s, i)' <=> IvRight(s, i)
    BY <1>3, <1>4, <1>5, <1>6 DEF IvRight
  <1>9. \A i : InTheClear(i)' = InTheClear(i)
    BY <1>4 DEF InTheClear
  <1>10. \A s, i : SaysAll(s, i)' <=> SaysAll(s, i)
    BY <1>4, <1>8, <1>9 DEF SaysAll
  <1>11. \A m, k : KeyHolds(m, k)' <=> KeyHolds(m, k)
    BY DEF KeyHolds
  <1> PICK n : n = Len(text)
    OBVIOUS
  <1> PICK k : k = KeyLine(n + 1)
    OBVIOUS
  <1>12. KeyHolds(media, KeyLine(Len(text) + 1))'
    <2>1. KeyHolds(media, k)
      BY DEF MediaRead
    <2> PICK m : m = media
      OBVIOUS
    <2>2. KeyHolds(m, k)'
      BY <1>11, <2>1
    <2>3. media' = m /\ KeyLine(Len(text) + 1)' = k
      BY <1>4 DEF KeyLine
    <2> QED
      BY <2>2, <2>3 DEF KeyHolds
  <1>13. \A i \in SegmentLines : SaysAll(media.segments[Place(i)], i)'
    <2> SUFFICES ASSUME NEW i \in SegmentLines PROVE SaysAll(media.segments[Place(i)], i)'
      OBVIOUS
    <2> PICK s : s = media.segments[Place(i)]
      OBVIOUS
    <2>1. SaysAll(s, i)
      BY DEF MediaRead
    <2>2. SaysAll(s, i)'
      BY <1>10, <2>1
    <2>3. s = media'.segments[Place(i)']
      BY <1>3
    <2> QED
      BY <2>2, <2>3
  <1> QED
    BY <1>2, <1>5, <1>7, <1>12, <1>13 DEF MediaRead

LEMMA MediaSteps ==
    ASSUME PlaylistInv, ReadMediaLine
    PROVE  PlaylistInv'
  <1>1. /\ plphase = "media" /\ base' = base /\ audiourl' = audiourl
        /\ base \in Bases /\ MediaRead /\ audiourl \in Resolved \cup {None}
    BY DEF PlaylistInv, ReadMediaLine
  <1>2. PICK added \in MediaLines :
          /\ text' = Append(text, added)
          /\ IF Unsupported(media, added) THEN GiveUp /\ UNCHANGED media
             ELSE media' = MediaLine(media, added) /\ UNCHANGED plphase
    BY DEF ReadMediaLine
  <1>3. CASE Unsupported(media, added)
    <2>1. plphase' \in {"failed", "noaudio"}
      BY <1>2, <1>3 DEF GiveUp
    <2> QED
      BY <1>1, <2>1 DEF PlaylistInv
  <1>4. CASE ~Unsupported(media, added)
    <2>1. MediaRead' /\ plphase' = "media"
      BY <1>1, <1>2, <1>4, ReadsOn
    <2> QED
      BY <1>1, <2>1 DEF PlaylistInv
  <1> QED
    BY <1>3, <1>4

LEMMA PlaylistStep == PlaylistInv /\ [PlaylistNext]_plvars => PlaylistInv'
  <1> SUFFICES ASSUME PlaylistInv, [PlaylistNext]_plvars PROVE PlaylistInv'
    OBVIOUS
  <1> USE DEF plvars
  <1>1. ASSUME GiveUp, UNCHANGED audiourl PROVE PlaylistInv'
    <2>1. plphase' \in {"failed", "noaudio"}
      BY <1>1 DEF GiveUp
    <2>2. audiourl' \in Resolved \cup {None}
      BY <1>1 DEF PlaylistInv
    <2> QED
      BY <2>1, <2>2 DEF PlaylistInv
  <1>2. CASE FetchFails
    BY <1>1, <1>2 DEF FetchFails
  <1>3. CASE Fetch
    <2>1. /\ base \in Playlists /\ text = <<>> /\ master = NoMaster /\ media = NoMedia
          /\ audiourl \in Resolved \cup {None} /\ plphase' \in {"master", "media"}
          /\ text' = text /\ media' = media /\ base' = base /\ master' = master /\ audiourl' = audiourl
      BY <1>3 DEF Fetch, PlaylistInv
    <2>2. MediaRead'
      BY <2>1, NothingRead, ReadStays
    <2>3. master' \in Masters
      BY <2>1 DEF Masters, NoMaster
    <2> QED
      BY <2>1, <2>2, <2>3, ResolvedBases DEF PlaylistInv
  <1>4. CASE ReadMasterLine
    BY <1>4, MasterSteps
  <1>5. CASE EndMaster
    <2>1. CASE master.variants = <<>>
      <3>1. GiveUp /\ UNCHANGED audiourl
        BY <1>5, <2>1 DEF EndMaster
      <3> QED
        BY <1>1, <3>1
    <2>2. CASE master.variants # <<>>
      <3>1. media' = NoMedia
        BY <1>5 DEF EndMaster, PlaylistInv
      <3>2. plphase' = "variant" /\ base' \in Resolved /\ audiourl' \in Resolved \cup {None} /\ VariantRight'
        BY <1>5, <2>2, ChoiceRight
      <3> QED
        BY <3>1, <3>2 DEF PlaylistInv
    <2> QED
      BY <2>1, <2>2
  <1>6. CASE FetchVariant
    <2>1. /\ base \in Resolved /\ media = NoMedia /\ audiourl \in Resolved \cup {None}
          /\ plphase' = "media" /\ text' = <<>> /\ media' = NoMedia /\ base' = base /\ audiourl' = audiourl
      BY <1>6 DEF FetchVariant, PlaylistInv
    <2>2. MediaRead'
      BY <2>1, NothingReadNext
    <2> QED
      BY <2>1, <2>2, ResolvedBases DEF PlaylistInv
  <1>7. CASE ReadMediaLine
    BY <1>7, MediaSteps
  <1>8. CASE EndMedia
    <2>1. /\ base \in Bases /\ MediaRead /\ audiourl \in Resolved \cup {None}
          /\ text' = text /\ media' = media /\ base' = base /\ audiourl' = audiourl
      BY <1>8 DEF EndMedia, PlaylistInv
    <2>2. MediaRead'
      BY <2>1, ReadStays
    <2>3. CASE media.segments = <<>>
      <3>1. GiveUp
        BY <1>8, <2>3 DEF EndMedia
      <3> QED
        BY <1>1, <2>1, <3>1
    <2>4. CASE media.segments # <<>> /\ FirstKey(media) # None
      <3>1. plphase' = "key"
        BY <1>8, <2>4 DEF EndMedia
      <3> QED
        BY <2>1, <2>2, <3>1 DEF PlaylistInv
    <2>5. CASE media.segments # <<>> /\ FirstKey(media) = None
      <3>1. plphase' = "ready"
        BY <1>8, <2>5 DEF EndMedia
      <3>2. \A j \in 1..Len(media.segments) : ~media.segments[j].enc
        BY <2>1, <2>5, FirstKeyIs
      <3>3. OneKey'
        BY <2>1, <3>2 DEF OneKey
      <3> QED
        BY <2>1, <2>2, <3>1, <3>3 DEF PlaylistInv
    <2> QED
      BY <2>3, <2>4, <2>5
  <1>9. CASE FetchKey
    <2>1. /\ base \in Bases /\ MediaRead /\ audiourl \in Resolved \cup {None}
          /\ text' = text /\ media' = media /\ base' = base /\ audiourl' = audiourl /\ key' = FirstKey(media)
      BY <1>9 DEF FetchKey, PlaylistInv
    <2>2. CASE KeyRotates(media)
      <3>1. GiveUp
        BY <1>9, <2>2 DEF FetchKey
      <3> QED
        BY <1>1, <2>1, <3>1
    <2>3. CASE ~KeyRotates(media)
      <3>1. plphase' = "ready"
        BY <1>9, <2>3 DEF FetchKey
      <3>2. \A j \in 1..Len(media.segments) : media.segments[j].enc => media.segments[j].key = FirstKey(media)
        BY <2>1, <2>3, FirstKeyIs
      <3>3. OneKey'
        BY <2>1, <3>2 DEF OneKey
      <3>4. MediaRead'
        BY <2>1, ReadStays
      <3> QED
        BY <2>1, <3>1, <3>3, <3>4 DEF PlaylistInv
    <2> QED
      BY <2>2, <2>3
  <1>10. CASE KeyFails
    BY <1>1, <1>10 DEF KeyFails
  <1>11. CASE FetchAudio
    <2>1. /\ audiourl \in Resolved /\ audiourl' = audiourl /\ base' = audiourl
          /\ plphase' = "media" /\ text' = <<>> /\ media' = NoMedia
      BY <1>11 DEF FetchAudio, PlaylistInv
    <2>2. MediaRead'
      BY <2>1, NothingReadNext
    <2> QED
      BY <2>1, <2>2, ResolvedBases DEF PlaylistInv
  <1>12. CASE AudioFails
    <2>1. plphase' = "noaudio" /\ audiourl' \in Resolved \cup {None}
      BY <1>12 DEF AudioFails, PlaylistInv
    <2> QED
      BY <2>1 DEF PlaylistInv
  <1>13. CASE UNCHANGED plvars
    <2>1. MediaRead => MediaRead'
      BY <1>13, ReadStays
    <2>2. VariantRight => VariantRight'
      BY <1>13 DEF VariantRight
    <2>3. OneKey => OneKey'
      BY <1>13 DEF OneKey
    <2> QED
      BY <1>13, <2>1, <2>2, <2>3 DEF PlaylistInv
  <1> QED
    BY <1>2, <1>3, <1>4, <1>5, <1>6, <1>7, <1>8, <1>9, <1>10, <1>11, <1>12, <1>13 DEF PlaylistNext

LEMMA PlaylistFollows == PlaylistInv => PlaylistRight
  <1> SUFFICES ASSUME PlaylistInv PROVE SegmentsRight /\ VariantRight
    BY DEF PlaylistRight
  <1>1. VariantRight
    BY DEF PlaylistInv, VariantRight
  <1>2. SegmentsRight
    <2> SUFFICES ASSUME plphase = "ready"
                 PROVE  /\ Len(media.segments) = Cardinality(SegmentLines)
                        /\ \A i \in SegmentLines : Says(media.segments[Place(i)], i)
      BY DEF SegmentsRight, Place
    <2>1. MediaRead /\ OneKey
      BY DEF PlaylistInv
    <2>2. /\ text \in Seq(MediaLines) /\ Len(media.segments) = Cardinality(SegmentLines)
          /\ \A i \in SegmentLines : SaysAll(media.segments[Place(i)], i)
      BY <2>1 DEF MediaRead
    <2>3. ASSUME NEW i \in SegmentLines PROVE Says(media.segments[Place(i)], i)
      <3> PICK s : s = media.segments[Place(i)]
        OBVIOUS
      <3>1. Place(i) \in 1..Len(media.segments)
        BY <2>2, SegmentsFinite
      <3>2. SaysAll(s, i) /\ (s.enc => s.key = key)
        BY <2>1, <2>2, <3>1 DEF OneKey
      <3>3. Says(s, i)
        BY <3>2 DEF SaysAll, Says, IvRight, Before
      <3> QED
        BY <3>3
    <2> QED
      BY <2>2, <2>3
  <1> QED
    BY <1>1, <1>2

(* For playlists of any length and any lines, what the threads are given is   *)
(* exactly the segments the playlist names, in their order, each with the key *)
(* and the IV that hold where it stands, and the variant and its audio are    *)
(* those nearest to what was asked for (hls_select_variant, hls_pick_audio,   *)
(* hls_parse_media, hls_fetch_key).                                           *)
THEOREM PlaylistAlwaysRight == PlaylistSpec => []PlaylistRight
  <1>1. PlaylistSpec => []PlaylistInv
    BY PlaylistStarts, PlaylistStep, PTL DEF PlaylistSpec
  <1> QED
    BY <1>1, PlaylistFollows, PTL

-----------------------------------------------------------------------------
(***************************************************************************)
(* The menus: where the cursor is and what is shown                        *)
(***************************************************************************)
LEMMA MinOfTwo ==
    ASSUME NEW a \in Int, NEW b \in Int
    PROVE  Min({a, b}) = IF a <= b THEN a ELSE b
  <1>1. \E x \in {a, b} : \A y \in {a, b} : x <= y
    OBVIOUS
  <1>2. PICK m : m = Min({a, b}) /\ m \in {a, b} /\ \A y \in {a, b} : m <= y
    BY <1>1 DEF Min
  <1> QED
    BY <1>2

LEMMA MaxOfTwo ==
    ASSUME NEW a \in Int, NEW b \in Int
    PROVE  Max({a, b}) = IF a >= b THEN a ELSE b
  <1>1. \E x \in {a, b} : \A y \in {a, b} : x >= y
    OBVIOUS
  <1>2. PICK m : m = Max({a, b}) /\ m \in {a, b} /\ \A y \in {a, b} : m >= y
    BY <1>1 DEF Max
  <1> QED
    BY <1>2

-----------------------------------------------------------------------------
(***************************************************************************)
(* The cursor                                                              *)
(***************************************************************************)

(* The window is where the last drawing put it, and the next one starts from  *)
(* there: it begins at an item, shows one at least, and has more than that    *)
(* only where the rows suffice for the rest of what is drawn.                 *)
Roomy ==
    /\ drawn.rows \in Nat /\ drawn.summary \in Nat /\ drawn.chrome \in Nat /\ drawn.chrome >= 8
    /\ inline => window = 1 \/ drawn.chrome + window <= drawn.rows - 1
    /\ ~inline => window = 1 \/ 2 * window <= drawn.rows - 5

Shows ==
    /\ cursor \in top..(top + window - 1)
    /\ inline => top + window - 1 <= Count
    /\ Roomy

ViewInv ==
    /\ inline \in BOOLEAN
    /\ cursor \in Items /\ top \in Items
    /\ window \in Nat \ {0}
    /\ rows \in Rows
    /\ menu \in {"drawn", "key"} => Shows

LEMMA VisibleRows ==
    ASSUME NEW height \in Rows
    PROVE  /\ Visible(height) \in Nat \ {0}
           /\ Visible(height) = 1 \/ 2 * Visible(height) <= height - 5
  <1> DEFINE half == (height - 5) \div 2
  <1>1. height \in Nat
    BY SelectionAssumption
  <1>2. half \in Int /\ 2 * half <= height - 5
    BY <1>1
  <1>3. Visible(height) = IF height > 7 THEN Max({1, half}) ELSE 1
    BY DEF Visible
  <1> HIDE DEF half
  <1>4. Max({1, half}) = IF 1 >= half THEN 1 ELSE half
    BY <1>2, MaxOfTwo
  <1> QED
    BY <1>1, <1>2, <1>3, <1>4

(* What scrolling comes to: the window begins at an item, and shows the cursor. *)
LEMMA ScrolledShows ==
    ASSUME ViewInv, NEW visible \in Nat \ {0}
    PROVE  Scrolled(visible) \in Items /\ cursor \in Scrolled(visible)..(Scrolled(visible) + visible - 1)
  BY SelectionAssumption DEF ViewInv, Scrolled, Items

LEMMA MaxVisibleRows ==
    ASSUME NEW height \in Rows, NEW chrome \in Chromes
    PROVE  /\ MaxVisible(height, chrome) \in 1..Count
           /\ MaxVisible(height, chrome) = 1 \/ chrome + MaxVisible(height, chrome) <= height - 1
  <1> DEFINE budget == IF height > 1 THEN height - 1 ELSE 1
             room == IF budget > chrome THEN budget - chrome ELSE 1
  <1>1. height \in Nat /\ chrome \in Nat /\ chrome >= 8 /\ Count \in Nat \ {0}
    BY SelectionAssumption
  <1>2. room \in Nat \ {0} /\ (room = 1 \/ chrome + room <= height - 1)
    BY <1>1
  <1>3. MaxVisible(height, chrome) = Min({Count, room})
    BY DEF MaxVisible
  <1> HIDE DEF room
  <1> QED
    BY <1>1, <1>2, <1>3, MinOfTwo

(* The cursor is in the middle or the window at an end of the list, which it  *)
(* never leaves.                                                              *)
LEMMA VisibleStartShows ==
    ASSUME ViewInv, NEW visible \in 1..Count
    PROVE  /\ VisibleStart(visible) \in Items
           /\ cursor \in VisibleStart(visible)..(VisibleStart(visible) + visible - 1)
           /\ VisibleStart(visible) + visible - 1 <= Count
  <1> DEFINE half == visible \div 2
             middle == IF cursor - 1 > half THEN cursor - half ELSE 1
  <1>1. Count \in Nat \ {0} /\ cursor \in 1..Count /\ visible \in Nat \ {0}
    BY SelectionAssumption DEF ViewInv, Items
  <1>2. half \in Nat /\ half < visible
    BY <1>1
  <1> HIDE DEF half
  <1>3. middle \in Int /\ Count - visible + 1 \in Int
    BY <1>1, <1>2
  <1>4. Min({middle, Count - visible + 1}) = IF middle <= Count - visible + 1 THEN middle ELSE Count - visible + 1
    BY <1>3, MinOfTwo
  <1>5. CASE Count <= visible
    <2>1. visible = Count /\ VisibleStart(visible) = 1
      BY <1>1, <1>5 DEF VisibleStart
    <2> QED
      BY <1>1, <2>1 DEF Items
  <1>6. CASE ~(Count <= visible)
    <2>1. VisibleStart(visible) = IF middle <= Count - visible + 1 THEN middle ELSE Count - visible + 1
      BY <1>4, <1>6 DEF VisibleStart, half
    <2> QED
      BY <1>1, <1>2, <1>6, <2>1 DEF Items
  <1> QED
    BY <1>5, <1>6

LEMMA ViewDraw ==
    ASSUME ViewInv, Draw
    PROVE  ViewInv'
  <1>1. PICK chrome \in Chromes, summary \in Summaries :
           /\ drawn' = [rows |-> rows, chrome |-> chrome, summary |-> summary]
           /\ window' = IF inline THEN MaxVisible(rows, chrome) ELSE Visible(rows)
           /\ top' = IF inline THEN VisibleStart(window') ELSE Scrolled(window')
    BY DEF Draw
  <1>2. UNCHANGED <<inline, cursor, rows>>
    BY DEF Draw
  <1>3. /\ drawn'.rows = rows /\ drawn'.chrome = chrome /\ drawn'.summary = summary
        /\ rows \in Rows /\ rows \in Nat /\ summary \in Nat /\ chrome \in Nat /\ chrome >= 8
    BY <1>1, SelectionAssumption DEF ViewInv, Shows
  <1>4. CASE inline
    <2> DEFINE visible == MaxVisible(rows, chrome)
    <2>1. window' = visible /\ top' = VisibleStart(visible)
      BY <1>1, <1>4
    <2>2. /\ visible \in 1..Count /\ visible \in Nat \ {0}
          /\ visible = 1 \/ chrome + visible <= rows - 1
      BY <1>3, MaxVisibleRows, SelectionAssumption
    <2> HIDE DEF visible
    <2>3. /\ top' \in Items /\ cursor \in top'..(top' + visible - 1)
          /\ top' + visible - 1 <= Count
      BY <2>1, <2>2, VisibleStartShows
    <2>4. Roomy'
      BY <1>2, <1>3, <1>4, <2>1, <2>2 DEF Roomy
    <2>5. cursor' \in top'..(top' + window' - 1) /\ top' + window' - 1 <= Count /\ window' \in Nat \ {0}
      BY <1>2, <2>1, <2>2, <2>3
    <2> QED
      BY <1>2, <1>3, <2>3, <2>4, <2>5 DEF ViewInv, Shows, Items
  <1>5. CASE ~inline
    <2>1. PICK visible \in Nat \ {0} : /\ window' = visible /\ top' = Scrolled(visible)
                                       /\ visible = 1 \/ 2 * visible <= rows - 5
      BY <1>1, <1>3, <1>5, VisibleRows
    <2>2. top' \in Items /\ cursor \in top'..(top' + visible - 1)
      BY <2>1, ScrolledShows
    <2>3. Roomy'
      BY <1>2, <1>3, <1>5, <2>1 DEF Roomy
    <2> QED
      BY <1>2, <1>5, <2>1, <2>2, <2>3 DEF ViewInv, Shows, Items
  <1> QED
    BY <1>4, <1>5

LEMMA ViewNext == ViewInv /\ [SelectionNext]_selvars => ViewInv'
  <1> SUFFICES ASSUME ViewInv, [SelectionNext]_selvars PROVE ViewInv'
    OBVIOUS
  <1>1. Count \in Nat \ {0} /\ cursor \in 1..Count
    BY SelectionAssumption DEF ViewInv, Shows, Items
  <1>2. ASSUME NEW c \in Items, NEW s, Key(c, s) PROVE ViewInv'
    BY <1>2 DEF Key, ViewInv, Shows, Items
  <1>3. CASE Down \/ Up
    <2>1. Min({cursor + 1, Count}) \in Items
      BY <1>1, MinOfTwo DEF Items
    <2>2. Max({cursor - 1, 1}) \in Items
      BY <1>1, MaxOfTwo DEF Items
    <2> QED
      BY <1>2, <1>3, <2>1, <2>2 DEF Down, Up
  <1>4. CASE Top \/ Bottom \/ Toggle \/ ToggleAll \/ Redraw
    <2>1. 1 \in Items /\ Count \in Items /\ cursor \in Items
      BY <1>1 DEF Items
    <2> QED
      BY <1>2, <1>4, <2>1 DEF Top, Bottom, Toggle, ToggleAll, Redraw
  <1>5. CASE Draw
    BY <1>5, ViewDraw
  <1>6. CASE Type \/ Handlers \/ SetRaw \/ EnterFails \/ SetActive \/ Read \/ Finish \/ Leave \/ SetBack
             \/ HandlersBack \/ Signal \/ Restored \/ UNCHANGED selvars
    <2>1. UNCHANGED viewvars /\ (menu' \in {"drawn", "key"} => menu \in {"drawn", "key"})
      BY <1>6 DEF Type, Handlers, SetRaw, EnterFails, SetActive, Read, Finish, Leave, SetBack, HandlersBack, Signal,
         Restored, selvars
    <2> QED
      BY <2>1 DEF ViewInv, Shows, Roomy, viewvars, Items
  <1>7. CASE Resize
    BY <1>7 DEF Resize, ViewInv, Shows, Roomy, Items
  <1> QED
    BY <1>3, <1>4, <1>5, <1>6, <1>7 DEF SelectionNext

(* What is written below the item under the cursor needs fewer rows than were *)
(* reserved for it, or the terminal has enough for an item alone.             *)
LEMMA BelowBound ==
    ASSUME ViewInv, menu \in {"drawn", "key"}, rows = drawn.rows, RowsSuffice
    PROVE  RowsBelow < rows
  <1>1. /\ Count \in Nat \ {0} /\ cursor \in 1..Count /\ top \in 1..Count /\ window \in Nat \ {0}
        /\ cursor \in top..(top + window - 1) /\ inline \in BOOLEAN /\ Roomy
    <2>1. Count \in Nat \ {0} /\ cursor \in 1..Count /\ top \in 1..Count /\ window \in Nat \ {0}
      BY SelectionAssumption DEF ViewInv, Items
    <2>2. Shows
      BY DEF ViewInv
    <2>3. cursor \in top..(top + window - 1) /\ Roomy
      BY <2>2, Zenon DEF Shows
    <2>4. inline \in BOOLEAN
      BY Zenon DEF ViewInv
    <2> QED
      BY <2>1, <2>3, <2>4
  <1>2. LastShown = IF top + window - 1 <= Count THEN top + window - 1 ELSE Count
    BY <1>1, MinOfTwo DEF LastShown
  <1>3. LastShown \in Int /\ LastShown - cursor <= window - 1
    BY <1>1, <1>2
  <1>4. CASE inline
    <2>1. RowsBelow = (LastShown - cursor) + drawn.summary + 4 /\ drawn.summary <= 5 /\ drawn.rows >= drawn.summary + 5
      BY <1>4 DEF RowsBelow, RowsSuffice
    <2>2. /\ drawn.rows \in Nat /\ drawn.summary \in Nat /\ drawn.chrome \in Nat /\ drawn.chrome >= 8
          /\ window = 1 \/ drawn.chrome + window <= drawn.rows - 1
      BY <1>1, <1>4 DEF Roomy
    <2> QED
      BY <1>1, <1>3, <2>1, <2>2
  <1>5. CASE ~inline
    <2>1. RowsBelow = 2 * (LastShown - cursor) + 2 /\ drawn.rows >= 3
      BY <1>5 DEF RowsBelow, RowsSuffice
    <2>2. drawn.rows \in Nat /\ (window = 1 \/ 2 * window <= drawn.rows - 5)
      BY <1>1, <1>5 DEF Roomy
    <2> QED
      BY <1>1, <1>3, <2>1, <2>2
  <1> QED
    BY <1>4, <1>5

(* For every number of items, all heights the terminal may be resized to at   *)
(* any point, and however long the user moves about: the item under the       *)
(* cursor is shown, and on a terminal of the size it was drawn for, if that   *)
(* holds an item alone with the rest, not scrolled off.                       *)
THEOREM CursorAlwaysShown == SelectionSpec => []CursorShown
  <1>1. SelectionInit => ViewInv
    BY SelectionAssumption DEF SelectionInit, ViewInv, Items
  <1>2. ViewInv => CursorShown
    <2>1. ViewInv /\ menu \in {"drawn", "key"} /\ rows = drawn.rows /\ RowsSuffice => RowsBelow < rows
      BY BelowBound
    <2>2. ViewInv => cursor \in Items /\ top \in Items
      BY Zenon DEF ViewInv
    <2>3. ViewInv /\ menu \in {"drawn", "key"} => Shows
      BY DEF ViewInv
    <2>4. Shows => cursor \in top..(top + window - 1) /\ (inline => top + window - 1 <= Count)
      BY Zenon DEF Shows
    <2>5. CASE menu \in {"drawn", "key"}
      BY <2>1, <2>2, <2>3, <2>4, <2>5, Zenon DEF CursorShown
    <2>6. CASE ~(menu \in {"drawn", "key"})
      BY <2>2, <2>6, Zenon DEF CursorShown
    <2> QED
      BY <2>5, <2>6, Zenon
  <1> QED
    BY <1>1, <1>2, ViewNext, PTL DEF SelectionSpec

-----------------------------------------------------------------------------
(***************************************************************************)
(* The terminal                                                            *)
(***************************************************************************)

(* While the menu is up, the flag is set and the handlers are installed, or   *)
(* a signal is being handled; and the terminal is only ever left raw where a  *)
(* handler can no longer set it back.                                         *)
TermInv ==
    /\ menu \in {"none", "handlers", "raw", "draw", "drawn", "key", "confirmed", "cancelled", "fallback"}
    /\ signal \in {"none", "restoring", "again"}
    /\ menu \in {"none", "handlers", "fallback"} => ~raw /\ ~active
    /\ menu = "raw" => ~active
    /\ menu \in {"handlers", "raw", "draw", "drawn", "key"} => installed
    /\ (menu \in {"draw", "drawn", "key"} /\ alive /\ signal = "none") => active
    /\ (menu \in {"confirmed", "cancelled"} /\ ~installed) => ~raw /\ ~active
    /\ (~alive /\ raw) => \/ menu = "raw"
                          \/ menu \in {"confirmed", "cancelled"} /\ ~active
                          \/ signal = "again"

LEMMA TermNext == TermInv /\ [SelectionNext]_selvars => TermInv'
  <1> SUFFICES ASSUME TermInv, [SelectionNext]_selvars PROVE TermInv'
    OBVIOUS
  <1>1. CASE Handlers
    BY <1>1 DEF Handlers, Going, TermInv
  <1>2. CASE SetRaw
    BY <1>2 DEF SetRaw, Going, TermInv
  <1>3. CASE EnterFails
    BY <1>3 DEF EnterFails, Going, TermInv
  <1>4. CASE SetActive
    BY <1>4 DEF SetActive, Going, TermInv
  <1>5. CASE Leave
    BY <1>5 DEF Leave, Going, TermInv
  <1>6. CASE SetBack
    BY <1>6 DEF SetBack, Going, TermInv
  <1>7. CASE HandlersBack
    BY <1>7 DEF HandlersBack, Going, TermInv
  <1>8. CASE Signal
    BY <1>8 DEF Signal, TermInv
  <1>9. CASE Restored
    BY <1>9 DEF Restored, TermInv
  <1>10. CASE Finish
    BY <1>10 DEF Finish, Going, TermInv, termvars
  <1>11. CASE Draw \/ Read \/ Resize \/ Down \/ Up \/ Top \/ Bottom \/ Toggle \/ ToggleAll \/ Redraw
    <2>1. menu \in {"draw", "drawn", "key"} /\ menu' \in {"draw", "drawn", "key"} /\ UNCHANGED termvars
      BY <1>11 DEF Draw, Read, Resize, Down, Up, Top, Bottom, Toggle, ToggleAll, Redraw, Key
    <2> QED
      BY <2>1 DEF TermInv, termvars
  <1>12. CASE Type \/ UNCHANGED selvars
    <2>1. UNCHANGED <<menu, termvars>>
      BY <1>12 DEF Type, selvars
    <2> QED
      BY <2>1 DEF TermInv, termvars
  <1> QED
    BY <1>1, <1>2, <1>3, <1>4, <1>5, <1>6, <1>7, <1>8, <1>9, <1>10, <1>11, <1>12 DEF SelectionNext

(* Whenever signals come, and whatever the user does: the terminal is given   *)
(* back but in the three windows that TerminalRestored names.                 *)
THEOREM TerminalGivenBack == SelectionSpec => []TerminalRestored
  <1>1. SelectionInit => TermInv
    BY DEF SelectionInit, TermInv
  <1>2. TermInv => TerminalRestored
    BY DEF TermInv, TerminalRestored
  <1> QED
    BY <1>1, <1>2, TermNext, PTL DEF SelectionSpec

-----------------------------------------------------------------------------
(***************************************************************************)
(* Lists of numbers                                                        *)
(***************************************************************************)

(* The last comma, or 0: the field behind it is still being typed.            *)
LastComma(c) ==
    /\ c \in 0..Len(tokens) /\ (c = 0 \/ tokens[c].kind = "comma")
    /\ \A i \in (c + 1)..Len(tokens) : tokens[i].kind # "comma"

Open(c) == <<c, Len(tokens) + 1>>
Closed == {f \in Fields : f[2] <= Len(tokens)}

(* What a field may consist of: a number, one with a sign, and an interval.   *)
One(f, i) == Marks(f) = {i} /\ tokens[i].kind = "number"

Two(f, i, j) ==
    /\ i < j /\ Marks(f) = {i, j}
    /\ tokens[i].kind = "number" /\ tokens[j].kind = "dash"

Three(f, i, j, m) ==
    /\ i < j /\ j < m /\ Marks(f) = {i, j, m}
    /\ tokens[i].kind = "number" /\ tokens[j].kind = "dash" /\ tokens[m].kind = "number"

(* The field may still become a number in F or an interval in P.              *)
Stem(f, F, P) ==
    \/ Marks(f) = {}
    \/ \E i \in Marks(f) : One(f, i) /\ tokens[i].v \in F
    \/ \E i, j \in Marks(f) : Two(f, i, j) /\ tokens[i].v \in F
    \/ \E i, j, m \in Marks(f) : Three(f, i, j, m) /\ <<tokens[i].v, tokens[m].v>> \in P

Good(f) == Interval(f) # {} /\ Interval(f) \subseteq Items

LEMMA TokenTypes ==
    ASSUME tokens \in Seq(Tokens)
    PROVE  /\ Len(tokens) \in Nat
           /\ \A i \in 1..Len(tokens) : tokens[i] \in Tokens
  OBVIOUS

LEMMA TokenValues == \A t \in Tokens : t.v \in 0..(Count + 1)
  <1>1. Count \in Nat
    BY SelectionAssumption
  <1>2. \A v \in 0..(Count + 1) : Number(v).v = v
    BY DEF Number
  <1>3. \A s : Sign(s).v = 0
    BY DEF Sign
  <1> QED
    <2>1. ASSUME NEW t \in Tokens PROVE t.v \in 0..(Count + 1)
      <3>1. (\E v \in 0..(Count + 1) : t = Number(v)) \/ (\E s : t = Sign(s))
        BY DEF Tokens
      <3>2. 0 \in 0..(Count + 1)
        BY <1>1
      <3> QED
        BY <1>2, <1>3, <3>1, <3>2
    <2> QED
      BY <2>1

LEMMA MarksOf ==
    ASSUME tokens \in Seq(Tokens), NEW a \in 0..Len(tokens), NEW b \in 1..(Len(tokens) + 1)
    PROVE  /\ Marks(<<a, b>>) = {i \in (a + 1)..(b - 1) : tokens[i].kind # "space"}
           /\ \A i \in Marks(<<a, b>>) : i \in 1..Len(tokens) /\ tokens[i] \in Tokens /\ tokens[i].v \in 0..(Count + 1)
  <1>1. Marks(<<a, b>>) = {i \in (a + 1)..(b - 1) : tokens[i].kind # "space"}
    BY DEF Marks
  <1>2. ASSUME NEW i \in Marks(<<a, b>>) PROVE i \in 1..Len(tokens)
    <2>1. Len(tokens) \in Nat
      BY TokenTypes
    <2>2. i \in (a + 1)..(b - 1)
      BY <1>1
    <2>3. a \in Nat /\ b \in Nat /\ b <= Len(tokens) + 1
      BY <2>1
    <2> QED
      BY <2>1, <2>2, <2>3
  <1> QED
    BY <1>1, <1>2, TokenTypes, TokenValues

LEMMA EndsOf ==
    ASSUME NEW f, NEW e
    PROVE  e \in Ends(f) <=>
             /\ e \in Marks(f) \X Marks(f)
             /\ tokens[e[1]].kind = "number" /\ tokens[e[2]].kind = "number"
             /\ \/ e[1] = e[2] /\ Marks(f) = {e[1]}
                \/ \E i \in (e[1] + 1)..(e[2] - 1) : tokens[i].kind = "dash" /\ Marks(f) = {e[1], i, e[2]}
  BY DEF Ends

LEMMA EndsOfOne ==
    ASSUME NEW f, NEW i \in Int, One(f, i)
    PROVE  Ends(f) = {<<i, i>>}
  <1>1. Marks(f) = {i} /\ tokens[i].kind = "number"
    BY DEF One
  <1>2. <<i, i>> \in Ends(f)
    BY <1>1, EndsOf
  <1>3. ASSUME NEW e \in Ends(f) PROVE e = <<i, i>>
    <2>1. e \in {i} \X {i}
      BY <1>1, <1>3, EndsOf
    <2> QED
      BY <2>1
  <1> QED
    BY <1>2, <1>3

LEMMA EndsOfThree ==
    ASSUME NEW f, NEW i \in Int, NEW j \in Int, NEW m \in Int, Three(f, i, j, m)
    PROVE  Ends(f) = {<<i, m>>}
  <1>1. /\ i < j /\ j < m /\ Marks(f) = {i, j, m}
        /\ tokens[i].kind = "number" /\ tokens[j].kind = "dash" /\ tokens[m].kind = "number"
    BY DEF Three
  <1>2. <<i, m>> \in Ends(f)
    <2>1. j \in (i + 1)..(m - 1)
      BY <1>1
    <2>2. <<i, m>> \in Marks(f) \X Marks(f) /\ <<i, m>>[1] = i /\ <<i, m>>[2] = m
      BY <1>1
    <2> QED
      BY <1>1, <2>1, <2>2, EndsOf
  <1>3. ASSUME NEW e \in Ends(f) PROVE e = <<i, m>>
    <2>1. e \in {i, j, m} \X {i, j, m}
      BY <1>1, <1>3, EndsOf
    <2>2. e[1] # e[2] \/ {i, j, m} # {e[1]}
      BY <1>1
    <2>3. PICK x \in (e[1] + 1)..(e[2] - 1) : {i, j, m} = {e[1], x, e[2]}
      BY <1>1, <1>3, <2>2, EndsOf
    <2>4. e[1] \in Int /\ e[2] \in Int /\ e[1] < x /\ x < e[2]
      BY <2>1, <2>3
    <2>5. e[1] = i /\ e[2] = m
      BY <1>1, <2>1, <2>3, <2>4
    <2> QED
      BY <2>1, <2>5
  <1> QED
    BY <1>2, <1>3

(* Every field that means something is a number or an interval of numbers.    *)
LEMMA EndsShape ==
    ASSUME NEW f, Marks(f) \subseteq Int, Ends(f) # {}
    PROVE  \/ \E i \in Marks(f) : One(f, i)
           \/ \E i, j, m \in Marks(f) : Three(f, i, j, m)
  <1>1. PICK e \in Ends(f) : TRUE
    OBVIOUS
  <1>2. /\ e[1] \in Marks(f) /\ e[2] \in Marks(f)
        /\ tokens[e[1]].kind = "number" /\ tokens[e[2]].kind = "number"
        /\ \/ e[1] = e[2] /\ Marks(f) = {e[1]}
           \/ \E i \in (e[1] + 1)..(e[2] - 1) : tokens[i].kind = "dash" /\ Marks(f) = {e[1], i, e[2]}
    BY <1>1, EndsOf
  <1>3. CASE Marks(f) = {e[1]}
    BY <1>2, <1>3 DEF One
  <1>4. CASE \E i \in (e[1] + 1)..(e[2] - 1) : tokens[i].kind = "dash" /\ Marks(f) = {e[1], i, e[2]}
    <2>1. PICK i \in (e[1] + 1)..(e[2] - 1) : tokens[i].kind = "dash" /\ Marks(f) = {e[1], i, e[2]}
      BY <1>4
    <2>2. e[1] \in Int /\ e[2] \in Int
      BY <1>2
    <2>3. e[1] < i /\ i < e[2]
      BY <2>1, <2>2
    <2>4. i \in Marks(f)
      BY <2>1
    <2>5. Three(f, e[1], i, e[2])
      BY <1>2, <2>1, <2>3 DEF Three
    <2> QED
      BY <1>2, <2>4, <2>5
  <1> QED
    BY <1>2, <1>3, <1>4

LEMMA IntervalOf ==
    ASSUME NEW f
    PROVE  /\ Interval(f) = {n \in UNION {tokens[e[1]].v..tokens[e[2]].v : e \in Ends(f)} : TRUE}
           /\ \A i, m : Ends(f) = {<<i, m>>} => Interval(f) = tokens[i].v..tokens[m].v
           /\ Ends(f) = {} => Interval(f) = {}
  <1>1. ASSUME NEW i, NEW m, Ends(f) = {<<i, m>>} PROVE Interval(f) = tokens[i].v..tokens[m].v
    <2>1. {tokens[e[1]].v..tokens[e[2]].v : e \in Ends(f)} = {tokens[i].v..tokens[m].v}
      BY <1>1
    <2> QED
      BY <2>1 DEF Interval
  <1>2. Ends(f) = {} => Interval(f) = {}
    BY DEF Interval
  <1> QED
    BY <1>1, <1>2 DEF Interval

(* The field being typed is the only one that is not closed.                  *)
LEMMA FieldsAre ==
    ASSUME tokens \in Seq(Tokens), NEW c, LastComma(c)
    PROVE  /\ c \in 0..Len(tokens)
           /\ Fields = Closed \cup {Open(c)}
           /\ \A f \in Closed : \E a \in 0..Len(tokens), b \in 1..Len(tokens) : f = <<a, b>>
           /\ Missing(Open(c)) <=> c = Len(tokens)
           /\ \A f \in Closed : ~Missing(f)
  <1>1. Len(tokens) \in Nat /\ DOMAIN tokens = 1..Len(tokens)
    BY TokenTypes
  <1>2. c \in 0..Len(tokens)
    BY DEF LastComma
  <1>3. Commas = {0, Len(tokens) + 1} \cup {i \in 1..Len(tokens) : tokens[i].kind = "comma"}
    BY <1>1 DEF Commas
  <1>4. c \in Commas /\ Commas \subseteq 0..(Len(tokens) + 1)
    BY <1>1, <1>3 DEF LastComma
  <1>5. \A d \in Commas : d <= c \/ d = Len(tokens) + 1
    <2>1. ASSUME NEW d \in Commas, d # Len(tokens) + 1, ~(d <= c) PROVE FALSE
      <3>1. d \in 1..Len(tokens) /\ tokens[d].kind = "comma" /\ d \in (c + 1)..Len(tokens)
        BY <1>1, <1>2, <1>3, <2>1
      <3> QED
        BY <3>1 DEF LastComma
    <2> QED
      BY <2>1
  <1>6. Open(c) \in Fields
    <2>1. Len(tokens) + 1 \in Commas
      BY <1>3
    <2>2. ~\E d \in Commas : c < d /\ d < Len(tokens) + 1
      BY <1>1, <1>2, <1>4, <1>5
    <2> QED
      BY <1>1, <1>2, <1>4, <2>1, <2>2 DEF Fields, Open
  <1>7. ASSUME NEW f \in Fields PROVE f \in Closed \/ f = Open(c)
    <2>1. f \in Commas \X Commas /\ f[1] < f[2] /\ ~\E d \in Commas : f[1] < d /\ d < f[2]
      BY DEF Fields
    <2>2. PICK a \in Commas, b \in Commas : f = <<a, b>>
      BY <2>1
    <2>3. a < b /\ ~(a < c /\ c < b)
      BY <1>4, <2>1, <2>2
    <2>4. CASE b = Len(tokens) + 1
      <3>1. a <= c
        BY <1>1, <1>4, <1>5, <2>3, <2>4
      <3>2. a = c
        BY <1>1, <1>2, <1>4, <2>3, <2>4, <3>1
      <3> QED
        BY <2>2, <2>4, <3>2 DEF Open
    <2>5. CASE b # Len(tokens) + 1
      <3>1. f[2] <= Len(tokens)
        BY <1>1, <1>4, <2>2, <2>5
      <3> QED
        BY <3>1 DEF Closed
    <2> QED
      BY <2>4, <2>5
  <1>8. ASSUME NEW f \in Closed
        PROVE  /\ \E a \in 0..Len(tokens), b \in 1..Len(tokens) : f = <<a, b>>
               /\ ~Missing(f)
    <2>1. f \in Commas \X Commas /\ f[1] < f[2] /\ f[2] <= Len(tokens)
      BY DEF Fields, Closed
    <2>2. PICK a \in Commas, b \in Commas : f = <<a, b>>
      BY <2>1
    <2>3. a \in 0..Len(tokens) /\ b \in 1..Len(tokens)
      BY <1>1, <1>4, <2>1, <2>2
    <2> QED
      BY <1>1, <2>2, <2>3 DEF Missing
  <1>9. Missing(Open(c)) <=> c = Len(tokens)
    BY <1>1, <1>2 DEF Missing, Open
  <1> QED
    BY <1>2, <1>6, <1>7, <1>8, <1>9 DEF Closed

(***************************************************************************)
(* One more token.  The closed fields stay what they are; the one being    *)
(* typed gets longer, or is closed by a comma.                             *)
(***************************************************************************)
LEMMA Appended ==
    ASSUME tokens \in Seq(Tokens), NEW t \in Tokens, tokens' = Append(tokens, t)
    PROVE  /\ tokens' \in Seq(Tokens) /\ Len(tokens') = Len(tokens) + 1
           /\ tokens'[Len(tokens) + 1] = t
           /\ \A i \in 1..Len(tokens) : tokens'[i] = tokens[i]
  OBVIOUS

LEMMA SameField ==
    ASSUME tokens \in Seq(Tokens), NEW t \in Tokens, tokens' = Append(tokens, t),
           NEW a \in 0..Len(tokens), NEW b \in 1..(Len(tokens) + 1)
    PROVE  /\ Marks(<<a, b>>)' = Marks(<<a, b>>)
           /\ \A i \in Marks(<<a, b>>) : tokens'[i] = tokens[i]
           /\ Interval(<<a, b>>)' = Interval(<<a, b>>)
           /\ Good(<<a, b>>)' <=> Good(<<a, b>>)
  <1> DEFINE f == <<a, b>>
  <1>1. Len(tokens) \in Nat /\ Len(tokens') = Len(tokens) + 1 /\ tokens' \in Seq(Tokens)
    BY Appended, TokenTypes
  <1>2. \A i \in (a + 1)..(b - 1) : tokens'[i] = tokens[i]
    <2>1. \A i \in (a + 1)..(b - 1) : i \in 1..Len(tokens)
      BY <1>1
    <2> QED
      BY <2>1, Appended
  <1>3. Marks(f)' = Marks(f)
    BY <1>2 DEF Marks
  <1>4. \A i \in Marks(f) : i \in (a + 1)..(b - 1)
    BY DEF Marks
  <1>5. \A i \in Marks(f) : tokens'[i] = tokens[i]
    BY <1>2, <1>4
  <1>6. ASSUME NEW e \in Marks(f) \X Marks(f), NEW i \in (e[1] + 1)..(e[2] - 1)
        PROVE  i \in (a + 1)..(b - 1)
    <2>1. e[1] \in (a + 1)..(b - 1) /\ e[2] \in (a + 1)..(b - 1)
      BY <1>4
    <2>2. a \in Int /\ b \in Int
      BY <1>1
    <2> QED
      BY <1>6, <2>1, <2>2
  <1>7. Ends(f)' = Ends(f)
    <2>1. ASSUME NEW e PROVE e \in Ends(f)' <=> e \in Ends(f)
      <3>1. e \in Ends(f)' <=>
             /\ e \in Marks(f) \X Marks(f)
             /\ tokens'[e[1]].kind = "number" /\ tokens'[e[2]].kind = "number"
             /\ \/ e[1] = e[2] /\ Marks(f) = {e[1]}
                \/ \E i \in (e[1] + 1)..(e[2] - 1) : tokens'[i].kind = "dash" /\ Marks(f) = {e[1], i, e[2]}
        BY <1>3 DEF Ends
      <3>2. CASE e \notin Marks(f) \X Marks(f)
        BY <3>1, <3>2, EndsOf
      <3>3. CASE e \in Marks(f) \X Marks(f)
        <4>1. tokens'[e[1]] = tokens[e[1]] /\ tokens'[e[2]] = tokens[e[2]]
          BY <1>5, <3>3
        <4>2. \A i \in (e[1] + 1)..(e[2] - 1) : tokens'[i] = tokens[i]
          BY <1>2, <1>6, <3>3
        <4>3. e \in Ends(f) <=>
               /\ e \in Marks(f) \X Marks(f)
               /\ tokens[e[1]].kind = "number" /\ tokens[e[2]].kind = "number"
               /\ \/ e[1] = e[2] /\ Marks(f) = {e[1]}
                  \/ \E i \in (e[1] + 1)..(e[2] - 1) : tokens[i].kind = "dash" /\ Marks(f) = {e[1], i, e[2]}
          BY EndsOf
        <4> QED
          BY <3>1, <4>1, <4>2, <4>3
      <3> QED
        BY <3>2, <3>3
    <2> QED
      BY <2>1
  <1>8. Interval(f)' = Interval(f)
    <2>1. \A e \in Ends(f) : tokens'[e[1]] = tokens[e[1]] /\ tokens'[e[2]] = tokens[e[2]]
      BY <1>5, EndsOf
    <2> QED
      BY <1>7, <2>1 DEF Interval
  <1>9. Good(f)' <=> Good(f)
    BY <1>8 DEF Good, Items
  <1> QED
    BY <1>3, <1>5, <1>8, <1>9

LEMMA Longer ==
    ASSUME tokens \in Seq(Tokens), NEW t \in Tokens, tokens' = Append(tokens, t), t.kind # "comma",
           NEW c, LastComma(c)
    PROVE  /\ LastComma(c)' /\ Closed' = Closed
           /\ Marks(Open(c))' = Marks(Open(c)) \cup (IF t.kind = "space" THEN {} ELSE {Len(tokens) + 1})
           /\ Len(tokens) + 1 \notin Marks(Open(c))
  <1>1. /\ Len(tokens) \in Nat /\ Len(tokens') = Len(tokens) + 1 /\ tokens'[Len(tokens) + 1] = t
        /\ \A i \in 1..Len(tokens) : tokens'[i] = tokens[i]
        /\ tokens' \in Seq(Tokens)
    BY Appended, TokenTypes
  <1>2. c \in 0..Len(tokens) /\ c \in Nat
    BY <1>1 DEF LastComma
  <1>3. LastComma(c)'
    <2>1. c \in 0..Len(tokens') /\ (c = 0 \/ tokens'[c].kind = "comma")
      BY <1>1, <1>2 DEF LastComma
    <2>2. ASSUME NEW i \in (c + 1)..Len(tokens') PROVE tokens'[i].kind # "comma"
      <3>1. CASE i = Len(tokens) + 1
        BY <1>1, <3>1
      <3>2. CASE i # Len(tokens) + 1
        <4>1. i \in (c + 1)..Len(tokens) /\ i \in 1..Len(tokens)
          BY <1>1, <1>2, <3>2
        <4> QED
          BY <1>1, <4>1 DEF LastComma
      <3> QED
        BY <3>1, <3>2
    <2> QED
      BY <2>1, <2>2 DEF LastComma
  <1>4. DOMAIN tokens' = 1..(Len(tokens) + 1) /\ DOMAIN tokens = 1..Len(tokens)
    BY <1>1
  <1>5. Commas' = (Commas \ {Len(tokens) + 1}) \cup {Len(tokens) + 2}
    <2>1. Commas' = {0, Len(tokens) + 2} \cup {i \in 1..(Len(tokens) + 1) : tokens'[i].kind = "comma"}
      BY <1>1, <1>4 DEF Commas
    <2>2. {i \in 1..(Len(tokens) + 1) : tokens'[i].kind = "comma"} = {i \in 1..Len(tokens) : tokens[i].kind = "comma"}
      <3>1. \A i \in 1..(Len(tokens) + 1) : i \in 1..Len(tokens) \/ i = Len(tokens) + 1
        BY <1>1
      <3>2. \A i \in 1..Len(tokens) : i \in 1..(Len(tokens) + 1)
        BY <1>1
      <3> QED
        BY <1>1, <3>1, <3>2
    <2>3. Commas = {0, Len(tokens) + 1} \cup {i \in 1..Len(tokens) : tokens[i].kind = "comma"}
      BY <1>4 DEF Commas
    <2>4. Len(tokens) + 1 \notin 1..Len(tokens) /\ Len(tokens) + 1 # 0
      BY <1>1
    <2> QED
      BY <2>1, <2>2, <2>3, <2>4
  <1>6. Commas \subseteq 0..(Len(tokens) + 1)
    BY <1>1, <1>4 DEF Commas
  <1>7. Closed' = Closed
    <2>1. ASSUME NEW f PROVE f \in Closed' <=> f \in Closed
      <3>1. f \in Closed' <=> /\ f \in Commas' \X Commas' /\ f[1] < f[2] /\ f[2] <= Len(tokens) + 1
                              /\ ~\E d \in Commas' : f[1] < d /\ d < f[2]
        BY <1>1 DEF Closed, Fields
      <3>2. f \in Closed <=> /\ f \in Commas \X Commas /\ f[1] < f[2] /\ f[2] <= Len(tokens)
                             /\ ~\E d \in Commas : f[1] < d /\ d < f[2]
        BY DEF Closed, Fields
      <3>3. \A d \in Commas' : d \in 0..Len(tokens) \/ d = Len(tokens) + 2
        BY <1>1, <1>5, <1>6
      <3>4. \A d \in 0..Len(tokens) : d \in Commas' <=> d \in Commas
        BY <1>1, <1>5
      <3>5. f \in Closed' => f \in Closed
        <4>1. SUFFICES ASSUME f \in Closed' PROVE f \in Closed
          OBVIOUS
        <4>2. f[1] \in 0..Len(tokens) /\ f[2] \in 0..Len(tokens) /\ f = <<f[1], f[2]>>
          BY <1>1, <3>1, <3>3, <4>1
        <4>3. f \in Commas \X Commas
          BY <3>1, <3>4, <4>1, <4>2
        <4>4. ASSUME NEW d \in Commas, f[1] < d, d < f[2] PROVE FALSE
          <5>1. d \in 0..Len(tokens)
            BY <1>1, <1>6, <4>2, <4>4
          <5> QED
            BY <3>1, <3>4, <4>1, <4>4, <5>1
        <4> QED
          BY <1>1, <3>1, <3>2, <4>1, <4>2, <4>3, <4>4
      <3>6. f \in Closed => f \in Closed'
        <4>1. SUFFICES ASSUME f \in Closed PROVE f \in Closed'
          OBVIOUS
        <4>2. f[1] \in 0..Len(tokens) /\ f[2] \in 0..Len(tokens) /\ f = <<f[1], f[2]>>
          BY <1>1, <1>6, <3>2, <4>1
        <4>3. f \in Commas' \X Commas'
          BY <3>2, <3>4, <4>1, <4>2
        <4>4. ASSUME NEW d \in Commas', f[1] < d, d < f[2] PROVE FALSE
          <5>1. d \in 0..Len(tokens)
            BY <1>1, <3>3, <4>2, <4>4
          <5> QED
            BY <3>2, <3>4, <4>1, <4>4, <5>1
        <4> QED
          BY <1>1, <3>1, <3>2, <4>1, <4>2, <4>3, <4>4
      <3> QED
        BY <3>5, <3>6
    <2> QED
      BY <2>1
  <1>8. /\ Marks(Open(c)) = {i \in (c + 1)..Len(tokens) : tokens[i].kind # "space"}
        /\ Marks(Open(c))' = {i \in (c + 1)..(Len(tokens) + 1) : tokens'[i].kind # "space"}
    <2>1. (Len(tokens) + 1) - 1 = Len(tokens) /\ (Len(tokens') + 1) - 1 = Len(tokens) + 1
      BY <1>1
    <2>2. Marks(Open(c)) = {i \in (c + 1)..((Len(tokens) + 1) - 1) : tokens[i].kind # "space"}
      BY DEF Marks, Open
    <2>3. Marks(Open(c))' = {i \in (c + 1)..((Len(tokens') + 1) - 1) : tokens'[i].kind # "space"}
      BY DEF Marks, Open
    <2> QED
      BY <2>1, <2>2, <2>3
  <1>9. \A i : i \in (c + 1)..(Len(tokens) + 1) <=> i \in (c + 1)..Len(tokens) \/ i = Len(tokens) + 1
    BY <1>1, <1>2
  <1>10. \A i \in (c + 1)..Len(tokens) : tokens'[i] = tokens[i]
    BY <1>1, <1>2
  <1>11. Len(tokens) + 1 \notin (c + 1)..Len(tokens)
    BY <1>1, <1>2
  <1> QED
    BY <1>1, <1>3, <1>7, <1>8, <1>9, <1>10, <1>11

LEMMA AfterComma ==
    ASSUME tokens \in Seq(Tokens), NEW t \in Tokens, tokens' = Append(tokens, t), t.kind = "comma",
           NEW n, n = Len(tokens) + 1
    PROVE  /\ LastComma(n)' /\ Closed' = Fields
           /\ Marks(Open(n))' = {}
  <1>1. /\ Len(tokens) \in Nat /\ Len(tokens') = Len(tokens) + 1 /\ tokens'[Len(tokens) + 1] = t
        /\ \A i \in 1..Len(tokens) : tokens'[i] = tokens[i]
        /\ tokens' \in Seq(Tokens)
    BY Appended, TokenTypes
  <1>2. LastComma(n)'
    <2>1. Len(tokens) + 1 \in 0..Len(tokens') /\ tokens'[Len(tokens) + 1].kind = "comma"
      BY <1>1
    <2>2. \A i \in (Len(tokens) + 2)..Len(tokens') : FALSE
      BY <1>1
    <2> QED
      BY <1>1, <2>1, <2>2 DEF LastComma
  <1>3. DOMAIN tokens' = 1..(Len(tokens) + 1) /\ DOMAIN tokens = 1..Len(tokens)
    BY <1>1
  <1>4. Commas' = Commas \cup {Len(tokens) + 2}
    <2>1. Commas' = {0, Len(tokens) + 2} \cup {i \in 1..(Len(tokens) + 1) : tokens'[i].kind = "comma"}
      BY <1>1, <1>3 DEF Commas
    <2>2. {i \in 1..(Len(tokens) + 1) : tokens'[i].kind = "comma"}
            = {i \in 1..Len(tokens) : tokens[i].kind = "comma"} \cup {Len(tokens) + 1}
      <3>1. \A i \in 1..(Len(tokens) + 1) : i \in 1..Len(tokens) \/ i = Len(tokens) + 1
        BY <1>1
      <3>2. \A i \in 1..Len(tokens) : i \in 1..(Len(tokens) + 1)
        BY <1>1
      <3>3. Len(tokens) + 1 \in 1..(Len(tokens) + 1)
        BY <1>1
      <3> QED
        BY <1>1, <3>1, <3>2, <3>3
    <2>3. Commas = {0, Len(tokens) + 1} \cup {i \in 1..Len(tokens) : tokens[i].kind = "comma"}
      BY <1>3 DEF Commas
    <2> QED
      BY <2>1, <2>2, <2>3
  <1>5. Commas \subseteq 0..(Len(tokens) + 1)
    BY <1>1, <1>3 DEF Commas
  <1>6. Closed' = Fields
    <2>1. ASSUME NEW f PROVE f \in Closed' <=> f \in Fields
      <3>1. f \in Closed' <=> /\ f \in Commas' \X Commas' /\ f[1] < f[2] /\ f[2] <= Len(tokens) + 1
                              /\ ~\E d \in Commas' : f[1] < d /\ d < f[2]
        BY <1>1 DEF Closed, Fields
      <3>2. f \in Fields <=> /\ f \in Commas \X Commas /\ f[1] < f[2]
                             /\ ~\E d \in Commas : f[1] < d /\ d < f[2]
        BY DEF Fields
      <3>3. f \in Closed' => f \in Fields
        <4>1. SUFFICES ASSUME f \in Closed' PROVE f \in Fields
          OBVIOUS
        <4>2. PICK a \in Commas', b \in Commas' : f = <<a, b>>
          BY <3>1, <4>1
        <4>3. a < b /\ b <= Len(tokens) + 1
          BY <3>1, <4>1, <4>2
        <4>4. a \in Commas /\ b \in Commas
          BY <1>1, <1>4, <1>5, <4>2, <4>3
        <4> QED
          BY <1>4, <3>1, <3>2, <4>1, <4>2, <4>4
      <3>4. f \in Fields => f \in Closed'
        <4>1. SUFFICES ASSUME f \in Fields PROVE f \in Closed'
          OBVIOUS
        <4>2. PICK a \in Commas, b \in Commas : f = <<a, b>>
          BY <3>2, <4>1
        <4>3. a \in 0..(Len(tokens) + 1) /\ b \in 0..(Len(tokens) + 1) /\ a < b
          BY <1>5, <3>2, <4>1, <4>2
        <4>4. \A d \in Commas' : d \in Commas \/ ~(d < b)
          BY <1>1, <1>4, <4>3
        <4> QED
          BY <1>1, <1>4, <3>1, <3>2, <4>1, <4>2, <4>3, <4>4
      <3> QED
        BY <3>3, <3>4
    <2> QED
      BY <2>1
  <1>7. Marks(Open(n))' = {}
    <2>1. Marks(Open(n))' = {i \in (Len(tokens) + 2)..(Len(tokens) + 1) : tokens'[i].kind # "space"}
      BY <1>1 DEF Marks, Open
    <2> QED
      BY <1>1, <2>1
  <1> QED
    BY <1>2, <1>6, <1>7

(***************************************************************************)
(* A reader accepts a first number in F and an interval in P.  Its place   *)
(* tells what there is of the field that is being typed; once it has given *)
(* up, there is a closed field that means nothing, or the open one cannot  *)
(* come to mean anything.                                                  *)
(***************************************************************************)
Pairs == {p \in Items \X Items : p[1] <= p[2]}

Accepts(F, P) ==
    /\ Items \subseteq F
    /\ Pairs \subseteq P /\ \A p \in P : p = <<p[1], p[2]>> /\ p[1] \in F

Ruined(c, F, P) == (\E f \in Closed : ~Good(f)) \/ ~Stem(Open(c), F, P)

Reading(r, c, F, P) ==
    /\ r.place \in {"start", "first", "from", "second", "range", "bad"}
    /\ r.place = "start" => c = Len(tokens)
    /\ r.place \in {"start", "first"} => Marks(Open(c)) = {}
    /\ r.place = "first" => c # Len(tokens)
    /\ r.place = "from" => \E i \in Marks(Open(c)) : One(Open(c), i) /\ tokens[i].v = r.from /\ r.from \in F
    /\ r.place = "second" =>
         \E i, j \in Marks(Open(c)) : Two(Open(c), i, j) /\ tokens[i].v = r.from /\ r.from \in F
    /\ r.place = "range" =>
         \E i, j, m \in Marks(Open(c)) :
            Three(Open(c), i, j, m) /\ tokens[i].v = r.from /\ <<tokens[i].v, tokens[m].v>> \in P
    /\ IF r.place = "bad" THEN Ruined(c, F, P) ELSE \A f \in Closed : Good(f)

LEMMA GoodStem ==
    ASSUME NEW f, Marks(f) \subseteq Int, \A i \in Marks(f) : tokens[i].v \in Int, Good(f),
           NEW F, NEW P, Accepts(F, P)
    PROVE  Stem(f, F, P)
  <1>1. Ends(f) # {}
    BY IntervalOf DEF Good
  <1>2. CASE \E i \in Marks(f) : One(f, i)
    <2>1. PICK i \in Marks(f) : One(f, i)
      BY <1>2
    <2>2. Interval(f) = tokens[i].v..tokens[i].v
      BY <2>1, EndsOfOne, IntervalOf
    <2>3. tokens[i].v \in Items
      BY <2>2 DEF Good
    <2> QED
      BY <2>1, <2>3 DEF Stem, Accepts
  <1>3. CASE \E i, j, m \in Marks(f) : Three(f, i, j, m)
    <2>1. PICK i \in Marks(f), j \in Marks(f), m \in Marks(f) : Three(f, i, j, m)
      BY <1>3
    <2>2. Interval(f) = tokens[i].v..tokens[m].v
      BY <2>1, EndsOfThree, IntervalOf
    <2>3. tokens[i].v \in Items /\ tokens[m].v \in Items /\ tokens[i].v <= tokens[m].v
      BY <2>2 DEF Good
    <2>4. <<tokens[i].v, tokens[m].v>> \in Pairs
      BY <2>3 DEF Pairs
    <2> QED
      BY <2>1, <2>4 DEF Stem, Accepts
  <1> QED
    BY <1>1, <1>2, <1>3, EndsShape

LEMMA OpenMarks ==
    ASSUME tokens \in Seq(Tokens), NEW c, LastComma(c)
    PROVE  /\ Marks(Open(c)) \subseteq 1..Len(tokens)
           /\ Len(tokens) \in Nat
           /\ \A i \in Marks(Open(c)) : i \in Int /\ tokens[i] \in Tokens /\ tokens[i].v \in 0..(Count + 1) /\ tokens[i].v \in Int
  <1>1. Len(tokens) \in Nat /\ Count \in Nat
    BY TokenTypes, SelectionAssumption
  <1>2. c \in 0..Len(tokens) /\ Len(tokens) + 1 \in 1..(Len(tokens) + 1)
    BY <1>1 DEF LastComma
  <1>3. \A i \in Marks(Open(c)) : i \in 1..Len(tokens) /\ tokens[i] \in Tokens /\ tokens[i].v \in 0..(Count + 1)
    BY <1>2, MarksOf DEF Open
  <1> QED
    BY <1>1, <1>3

(* What the field was the beginning of, it is still: a longer field that may  *)
(* become something was already one before.                                   *)
LEMMA StemShrinks ==
    ASSUME tokens \in Seq(Tokens), NEW t \in Tokens, tokens' = Append(tokens, t), t.kind # "comma",
           NEW c, LastComma(c), NEW F, NEW P, Accepts(F, P), Stem(Open(c), F, P)'
    PROVE  Stem(Open(c), F, P)
  <1> DEFINE f == Open(c)
             n == Len(tokens) + 1
             g == <<c, Len(tokens) + 2>>
  <1>1. /\ Marks(f) \subseteq 1..Len(tokens) /\ Len(tokens) \in Nat
        /\ \A i \in Marks(f) : i \in Int
    BY OpenMarks
  <1>2. /\ Marks(f)' = Marks(f) \cup (IF t.kind = "space" THEN {} ELSE {n})
        /\ n \notin Marks(f)
    BY Longer
  <1>3. \A i \in Marks(f) : tokens'[i] = tokens[i] /\ i < n
    BY <1>1, Appended
  <1>4. CASE Marks(f)' = {}
    BY <1>2, <1>4 DEF Stem
  <1>5. ASSUME NEW i \in Marks(f)', One(f, i)', tokens'[i].v \in F
        PROVE  Stem(f, F, P)
    <2>1. Marks(f)' = {i} /\ tokens'[i].kind = "number"
      BY <1>5 DEF One
    <2>2. CASE i \in Marks(f)
      BY <1>2, <1>3, <1>5, <2>1, <2>2 DEF Stem, One
    <2>3. CASE i \notin Marks(f)
      BY <1>2, <2>1, <2>3 DEF Stem
    <2> QED
      BY <2>2, <2>3
  <1>6. ASSUME NEW i \in Marks(f)', NEW j \in Marks(f)', Two(f, i, j)', tokens'[i].v \in F
        PROVE  Stem(f, F, P)
    <2>1. i < j /\ Marks(f)' = {i, j} /\ tokens'[i].kind = "number" /\ tokens'[j].kind = "dash"
      BY <1>6 DEF Two
    <2>2. i \in Marks(f) \/ i = n
      BY <1>2
    <2>3. j \in Marks(f) \/ j = n
      BY <1>2
    <2>4. i \in Marks(f)
      BY <1>1, <1>3, <2>1, <2>2, <2>3
    <2>5. CASE j \in Marks(f)
      <3>1. Marks(f) = {i, j}
        BY <1>2, <2>1, <2>4, <2>5
      <3> QED
        BY <1>3, <1>6, <2>1, <2>4, <2>5, <3>1 DEF Stem, Two
    <2>6. CASE j \notin Marks(f)
      <3>1. Marks(f) = {i}
        BY <1>2, <2>1, <2>3, <2>4, <2>6
      <3> QED
        BY <1>3, <1>6, <2>1, <2>4, <3>1 DEF Stem, One
    <2> QED
      BY <2>5, <2>6
  <1>7. ASSUME NEW i \in Marks(f)', NEW j \in Marks(f)', NEW m \in Marks(f)', Three(f, i, j, m)',
               <<tokens'[i].v, tokens'[m].v>> \in P
        PROVE  Stem(f, F, P)
    <2>1. /\ i < j /\ j < m /\ Marks(f)' = {i, j, m}
          /\ tokens'[i].kind = "number" /\ tokens'[j].kind = "dash" /\ tokens'[m].kind = "number"
      BY <1>7 DEF Three
    <2>2. \A x \in {i, j, m} : x \in Marks(f) \/ x = n
      BY <1>2
    <2>3. n \in Int /\ \A x \in {i, j, m} : x \in Int /\ x <= n
      BY <1>1, <1>3, <2>2
    <2>4. i \in Marks(f) /\ j \in Marks(f)
      BY <2>1, <2>2, <2>3
    <2>5. CASE m \in Marks(f)
      <3>1. Marks(f) = {i, j, m}
        BY <1>2, <2>1, <2>4, <2>5
      <3> QED
        <4>1. Three(f, i, j, m)
          BY <1>3, <2>1, <2>4, <2>5, <3>1 DEF Three
        <4>2. <<tokens[i].v, tokens[m].v>> \in P
          BY <1>3, <1>7, <2>4, <2>5
        <4> QED
          BY <2>4, <2>5, <4>1, <4>2 DEF Stem
    <2>6. CASE m \notin Marks(f)
      <3>1. Marks(f) = {i, j}
        BY <1>2, <2>1, <2>2, <2>4, <2>6
      <3>2. tokens'[i].v \in F
        BY <1>7 DEF Accepts
      <3> QED
        BY <1>3, <2>1, <2>4, <3>1, <3>2 DEF Stem, Two
    <2> QED
      BY <2>5, <2>6
  <1> QED
    BY <1>4, <1>5, <1>6, <1>7 DEF Stem

(* A reader that has given up has good reasons, whatever comes.               *)
LEMMA LostStays ==
    ASSUME tokens \in Seq(Tokens), NEW t \in Tokens, tokens' = Append(tokens, t),
           NEW c, LastComma(c), NEW F, NEW P, Accepts(F, P), Ruined(c, F, P)
    PROVE  /\ t.kind # "comma" => Ruined(c, F, P)'
           /\ t.kind = "comma" => \E f \in Closed' : ~(Good(f)')
  <1>1. /\ c \in 0..Len(tokens)
        /\ Fields = Closed \cup {Open(c)}
        /\ \A f \in Closed : \E a \in 0..Len(tokens), b \in 1..Len(tokens) : f = <<a, b>>
    BY FieldsAre
  <1>2. Len(tokens) \in Nat
    BY TokenTypes
  <1>3. \A f \in Closed : Good(f)' <=> Good(f)
    <2>1. ASSUME NEW a \in 0..Len(tokens), NEW b \in 1..Len(tokens) PROVE Good(<<a, b>>)' <=> Good(<<a, b>>)
      <3>1. b \in 1..(Len(tokens) + 1)
        BY <1>2
      <3> QED
        BY <3>1, SameField
    <2> QED
      BY <1>1, <2>1
  <1>4. t.kind # "comma" => Ruined(c, F, P)'
    <2>1. SUFFICES ASSUME t.kind # "comma" PROVE Ruined(c, F, P)'
      OBVIOUS
    <2>2. Closed' = Closed
      BY <2>1, Longer
    <2>3. CASE \E f \in Closed : ~Good(f)
      BY <1>3, <2>2, <2>3 DEF Ruined
    <2>4. CASE ~Stem(Open(c), F, P)
      BY <2>1, <2>4, StemShrinks DEF Ruined
    <2> QED
      BY <2>3, <2>4 DEF Ruined
  <1>5. t.kind = "comma" => \E f \in Closed' : ~(Good(f)')
    <2>1. SUFFICES ASSUME t.kind = "comma" PROVE \E f \in Closed' : ~(Good(f)')
      OBVIOUS
    <2> PICK n : n = Len(tokens) + 1
      OBVIOUS
    <2> DEFINE f == <<c, n>>
    <2>2. Closed' = Closed \cup {f}
      BY <1>1, <2>1, AfterComma DEF Open
    <2>3. CASE \E h \in Closed : ~Good(h)
      BY <1>3, <2>2, <2>3
    <2>4. CASE ~Stem(Open(c), F, P)
      <3>1. ~Good(Open(c))
        BY <2>4, GoodStem, OpenMarks
      <3>2. n \in 1..(Len(tokens) + 1)
        BY <1>2
      <3>3. Good(f)' <=> Good(f)
        BY <1>1, <3>2, SameField
      <3> QED
        BY <2>2, <3>1, <3>3 DEF Open
    <2> QED
      BY <2>3, <2>4 DEF Ruined
  <1> QED
    BY <1>4, <1>5

(* What a field means, by what it consists of.                                *)
IntervalFacts ==
    \A f : \A i, j, m \in Int :
        /\ Marks(f) = {} => Interval(f) = {}
        /\ One(f, i) => Interval(f) = tokens[i].v..tokens[i].v
        /\ Two(f, i, j) => Interval(f) = {}
        /\ Three(f, i, j, m) => Interval(f) = tokens[i].v..tokens[m].v

LEMMA IntervalsAre == IntervalFacts
  <1> SUFFICES ASSUME NEW f, NEW i \in Int, NEW j \in Int, NEW m \in Int
               PROVE  /\ Marks(f) = {} => Interval(f) = {}
                      /\ One(f, i) => Interval(f) = tokens[i].v..tokens[i].v
                      /\ Two(f, i, j) => Interval(f) = {}
                      /\ Three(f, i, j, m) => Interval(f) = tokens[i].v..tokens[m].v
    BY DEF IntervalFacts
  <1>1. Marks(f) = {} => Interval(f) = {}
    <2>1. Marks(f) = {} => Ends(f) = {}
      BY EndsOf
    <2> QED
      BY <2>1, IntervalOf
  <1>2. One(f, i) => Interval(f) = tokens[i].v..tokens[i].v
    BY EndsOfOne, IntervalOf
  <1>3. Two(f, i, j) => Interval(f) = {}
    <2>1. SUFFICES ASSUME Two(f, i, j) PROVE Interval(f) = {}
      OBVIOUS
    <2>2. i < j /\ Marks(f) = {i, j} /\ tokens[j].kind = "dash"
      BY <2>1 DEF Two
    <2>3. CASE \E x \in Marks(f) : One(f, x)
      BY <2>2, <2>3 DEF One
    <2>4. CASE \E x, y, z \in Marks(f) : Three(f, x, y, z)
      <3>1. PICK x \in {i, j}, y \in {i, j}, z \in {i, j} : Three(f, x, y, z)
        BY <2>2, <2>4
      <3>2. x < y /\ y < z
        BY <3>1 DEF Three
      <3> QED
        BY <2>2, <3>2
    <2>5. CASE Ends(f) = {}
      BY <2>5, IntervalOf
    <2> QED
      BY <2>2, <2>3, <2>4, <2>5, EndsShape
  <1>4. Three(f, i, j, m) => Interval(f) = tokens[i].v..tokens[m].v
    BY EndsOfThree, IntervalOf
  <1> QED
    BY <1>1, <1>2, <1>3, <1>4

LEMMA NextIntervals == IntervalFacts'
  BY IntervalsAre, PTL

(* Three places are not two, four are not three.                              *)
LEMMA ThreePlaces ==
    ASSUME NEW D, NEW i \in D, NEW j \in D, NEW m \in D,
           i \in Int, j \in Int, m \in Int, i < j, j < m, NEW x, NEW y
    PROVE  D # {x, y}
  <1>1. i # j /\ j # m /\ i # m
    OBVIOUS
  <1>2. ASSUME D = {x, y} PROVE FALSE
    <2>1. i \in {x, y} /\ j \in {x, y} /\ m \in {x, y}
      BY <1>2
    <2> QED
      BY <1>1, <2>1
  <1> QED
    BY <1>2

Few(D) ==
    \/ D = {}
    \/ \E x : D = {x}
    \/ \E x, y : D = {x, y}
    \/ \E x, y, z : D = {x, y, z}

LEMMA FourPlaces ==
    ASSUME NEW D, NEW i \in D, NEW j \in D, NEW m \in D, NEW n \in D,
           i \in Int, j \in Int, m \in Int, n \in Int, i < j, j < m, m < n
    PROVE  ~Few(D)
  <1>1. i # j /\ j # m /\ i # m /\ i # n /\ j # n /\ m # n
    OBVIOUS
  <1>2. ASSUME NEW x, NEW y, NEW z, D = {x, y, z} PROVE FALSE
    <2>1. i \in {x, y, z} /\ j \in {x, y, z} /\ m \in {x, y, z} /\ n \in {x, y, z}
      BY <1>2
    <2> QED
      BY <1>1, <2>1
  <1>3. ASSUME NEW x, NEW y, D = {x, y} PROVE FALSE
    <2>1. {x, y} = {x, y, y}
      OBVIOUS
    <2> QED
      BY <1>2, <1>3, <2>1
  <1>4. ASSUME NEW x, D = {x} PROVE FALSE
    <2>1. {x} = {x, x, x}
      OBVIOUS
    <2> QED
      BY <1>2, <1>4, <2>1
  <1> QED
    BY <1>2, <1>3, <1>4 DEF Few

(* How both readers move on, but for what they select.                        *)
Moves(r, s, t, F, P) ==
    /\ r.place \in {"start", "first"} =>
         IF t.kind = "space" THEN s.place = "first"
         ELSE IF t.kind = "number" /\ t.v \in F THEN s.place = "from" /\ s.from = t.v
         ELSE s.place = "bad"
    /\ r.place = "from" =>
         IF t.kind = "space" THEN s.place = "from" /\ s.from = r.from
         ELSE IF t.kind = "dash" THEN s.place = "second" /\ s.from = r.from
         ELSE s.place = "bad"
    /\ r.place = "second" =>
         IF t.kind = "space" THEN s.place = "second" /\ s.from = r.from
         ELSE IF t.kind = "number" /\ <<r.from, t.v>> \in P THEN s.place = "range" /\ s.from = r.from
         ELSE s.place = "bad"
    /\ r.place = "range" =>
         IF t.kind = "space" THEN s.place = "range" /\ s.from = r.from ELSE s.place = "bad"
    /\ r.place = "bad" => s.place = "bad"

LEMMA ReadingMoves ==
    ASSUME tokens \in Seq(Tokens), NEW t \in Tokens, tokens' = Append(tokens, t), t.kind # "comma",
           NEW c, LastComma(c), NEW F, NEW P, Accepts(F, P),
           NEW r, NEW s, Reading(r, c, F, P), Moves(r, s, t, F, P)
    PROVE  Reading(s, c, F, P)'
  <1> PICK n : n = Len(tokens) + 1
    OBVIOUS
  <1> DEFINE f == Open(c)
  <1>1. /\ Marks(f) \subseteq 1..Len(tokens) /\ Len(tokens) \in Nat
        /\ \A i \in Marks(f) : i \in Int
    BY OpenMarks
  <1>2. /\ Marks(f)' = Marks(f) \cup (IF t.kind = "space" THEN {} ELSE {n})
        /\ n \notin Marks(f) /\ Closed' = Closed
    BY Longer
  <1>3. /\ \A i \in Marks(f) : tokens'[i] = tokens[i] /\ i < n
        /\ n \in Int /\ tokens'[n] = t /\ Len(tokens') = n
    BY <1>1, Appended
  <1>4. \A h \in Closed : Good(h)' <=> Good(h)
    <2>1. /\ \A h \in Closed : \E a \in 0..Len(tokens), b \in 1..Len(tokens) : h = <<a, b>>
      BY FieldsAre
    <2>2. ASSUME NEW a \in 0..Len(tokens), NEW b \in 1..Len(tokens) PROVE Good(<<a, b>>)' <=> Good(<<a, b>>)
      <3>1. b \in 1..(Len(tokens) + 1)
        BY <1>1
      <3> QED
        BY <3>1, SameField
    <2> QED
      BY <2>1, <2>2
  <1>5. c \in 0..Len(tokens) /\ c # n
    BY <1>1 DEF LastComma
  <1>6. r.place # "bad" => \A h \in Closed' : Good(h)'
    BY <1>2, <1>4 DEF Reading
  <1>7. CASE r.place = "bad"
    <2>1. Ruined(c, F, P)'
      BY <1>7, LostStays DEF Reading
    <2>2. s.place = "bad"
      BY <1>7 DEF Moves
    <2> QED
      BY <2>1, <2>2 DEF Reading
  <1>8. CASE r.place \in {"start", "first"}
    <2>1. Marks(f) = {}
      BY <1>8 DEF Reading
    <2>2. CASE t.kind = "space"
      <3>1. s.place = "first" /\ Marks(f)' = {}
        BY <1>2, <1>8, <2>1, <2>2 DEF Moves
      <3> QED
        BY <1>3, <1>5, <1>6, <1>8, <3>1 DEF Reading
    <2>3. CASE t.kind = "number" /\ t.v \in F
      <3>1. s.place = "from" /\ s.from = t.v /\ Marks(f)' = {n}
        BY <1>2, <1>8, <2>1, <2>3 DEF Moves
      <3>2. One(f, n)' /\ tokens'[n].v = s.from /\ s.from \in F
        BY <1>3, <2>3, <3>1 DEF One
      <3> QED
        BY <1>6, <1>8, <3>1, <3>2 DEF Reading
    <2>4. CASE t.kind # "space" /\ ~(t.kind = "number" /\ t.v \in F)
      <3>1. s.place = "bad" /\ Marks(f)' = {n}
        BY <1>2, <1>8, <2>1, <2>4 DEF Moves
      <3>2. ~Stem(f, F, P)'
        BY <1>3, <2>4, <3>1 DEF Stem, One, Two, Three
      <3> QED
        BY <3>1, <3>2 DEF Reading, Ruined
    <2> QED
      BY <2>2, <2>3, <2>4
  <1>9. CASE r.place = "from"
    <2>1. PICK i \in Marks(f) : One(f, i) /\ tokens[i].v = r.from /\ r.from \in F
      BY <1>9 DEF Reading
    <2>2. Marks(f) = {i} /\ tokens[i].kind = "number" /\ i < n /\ i # n /\ tokens'[i] = tokens[i]
      BY <1>1, <1>3, <2>1 DEF One
    <2>3. CASE t.kind = "space"
      <3>1. s.place = "from" /\ s.from = r.from /\ Marks(f)' = {i}
        BY <1>2, <1>9, <2>2, <2>3 DEF Moves
      <3>2. One(f, i)' /\ tokens'[i].v = s.from
        BY <2>1, <2>2, <3>1 DEF One
      <3> QED
        BY <1>6, <1>9, <2>1, <3>1, <3>2 DEF Reading
    <2>4. CASE t.kind = "dash"
      <3>1. s.place = "second" /\ s.from = r.from /\ Marks(f)' = {i, n}
        BY <1>2, <1>9, <2>2, <2>4 DEF Moves
      <3>2. Two(f, i, n)' /\ tokens'[i].v = s.from
        BY <1>3, <2>1, <2>2, <2>4, <3>1 DEF Two
      <3> QED
        BY <1>6, <1>9, <2>1, <3>1, <3>2 DEF Reading
    <2>5. CASE t.kind # "space" /\ t.kind # "dash"
      <3>1. s.place = "bad" /\ Marks(f)' = {i, n}
        BY <1>2, <1>9, <2>2, <2>5 DEF Moves
      <3>2. ~Stem(f, F, P)'
        <4>1. ASSUME NEW x \in {i, n}, NEW y \in {i, n}, Two(f, x, y)' PROVE FALSE
          <5>1. x < y /\ tokens'[y].kind = "dash"
            BY <4>1 DEF Two
          <5> QED
            BY <1>1, <1>3, <2>2, <2>5, <5>1
        <4>2. ASSUME NEW x \in {i, n}, NEW y \in {i, n}, NEW z \in {i, n}, Three(f, x, y, z)' PROVE FALSE
          BY <1>1, <1>3, <4>2 DEF Three
        <4>3. ASSUME NEW x \in {i, n}, One(f, x)' PROVE FALSE
          BY <2>2, <3>1, <4>3 DEF One
        <4> QED
          BY <3>1, <4>1, <4>2, <4>3 DEF Stem
      <3> QED
        BY <3>1, <3>2 DEF Reading, Ruined
    <2> QED
      BY <2>3, <2>4, <2>5
  <1>10. CASE r.place = "second"
    <2>1. PICK i \in Marks(f), j \in Marks(f) : Two(f, i, j) /\ tokens[i].v = r.from /\ r.from \in F
      BY <1>10 DEF Reading
    <2>2. /\ Marks(f) = {i, j} /\ tokens[i].kind = "number" /\ tokens[j].kind = "dash"
          /\ i < j /\ j < n /\ i \in Int /\ j \in Int /\ tokens'[i] = tokens[i] /\ tokens'[j] = tokens[j]
      BY <1>1, <1>3, <2>1 DEF Two
    <2>3. CASE t.kind = "space"
      <3>1. s.place = "second" /\ s.from = r.from /\ Marks(f)' = {i, j}
        BY <1>2, <1>10, <2>2, <2>3 DEF Moves
      <3>2. Two(f, i, j)' /\ tokens'[i].v = s.from
        BY <2>1, <2>2, <3>1 DEF Two
      <3> QED
        BY <1>6, <1>10, <2>1, <3>1, <3>2 DEF Reading
    <2>4. CASE t.kind = "number" /\ <<r.from, t.v>> \in P
      <3>1. s.place = "range" /\ s.from = r.from /\ Marks(f)' = {i, j, n}
        BY <1>2, <1>10, <2>2, <2>4 DEF Moves
      <3>2. Three(f, i, j, n)' /\ tokens'[i].v = s.from /\ <<tokens'[i].v, tokens'[n].v>> \in P
        BY <1>3, <2>1, <2>2, <2>4, <3>1 DEF Three
      <3>3. i \in Marks(f)' /\ j \in Marks(f)' /\ n \in Marks(f)'
        BY <3>1
      <3> QED
        BY <1>6, <1>10, <3>1, <3>2, <3>3 DEF Reading
    <2>5. CASE t.kind # "space" /\ ~(t.kind = "number" /\ <<r.from, t.v>> \in P)
      <3>1. s.place = "bad" /\ Marks(f)' = {i, j, n}
        BY <1>2, <1>10, <2>2, <2>5 DEF Moves
      <3>2. ~Stem(f, F, P)'
        <4>1. ASSUME NEW x \in {i, j, n}, NEW y \in {i, j, n}, Two(f, x, y)' PROVE FALSE
          <5>1. Marks(f)' = {x, y}
            BY <4>1 DEF Two
          <5>2. PICK D : D = {i, j, n}
            OBVIOUS
          <5>3. D # {x, y}
            BY <1>3, <2>2, <5>2, ThreePlaces
          <5> QED
            BY <3>1, <5>1, <5>2, <5>3
        <4>2. ASSUME NEW x \in {i, j, n}, NEW y \in {i, j, n}, NEW z \in {i, j, n}, Three(f, x, y, z)',
                     <<tokens'[x].v, tokens'[z].v>> \in P
              PROVE FALSE
          <5>1. x < y /\ y < z /\ tokens'[z].kind = "number"
            BY <4>2 DEF Three
          <5>2. x = i /\ z = n
            BY <1>3, <2>2, <5>1
          <5> QED
            BY <1>3, <2>1, <2>2, <2>5, <4>2, <5>1, <5>2
        <4>3. ASSUME NEW x \in {i, j, n}, One(f, x)' PROVE FALSE
          BY <1>3, <2>2, <3>1, <4>3 DEF One
        <4> QED
          BY <3>1, <4>1, <4>2, <4>3 DEF Stem
      <3> QED
        BY <3>1, <3>2 DEF Reading, Ruined
    <2> QED
      BY <2>3, <2>4, <2>5
  <1>11. CASE r.place = "range"
    <2>1. PICK i \in Marks(f), j \in Marks(f), m \in Marks(f) :
             Three(f, i, j, m) /\ tokens[i].v = r.from /\ <<tokens[i].v, tokens[m].v>> \in P
      BY <1>11 DEF Reading
    <2>2. /\ Marks(f) = {i, j, m} /\ tokens[i].kind = "number" /\ tokens[j].kind = "dash" /\ tokens[m].kind = "number"
          /\ i < j /\ j < m /\ m < n /\ i \in Int /\ j \in Int /\ m \in Int
          /\ tokens'[i] = tokens[i] /\ tokens'[j] = tokens[j] /\ tokens'[m] = tokens[m]
      BY <1>1, <1>3, <2>1 DEF Three
    <2>3. CASE t.kind = "space"
      <3>1. s.place = "range" /\ s.from = r.from /\ Marks(f)' = {i, j, m}
        BY <1>2, <1>11, <2>2, <2>3 DEF Moves
      <3>2. Three(f, i, j, m)' /\ tokens'[i].v = s.from /\ <<tokens'[i].v, tokens'[m].v>> \in P
        BY <2>1, <2>2, <3>1 DEF Three
      <3>3. i \in Marks(f)' /\ j \in Marks(f)' /\ m \in Marks(f)'
        BY <3>1
      <3> QED
        BY <1>6, <1>11, <3>1, <3>2, <3>3 DEF Reading
    <2>4. CASE t.kind # "space"
      <3>1. s.place = "bad" /\ Marks(f)' = {i, j, m, n}
        BY <1>2, <1>11, <2>2, <2>4 DEF Moves
      <3>2. ~Stem(f, F, P)'
        <4> PICK D : D = {i, j, m, n}
          OBVIOUS
        <4>1. i \in D /\ j \in D /\ m \in D /\ n \in D
          OBVIOUS
        <4>2. ~Few(D)
          BY <1>3, <2>2, <4>1, FourPlaces
        <4>3. Marks(f)' = D
          BY <3>1
        <4>4. Stem(f, F, P)' => Few(Marks(f)')
          <5>1. \A x : One(f, x)' => Marks(f)' = {x}
            BY DEF One
          <5>2. \A x, y : Two(f, x, y)' => Marks(f)' = {x, y}
            BY DEF Two
          <5>3. \A x, y, z : Three(f, x, y, z)' => Marks(f)' = {x, y, z}
            BY DEF Three
          <5>4. ASSUME NEW D1 PROVE (D1 = {} \/ \E x : D1 = {x}) \/ (\E x, y : D1 = {x, y}) \/ (\E x, y, z : D1 = {x, y, z}) => Few(D1)
            BY DEF Few
          <5> QED
            BY <5>1, <5>2, <5>3, <5>4 DEF Stem
        <4> QED
          BY <4>2, <4>3, <4>4
      <3> QED
        BY <3>1, <3>2 DEF Reading, Ruined
    <2> QED
      BY <2>3, <2>4
  <1> QED
    BY <1>7, <1>8, <1>9, <1>10, <1>11 DEF Reading

LEMMA ReadingComma ==
    ASSUME tokens \in Seq(Tokens), NEW t \in Tokens, tokens' = Append(tokens, t), t.kind = "comma",
           NEW c, LastComma(c), NEW F, NEW P, Accepts(F, P),
           NEW r, NEW s, Reading(r, c, F, P),
           s.place = (IF r.place \in {"from", "range"} /\ Good(Open(c)) THEN "start" ELSE "bad"),
           NEW n, n = Len(tokens) + 1
    PROVE  Reading(s, n, F, P)'
  <1>1. Len(tokens) \in Nat /\ Len(tokens') = n
    BY TokenTypes, Appended
  <1>2. /\ c \in 0..Len(tokens)
        /\ Fields = Closed \cup {Open(c)}
        /\ \A f \in Closed : \E a \in 0..Len(tokens), b \in 1..Len(tokens) : f = <<a, b>>
    BY FieldsAre
  <1>3. Closed' = Closed \cup {<<c, n>>} /\ Open(c) = <<c, n>> /\ Marks(Open(n))' = {}
    BY <1>2, AfterComma DEF Open
  <1>4. \A h \in Closed \cup {<<c, n>>} : Good(h)' <=> Good(h)
    <2>1. ASSUME NEW a \in 0..Len(tokens), NEW b \in 1..(Len(tokens) + 1) PROVE Good(<<a, b>>)' <=> Good(<<a, b>>)
      BY SameField
    <2>2. \A h \in Closed \cup {<<c, n>>} : \E a \in 0..Len(tokens), b \in 1..(Len(tokens) + 1) : h = <<a, b>>
      BY <1>1, <1>2
    <2> QED
      BY <2>1, <2>2
  <1>5. CASE r.place = "bad"
    <2>1. \E f \in Closed' : ~(Good(f)')
      BY <1>5, LostStays DEF Reading
    <2> QED
      BY <1>5, <2>1 DEF Reading, Ruined
  <1>6. CASE r.place # "bad" /\ s.place = "start"
    <2>1. \A h \in Closed' : Good(h)'
      BY <1>3, <1>4, <1>6 DEF Reading
    <2> QED
      BY <1>1, <1>3, <1>6, <2>1 DEF Reading
  <1>7. CASE r.place # "bad" /\ s.place = "bad"
    <2>1. ~Good(Open(c))
      <3>1. CASE r.place \in {"start", "first"}
        <4>1. Marks(Open(c)) = {}
          BY <3>1 DEF Reading
        <4>2. Interval(Open(c)) = {}
          <5>1. ASSUME NEW f, Marks(f) = {} PROVE Interval(f) = {}
            <6>1. \A i \in Int : Marks(f) = {} => Interval(f) = {}
              BY IntervalsAre DEF IntervalFacts
            <6> QED
              BY <5>1, <6>1
          <5> QED
            BY <4>1, <5>1
        <4> QED
          BY <4>2 DEF Good
      <3>2. CASE r.place = "second"
        <4>1. PICK i \in Marks(Open(c)), j \in Marks(Open(c)) : Two(Open(c), i, j)
          BY <3>2 DEF Reading
        <4>2. i \in Int /\ j \in Int
          BY OpenMarks
        <4>3. Interval(Open(c)) = {}
          BY <4>1, <4>2, IntervalsAre DEF IntervalFacts
        <4> QED
          BY <4>3 DEF Good
      <3> QED
        BY <1>7, <3>1, <3>2 DEF Reading
    <2>2. \E f \in Closed' : ~(Good(f)')
      BY <1>3, <1>4, <2>1
    <2> QED
      BY <1>7, <2>2 DEF Reading, Ruined
  <1> QED
    BY <1>5, <1>6, <1>7

(* What the open field means while a reader is in it.                         *)
LEMMA OpenMeans ==
    ASSUME tokens \in Seq(Tokens), NEW c, LastComma(c), NEW F, NEW P, NEW r, Reading(r, c, F, P)
    PROVE  /\ r.place \in {"start", "first", "second"} => Interval(Open(c)) = {}
           /\ r.place = "from" => Interval(Open(c)) = r.from..r.from /\ r.from \in F
           /\ r.place = "range" => \E v : Interval(Open(c)) = r.from..v /\ <<r.from, v>> \in P
           /\ c = Len(tokens) => Marks(Open(c)) = {} /\ Interval(Open(c)) = {}
           /\ r.place \notin {"start", "first", "bad"} => c # Len(tokens)
  <1> DEFINE f == Open(c)
  <1>1. \A i \in Marks(f) : i \in Int
    BY OpenMarks
  <1>2. r.place \in {"start", "first"} => Interval(f) = {}
    <2> SUFFICES ASSUME r.place \in {"start", "first"} PROVE Interval(f) = {}
      OBVIOUS
    <2> PICK g : g = f
      OBVIOUS
    <2>1. Marks(g) = {}
      BY DEF Reading
    <2>2. \A i, j, m \in Int : Marks(g) = {} => Interval(g) = {}
      BY IntervalsAre, Zenon DEF IntervalFacts
    <2>3. 0 \in Int
      OBVIOUS
    <2> QED
      BY <2>1, <2>2, <2>3
  <1>3. r.place = "second" => Interval(f) = {} /\ Marks(f) # {}
    <2>1. SUFFICES ASSUME r.place = "second" PROVE Interval(f) = {} /\ Marks(f) # {}
      OBVIOUS
    <2>2. PICK i \in Marks(f), j \in Marks(f) : Two(f, i, j)
      BY <2>1 DEF Reading
    <2> QED
      BY <1>1, <2>2, IntervalsAre DEF IntervalFacts
  <1>4. r.place = "from" => Interval(f) = r.from..r.from /\ r.from \in F /\ Marks(f) # {}
    <2>1. SUFFICES ASSUME r.place = "from" PROVE Interval(f) = r.from..r.from /\ r.from \in F /\ Marks(f) # {}
      OBVIOUS
    <2>2. PICK i \in Marks(f) : One(f, i) /\ tokens[i].v = r.from /\ r.from \in F
      BY <2>1 DEF Reading
    <2>3. Interval(f) = tokens[i].v..tokens[i].v
      BY <1>1, <2>2, IntervalsAre DEF IntervalFacts
    <2> QED
      BY <2>2, <2>3
  <1>5. r.place = "range" => (\E v : Interval(f) = r.from..v /\ <<r.from, v>> \in P) /\ Marks(f) # {}
    <2>1. SUFFICES ASSUME r.place = "range"
                   PROVE  (\E v : Interval(f) = r.from..v /\ <<r.from, v>> \in P) /\ Marks(f) # {}
      OBVIOUS
    <2>2. PICK i \in Marks(f), j \in Marks(f), m \in Marks(f) :
             Three(f, i, j, m) /\ tokens[i].v = r.from /\ <<tokens[i].v, tokens[m].v>> \in P
      BY <2>1 DEF Reading
    <2>3. Interval(f) = tokens[i].v..tokens[m].v
      BY <1>1, <2>2, IntervalsAre DEF IntervalFacts
    <2> QED
      BY <2>2, <2>3
  <1>6. c = Len(tokens) => Marks(f) = {}
    <2>1. SUFFICES ASSUME c = Len(tokens) PROVE Marks(f) = {}
      OBVIOUS
    <2>2. Len(tokens) \in Nat
      BY TokenTypes
    <2>3. Marks(f) = {i \in (Len(tokens) + 1)..((Len(tokens) + 1) - 1) : tokens[i].kind # "space"}
      BY <2>1 DEF Marks, Open
    <2> QED
      BY <2>2, <2>3
  <1>7. Marks(f) = {} => Interval(f) = {}
    BY IntervalsAre DEF IntervalFacts
  <1>8. r.place \in {"start", "first", "from", "second", "range", "bad"}
    BY DEF Reading
  <1>9. c = Len(tokens) => Marks(f) = {} /\ Interval(f) = {}
    BY <1>6, <1>7
  <1>10. r.place \notin {"start", "first", "bad"} => c # Len(tokens)
    BY <1>3, <1>4, <1>5, <1>6, <1>8
  <1>11. r.place \in {"start", "first", "second"} => Interval(f) = {}
    BY <1>2, <1>3
  <1>12. r.place = "range" => \E v : Interval(f) = r.from..v /\ <<r.from, v>> \in P
    BY <1>5
  <1>13. r.place = "from" => Interval(f) = r.from..r.from /\ r.from \in F
    BY <1>4
  <1> QED
    BY <1>9, <1>10, <1>11, <1>12, <1>13

LEMMA OpenMoves ==
    ASSUME tokens \in Seq(Tokens), NEW t \in Tokens, tokens' = Append(tokens, t), t.kind # "comma",
           NEW c, LastComma(c), NEW F, NEW P, Accepts(F, P),
           NEW r, NEW s, Reading(r, c, F, P), Moves(r, s, t, F, P)
    PROVE  /\ s.place = "from" => Interval(Open(c))' = s.from..s.from
           /\ r.place = "range" /\ s.place = "range" => Interval(Open(c))' = Interval(Open(c))
           /\ r.place = "second" /\ s.place = "range" => Interval(Open(c))' = r.from..t.v
  <1> PICK n : n = Len(tokens) + 1
    OBVIOUS
  <1> DEFINE f == Open(c)
  <1>1. /\ Marks(f) \subseteq 1..Len(tokens) /\ Len(tokens) \in Nat
        /\ \A i \in Marks(f) : i \in Int
    BY OpenMarks
  <1>2. /\ Marks(f)' = Marks(f) \cup (IF t.kind = "space" THEN {} ELSE {n})
        /\ n \notin Marks(f)
    BY Longer
  <1>3. /\ \A i \in Marks(f) : tokens'[i] = tokens[i] /\ i < n
        /\ n \in Int /\ tokens'[n] = t
    BY <1>1, Appended
  <1>4. s.place = "from" => Interval(f)' = s.from..s.from
    <2>1. SUFFICES ASSUME s.place = "from" PROVE Interval(f)' = s.from..s.from
      OBVIOUS
    <2>2. Reading(s, c, F, P)'
      BY ReadingMoves
    <2>3. PICK i \in Marks(f)' : One(f, i)' /\ tokens'[i].v = s.from
      BY <2>1, <2>2 DEF Reading
    <2>4. i \in Int
      BY <1>1, <1>2, <1>3
    <2>5. Interval(f)' = tokens'[i].v..tokens'[i].v
      BY <2>3, <2>4, NextIntervals DEF IntervalFacts
    <2> QED
      BY <2>3, <2>5
  <1>5. r.place = "range" /\ s.place = "range" => Interval(f)' = Interval(f)
    <2>1. SUFFICES ASSUME r.place = "range", s.place = "range" PROVE Interval(f)' = Interval(f)
      OBVIOUS
    <2>2. PICK i \in Marks(f), j \in Marks(f), m \in Marks(f) : Three(f, i, j, m)
      BY <2>1 DEF Reading
    <2>3. Interval(f) = tokens[i].v..tokens[m].v
      BY <1>1, <2>2, IntervalsAre DEF IntervalFacts
    <2>4. Marks(f)' = Marks(f)
      BY <1>2, <2>1 DEF Moves
    <2>5. tokens'[i] = tokens[i] /\ tokens'[j] = tokens[j] /\ tokens'[m] = tokens[m]
      BY <1>3
    <2>6. Three(f, i, j, m)'
      BY <2>2, <2>4, <2>5 DEF Three
    <2>7. Interval(f)' = tokens'[i].v..tokens'[m].v
      BY <1>1, <2>6, NextIntervals DEF IntervalFacts
    <2> QED
      BY <2>3, <2>5, <2>7
  <1>6. r.place = "second" /\ s.place = "range" => Interval(f)' = r.from..t.v
    <2>1. SUFFICES ASSUME r.place = "second", s.place = "range" PROVE Interval(f)' = r.from..t.v
      OBVIOUS
    <2>2. PICK i \in Marks(f), j \in Marks(f) : Two(f, i, j) /\ tokens[i].v = r.from
      BY <2>1 DEF Reading
    <2>3. t.kind = "number"
      BY <2>1 DEF Moves
    <2>4. /\ i < j /\ j < n /\ Marks(f) = {i, j} /\ tokens'[i] = tokens[i] /\ tokens'[j] = tokens[j]
          /\ tokens[i].kind = "number" /\ tokens[j].kind = "dash"
      BY <1>3, <2>2 DEF Two
    <2>5. Marks(f)' = {i, j, n}
      BY <1>2, <2>3, <2>4
    <2>6. Three(f, i, j, n)'
      BY <1>3, <2>3, <2>4, <2>5 DEF Three
    <2>7. Interval(f)' = tokens'[i].v..tokens'[n].v
      BY <1>1, <1>3, <2>6, NextIntervals DEF IntervalFacts
    <2> QED
      BY <1>3, <2>2, <2>4, <2>7
  <1> QED
    BY <1>4, <1>5, <1>6

(* What the closed fields mean together.                                      *)
Chosen == UNION {Interval(f) : f \in Closed}

LEMMA ChosenMoves ==
    ASSUME tokens \in Seq(Tokens), NEW t \in Tokens, tokens' = Append(tokens, t), NEW c, LastComma(c)
    PROVE  /\ t.kind # "comma" => Chosen' = Chosen
           /\ t.kind = "comma" => Chosen' = Chosen \cup Interval(Open(c))
  <1>1. /\ c \in 0..Len(tokens) /\ Len(tokens) \in Nat
        /\ Fields = Closed \cup {Open(c)}
        /\ \A f \in Closed : \E a \in 0..Len(tokens), b \in 1..Len(tokens) : f = <<a, b>>
    BY FieldsAre, TokenTypes
  <1>2. \A f \in Closed \cup {Open(c)} : \E a \in 0..Len(tokens), b \in 1..(Len(tokens) + 1) : f = <<a, b>>
    BY <1>1 DEF Open
  <1>3. ASSUME NEW f \in Closed \cup {Open(c)} PROVE Interval(f)' = Interval(f)
    BY <1>2, SameField
  <1>4. t.kind # "comma" => Chosen' = Chosen
    <2>1. SUFFICES ASSUME t.kind # "comma" PROVE Chosen' = Chosen
      OBVIOUS
    <2>2. Closed' = Closed
      BY <2>1, Longer
    <2> QED
      BY <1>3, <2>2 DEF Chosen
  <1>5. t.kind = "comma" => Chosen' = Chosen \cup Interval(Open(c))
    <2>1. SUFFICES ASSUME t.kind = "comma" PROVE Chosen' = Chosen \cup Interval(Open(c))
      OBVIOUS
    <2> PICK g : g = Open(c)
      OBVIOUS
    <2>2. Closed' = Closed \cup {g}
      BY <1>1, <2>1, AfterComma
    <2>3. \A f \in Closed \cup {g} : Interval(f)' = Interval(f)
      BY <1>3
    <2>4. Chosen' = UNION {Interval(f) : f \in Closed \cup {g}}
      BY <2>2, <2>3 DEF Chosen
    <2> QED
      BY <2>4 DEF Chosen
  <1> QED
    BY <1>4, <1>5

(***************************************************************************)
(* The two readers                                                         *)
(***************************************************************************)
Places == {"start", "first", "from", "second", "range", "bad"}
Values == 0..(Count + 1)
AnyPair == {p \in Values \X Values : p = <<p[1], p[2]>>}

LEMMA ReadersAccept == Accepts(Items, Pairs) /\ Accepts(Values, AnyPair)
  <1>1. Count \in Nat
    BY SelectionAssumption
  <1>2. Items \subseteq Values
    BY <1>1 DEF Items, Values
  <1>3. \A p \in Pairs : p = <<p[1], p[2]>> /\ p[1] \in Items /\ p \in AnyPair
    BY <1>2 DEF Pairs, AnyPair
  <1> QED
    BY <1>2, <1>3 DEF Accepts, AnyPair

LEMMA TokenKinds ==
    ASSUME NEW t \in Tokens
    PROVE  t.kind \in {"number", "dash", "comma", "space", "all", "junk"} /\ t.v \in Values
  <1>1. \A v : Number(v).kind = "number"
    BY DEF Number
  <1>2. \A s : Sign(s).kind = s
    BY DEF Sign
  <1>3. (\E v : t = Number(v)) \/ (\E s \in {"dash", "comma", "space", "all", "junk"} : t = Sign(s))
    BY DEF Tokens
  <1> QED
    BY <1>1, <1>2, <1>3, TokenValues DEF Values

SpecStates == [place : Places, from : Values, sel : SUBSET Int]
LineStates == [place : Places, from : Values, to : Values, sel : SUBSET Int]

LEMMA SpecMoves ==
    ASSUME NEW p \in SpecStates, NEW t \in Tokens, p.place \in {"from", "second"} => p.from \in Items
    PROVE  /\ SpecToken(p, t) \in SpecStates
           /\ t.kind # "comma" =>
                /\ Moves(p, SpecToken(p, t), t, Items, Pairs)
                /\ SpecToken(p, t).place \notin {"bad"} =>
                     SpecToken(p, t).sel = IF p.place = "second" /\ t.kind = "number" THEN p.sel \cup p.from..t.v ELSE p.sel
           /\ t.kind = "comma" =>
                /\ SpecToken(p, t).place = IF p.place \in {"from", "range"} THEN "start" ELSE "bad"
                /\ p.place = "from" => SpecToken(p, t).sel = p.sel \cup {p.from}
                /\ p.place = "range" => SpecToken(p, t).sel = p.sel
  <1> PICK q : q = SpecToken(p, t)
    OBVIOUS
  <1>0. /\ p.place \in Places /\ p.from \in Values /\ p.sel \in SUBSET Int
        /\ t.kind \in {"number", "dash", "comma", "space", "all", "junk"} /\ t.v \in Values
        /\ Count \in Nat
    BY TokenKinds, SelectionAssumption DEF SpecStates
  <1>1. \A x \in Places : To(x, p) \in SpecStates /\ To(x, p).place = x /\ To(x, p).from = p.from /\ To(x, p).sel = p.sel
    BY DEF SpecStates, To
  <1>2. "first" \in Places /\ "second" \in Places /\ "start" \in Places /\ "bad" \in Places
    BY DEF Places
  <1>3. ASSUME NEW v \in Values
        PROVE  /\ [p EXCEPT !.place = "from", !.from = v] \in SpecStates
               /\ [p EXCEPT !.place = "from", !.from = v].place = "from"
               /\ [p EXCEPT !.place = "from", !.from = v].from = v
               /\ [p EXCEPT !.place = "from", !.from = v].sel = p.sel
    BY DEF SpecStates, Places
  <1>4. ASSUME NEW S \in SUBSET Int
        PROVE  /\ [p EXCEPT !.place = "start", !.sel = @ \cup S] \in SpecStates
               /\ [p EXCEPT !.place = "start", !.sel = @ \cup S].place = "start"
               /\ [p EXCEPT !.place = "start", !.sel = @ \cup S].from = p.from
               /\ [p EXCEPT !.place = "start", !.sel = @ \cup S].sel = p.sel \cup S
    BY DEF SpecStates, Places
  <1>5. ASSUME NEW S \in SUBSET Int
        PROVE  /\ [p EXCEPT !.place = "range", !.sel = @ \cup S] \in SpecStates
               /\ [p EXCEPT !.place = "range", !.sel = @ \cup S].place = "range"
               /\ [p EXCEPT !.place = "range", !.sel = @ \cup S].from = p.from
               /\ [p EXCEPT !.place = "range", !.sel = @ \cup S].sel = p.sel \cup S
    BY DEF SpecStates, Places
  <1>6. p.from \in Int /\ {p.from} \in SUBSET Int /\ p.from..t.v \in SUBSET Int
    BY <1>0 DEF Values
  <1>7. p.from \in Items => (<<p.from, t.v>> \in Pairs <=> t.v \in p.from..Count)
    BY <1>0 DEF Pairs, Items, Values
  <1>8. Items \subseteq Values
    BY <1>0 DEF Items, Values
  <1>9. CASE p.place \in {"start", "first"}
    <2>1. CASE t.kind = "space"
      <3>1. q = To("first", p)
        BY <1>9, <2>1 DEF SpecToken
      <3> QED
        BY <1>1, <1>2, <1>9, <2>1, <3>1 DEF Moves
    <2>2. CASE t.kind = "number" /\ t.v \in Items
      <3>1. q = [p EXCEPT !.place = "from", !.from = t.v]
        BY <1>9, <2>2 DEF SpecToken
      <3>2. q \in SpecStates /\ q.place = "from" /\ q.from = t.v /\ q.sel = p.sel
        BY <1>0, <1>3, <3>1
      <3> QED
        BY <1>9, <2>2, <3>2 DEF Moves
    <2>3. CASE t.kind # "space" /\ ~(t.kind = "number" /\ t.v \in Items)
      <3>1. q = To("bad", p)
        BY <1>9, <2>3 DEF SpecToken
      <3> QED
        BY <1>1, <1>2, <1>9, <2>3, <3>1 DEF Moves
    <2> QED
      BY <2>1, <2>2, <2>3
  <1>10. CASE p.place = "from"
    <2>1. CASE t.kind = "space"
      <3>1. q = p
        BY <1>10, <2>1 DEF SpecToken
      <3> QED
        BY <1>10, <2>1, <3>1 DEF Moves
    <2>2. CASE t.kind = "dash"
      <3>1. q = To("second", p)
        BY <1>10, <2>2 DEF SpecToken
      <3> QED
        BY <1>1, <1>2, <1>10, <2>2, <3>1 DEF Moves
    <2>3. CASE t.kind = "comma"
      <3>1. q = [p EXCEPT !.place = "start", !.sel = @ \cup {p.from}]
        BY <1>10, <2>3 DEF SpecToken
      <3>2. q \in SpecStates /\ q.place = "start" /\ q.sel = p.sel \cup {p.from}
        BY <1>4, <1>6, <3>1
      <3> QED
        BY <1>10, <2>3, <3>2
    <2>4. CASE t.kind \notin {"space", "dash", "comma"}
      <3>1. q = To("bad", p)
        BY <1>10, <2>4 DEF SpecToken
      <3> QED
        BY <1>1, <1>2, <1>10, <2>4, <3>1 DEF Moves
    <2> QED
      BY <2>1, <2>2, <2>3, <2>4
  <1>11. CASE p.place = "second"
    <2>1. CASE t.kind = "space"
      <3>1. q = p
        BY <1>11, <2>1 DEF SpecToken
      <3> QED
        BY <1>11, <2>1, <3>1 DEF Moves
    <2>2. CASE t.kind = "number" /\ t.v \in p.from..Count
      <3>1. q = [p EXCEPT !.place = "range", !.sel = @ \cup p.from..t.v]
        BY <1>11, <2>2 DEF SpecToken
      <3>2. q \in SpecStates /\ q.place = "range" /\ q.from = p.from /\ q.sel = p.sel \cup p.from..t.v
        BY <1>5, <1>6, <3>1
      <3> QED
        BY <1>7, <1>11, <2>2, <3>2 DEF Moves
    <2>3. CASE t.kind # "space" /\ ~(t.kind = "number" /\ t.v \in p.from..Count)
      <3>1. q = To("bad", p)
        BY <1>11, <2>3 DEF SpecToken
      <3> QED
        BY <1>1, <1>2, <1>7, <1>11, <2>3, <3>1 DEF Moves
    <2> QED
      BY <2>1, <2>2, <2>3
  <1>12. CASE p.place = "range"
    <2>1. CASE t.kind = "space"
      <3>1. q = p
        BY <1>12, <2>1 DEF SpecToken
      <3> QED
        BY <1>12, <2>1, <3>1 DEF Moves
    <2>2. CASE t.kind = "comma"
      <3>1. q = To("start", p)
        BY <1>12, <2>2 DEF SpecToken
      <3> QED
        BY <1>1, <1>2, <1>12, <2>2, <3>1
    <2>3. CASE t.kind \notin {"space", "comma"}
      <3>1. q = To("bad", p)
        BY <1>12, <2>3 DEF SpecToken
      <3> QED
        BY <1>1, <1>2, <1>12, <2>3, <3>1 DEF Moves
    <2> QED
      BY <2>1, <2>2, <2>3
  <1>13. CASE p.place = "bad"
    <2>1. q = To("bad", p)
      BY <1>13 DEF SpecToken
    <2> QED
      BY <1>1, <1>2, <1>13, <2>1 DEF Moves
  <1> QED
    BY <1>0, <1>9, <1>10, <1>11, <1>12, <1>13 DEF Places

LEMMA LineMoves ==
    ASSUME NEW p \in LineStates, NEW t \in Tokens
    PROVE  /\ LineToken(p, t) \in LineStates
           /\ t.kind # "comma" =>
                /\ Moves(p, LineToken(p, t), t, Values, AnyPair)
                /\ LineToken(p, t).sel = p.sel
                /\ LineToken(p, t).place = "from" =>
                     \/ LineToken(p, t).to = LineToken(p, t).from
                     \/ p.place = "from" /\ LineToken(p, t).from = p.from /\ LineToken(p, t).to = p.to
                /\ LineToken(p, t).place = "range" =>
                     /\ LineToken(p, t).from = p.from
                     /\ \/ p.place = "range" /\ LineToken(p, t).to = p.to
                        \/ p.place = "second" /\ LineToken(p, t).to = t.v
           /\ t.kind = "comma" =>
                /\ LineToken(p, t).place = IF p.place \in {"from", "range"} /\ InRange(p.from, p.to) THEN "start" ELSE "bad"
                /\ LineToken(p, t).place = "start" => LineToken(p, t).sel = p.sel \cup p.from..p.to
  <1> PICK q : q = LineToken(p, t)
    OBVIOUS
  <1>0. /\ p.place \in Places /\ p.from \in Values /\ p.to \in Values /\ p.sel \in SUBSET Int
        /\ t.kind \in {"number", "dash", "comma", "space", "all", "junk"} /\ t.v \in Values
        /\ Count \in Nat
    BY TokenKinds, SelectionAssumption DEF LineStates
  <1>1. \A x \in Places : To(x, p) \in LineStates /\ To(x, p).place = x /\ To(x, p).from = p.from /\ To(x, p).to = p.to /\ To(x, p).sel = p.sel
    BY DEF LineStates, To
  <1>2. "first" \in Places /\ "second" \in Places /\ "start" \in Places /\ "bad" \in Places
    BY DEF Places
  <1>3. ASSUME NEW v \in Values
        PROVE  /\ [p EXCEPT !.place = "from", !.from = v, !.to = v] \in LineStates
               /\ [p EXCEPT !.place = "from", !.from = v, !.to = v].place = "from"
               /\ [p EXCEPT !.place = "from", !.from = v, !.to = v].from = v
               /\ [p EXCEPT !.place = "from", !.from = v, !.to = v].to = v
               /\ [p EXCEPT !.place = "from", !.from = v, !.to = v].sel = p.sel
    BY DEF LineStates, Places
  <1>4. ASSUME NEW S \in SUBSET Int
        PROVE  /\ [p EXCEPT !.place = "start", !.sel = @ \cup S] \in LineStates
               /\ [p EXCEPT !.place = "start", !.sel = @ \cup S].place = "start"
               /\ [p EXCEPT !.place = "start", !.sel = @ \cup S].from = p.from
               /\ [p EXCEPT !.place = "start", !.sel = @ \cup S].to = p.to
               /\ [p EXCEPT !.place = "start", !.sel = @ \cup S].sel = p.sel \cup S
    BY DEF LineStates, Places
  <1>5. ASSUME NEW v \in Values
        PROVE  /\ [p EXCEPT !.place = "range", !.to = v] \in LineStates
               /\ [p EXCEPT !.place = "range", !.to = v].place = "range"
               /\ [p EXCEPT !.place = "range", !.to = v].from = p.from
               /\ [p EXCEPT !.place = "range", !.to = v].to = v
               /\ [p EXCEPT !.place = "range", !.to = v].sel = p.sel
    BY DEF LineStates, Places
  <1>6. p.from..p.to \in SUBSET Int
    BY <1>0 DEF Values
  <1>7. <<p.from, t.v>> \in AnyPair
    BY <1>0 DEF AnyPair
  <1>9. CASE p.place \in {"start", "first"}
    <2>1. CASE t.kind = "space"
      <3>1. q = To("first", p)
        BY <1>9, <2>1 DEF LineToken
      <3> QED
        BY <1>1, <1>2, <1>9, <2>1, <3>1 DEF Moves
    <2>2. CASE t.kind = "number"
      <3>1. q = [p EXCEPT !.place = "from", !.from = t.v, !.to = t.v]
        BY <1>9, <2>2 DEF LineToken
      <3>2. q \in LineStates /\ q.place = "from" /\ q.from = t.v /\ q.to = t.v /\ q.sel = p.sel
        BY <1>0, <1>3, <3>1, ZenonT(30)
      <3> QED
        BY <1>0, <1>9, <2>2, <3>2 DEF Moves
    <2>3. CASE t.kind \notin {"space", "number"}
      <3>1. q = To("bad", p)
        BY <1>9, <2>3 DEF LineToken
      <3> QED
        BY <1>1, <1>2, <1>9, <2>3, <3>1 DEF Moves
    <2> QED
      BY <2>1, <2>2, <2>3
  <1>10. CASE p.place \in {"from", "range"} /\ t.kind = "space"
    <2>1. q = p
      BY <1>10 DEF LineToken
    <2> QED
      BY <1>10, <2>1 DEF Moves
  <1>11. CASE p.place \in {"from", "range"} /\ t.kind = "comma"
    <2>1. CASE InRange(p.from, p.to)
      <3>1. q = [p EXCEPT !.place = "start", !.sel = @ \cup p.from..p.to]
        BY <1>11, <2>1 DEF LineToken
      <3>2. q \in LineStates /\ q.place = "start" /\ q.sel = p.sel \cup p.from..p.to
        BY <1>4, <1>6, <3>1
      <3> QED
        BY <1>11, <2>1, <3>2
    <2>2. CASE ~InRange(p.from, p.to)
      <3>1. q = To("bad", p)
        BY <1>11, <2>2 DEF LineToken
      <3> QED
        BY <1>1, <1>2, <1>11, <2>2, <3>1
    <2> QED
      BY <2>1, <2>2
  <1>12. CASE p.place = "from" /\ t.kind = "dash"
    <2>1. q = To("second", p)
      BY <1>12 DEF LineToken
    <2> QED
      BY <1>1, <1>2, <1>12, <2>1 DEF Moves
  <1>13. CASE p.place = "second" /\ t.kind = "space"
    <2>1. q = p
      BY <1>13 DEF LineToken
    <2> QED
      BY <1>13, <2>1 DEF Moves
  <1>14. CASE p.place = "second" /\ t.kind = "number"
    <2>1. q = [p EXCEPT !.place = "range", !.to = t.v]
      BY <1>14 DEF LineToken
    <2>2. q \in LineStates /\ q.place = "range" /\ q.from = p.from /\ q.to = t.v /\ q.sel = p.sel
      BY <1>0, <1>5, <2>1, ZenonT(30)
    <2> QED
      BY <1>7, <1>14, <2>2 DEF Moves
  <1>15. CASE \/ p.place = "from" /\ t.kind \notin {"space", "comma", "dash"}
              \/ p.place = "range" /\ t.kind \notin {"space", "comma"}
              \/ p.place = "second" /\ t.kind \notin {"space", "number"}
              \/ p.place = "bad"
    <2>1. q = To("bad", p)
      BY <1>15 DEF LineToken
    <2>2. q \in LineStates /\ q.place = "bad" /\ q.sel = p.sel
      BY <1>1, <1>2, <2>1
    <2> QED
      BY <1>15, <2>2 DEF Moves
  <1> QED
    BY <1>0, <1>9, <1>10, <1>11, <1>12, <1>13, <1>14, <1>15 DEF Places

(***************************************************************************)
(* What both readers know of the list so far                               *)
(***************************************************************************)
SpecReads(p, c) ==
    /\ Reading(p, c, Items, Pairs)
    /\ p.place # "bad" => p.sel = Chosen \cup (IF p.place = "range" THEN Interval(Open(c)) ELSE {})

LineReads(p, c) ==
    /\ Reading(p, c, Values, AnyPair)
    /\ p.place = "from" => p.to = p.from
    /\ p.place \in {"from", "range"} => Interval(Open(c)) = p.from..p.to
    /\ p.place # "bad" => p.sel = Chosen

ListInv ==
    /\ tokens \in Seq(Tokens) /\ spec \in SpecStates /\ line \in LineStates
    /\ \E c : LastComma(c) /\ SpecReads(spec, c) /\ LineReads(line, c)

LEMMA ListStart == SelectionInit => ListInv
  <1> SUFFICES ASSUME SelectionInit PROVE ListInv
    OBVIOUS
  <1>1. /\ tokens = <<>> /\ tokens \in Seq(Tokens) /\ Len(tokens) = 0 /\ DOMAIN tokens = {}
        /\ spec = [place |-> "start", from |-> 0, sel |-> {}]
        /\ line = [place |-> "start", from |-> 0, to |-> 0, sel |-> {}]
        /\ Count \in Nat
    BY SelectionAssumption DEF SelectionInit
  <1>2. spec \in SpecStates /\ line \in LineStates
    BY <1>1 DEF SpecStates, LineStates, Places, Values
  <1>3. LastComma(0)
    BY <1>1 DEF LastComma
  <1>4. Closed = {}
    <2>1. Commas = {0, 1}
      BY <1>1 DEF Commas
    <2>2. ASSUME NEW f \in Closed PROVE FALSE
      <3>1. f \in {0, 1} \X {0, 1} /\ f[1] < f[2] /\ f[2] <= 0
        BY <1>1, <2>1 DEF Closed, Fields
      <3> QED
        BY <3>1
    <2> QED
      BY <2>2
  <1>5. Chosen = {}
    BY <1>4 DEF Chosen
  <1>6. Marks(Open(0)) = {}
    BY <1>1 DEF Marks, Open
  <1>7. Reading(spec, 0, Items, Pairs) /\ Reading(line, 0, Values, AnyPair)
    BY <1>1, <1>4, <1>6 DEF Reading
  <1>8. SpecReads(spec, 0) /\ LineReads(line, 0)
    BY <1>1, <1>5, <1>7 DEF SpecReads, LineReads
  <1> QED
    BY <1>1, <1>2, <1>3, <1>8 DEF ListInv

LEMMA SpecTyped ==
    ASSUME tokens \in Seq(Tokens), NEW t \in Tokens, tokens' = Append(tokens, t),
           NEW c, LastComma(c), NEW p \in SpecStates, SpecReads(p, c),
           NEW q, q = SpecToken(p, t), NEW d, d = (IF t.kind = "comma" THEN Len(tokens) + 1 ELSE c)
    PROVE  q \in SpecStates /\ SpecReads(q, d)'
  <1>1. Reading(p, c, Items, Pairs)
    BY DEF SpecReads
  <1>2. p.place \in {"from", "second"} => p.from \in Items
    BY <1>1 DEF Reading
  <1>3. Accepts(Items, Pairs)
    BY ReadersAccept
  <1>4. q \in SpecStates
    BY <1>2, SpecMoves
  <1>5. Items' = Items /\ Pairs' = Pairs
    BY DEF Items, Pairs
  <1>6. CASE t.kind # "comma"
    <2>1. /\ Moves(p, q, t, Items, Pairs)
          /\ q.place # "bad" => q.sel = IF p.place = "second" /\ t.kind = "number" THEN p.sel \cup p.from..t.v ELSE p.sel
      BY <1>2, <1>6, SpecMoves
    <2>2. \A F, P : F = Items /\ P = Pairs => Reading(q, c, F, P)'
      BY <1>1, <1>3, <1>6, <2>1, ReadingMoves
    <2>3. Reading(q, c, Items, Pairs)'
      <3> PICK F, P : F = Items /\ P = Pairs
        OBVIOUS
      <3>1. Reading(q, c, F, P)'
        BY <2>2
      <3> QED
        BY <1>5, <3>1, ZenonT(30) DEF Reading, Ruined, Stem
    <2>4. Chosen' = Chosen
      BY <1>6, ChosenMoves
    <2>5. /\ p.place = "range" /\ q.place = "range" => Interval(Open(c))' = Interval(Open(c))
          /\ p.place = "second" /\ q.place = "range" => Interval(Open(c))' = p.from..t.v
      BY <1>1, <1>3, <1>6, <2>1, OpenMoves
    <2>6. q.place # "bad" => q.sel = Chosen' \cup (IF q.place = "range" THEN Interval(Open(c))' ELSE {})
      <3> SUFFICES ASSUME q.place # "bad"
                   PROVE  q.sel = Chosen \cup (IF q.place = "range" THEN Interval(Open(c))' ELSE {})
        BY <2>4
      <3>1. p.place # "bad"
        BY <2>1 DEF Moves
      <3>2. p.place \in {"start", "first", "from", "second", "range"}
        BY <1>1, <3>1 DEF Reading
      <3>3. p.sel = Chosen \cup (IF p.place = "range" THEN Interval(Open(c)) ELSE {})
        BY <3>1 DEF SpecReads
      <3>4. CASE p.place \in {"start", "first", "from"}
        <4>1. q.place # "range"
          BY <2>1, <3>4 DEF Moves
        <4> QED
          BY <2>1, <3>3, <3>4, <4>1
      <3>5. CASE p.place = "second"
        <4>1. CASE t.kind = "space"
          <5>1. q.place = "second"
            BY <2>1, <3>5, <4>1 DEF Moves
          <5> QED
            BY <2>1, <3>3, <3>5, <4>1, <5>1
        <4>2. CASE t.kind # "space"
          <5>1. t.kind = "number" /\ q.place = "range"
            BY <2>1, <3>5, <4>2 DEF Moves
          <5>2. q.sel = p.sel \cup p.from..t.v /\ p.sel = Chosen \cup {}
            BY <2>1, <3>3, <3>5, <5>1
          <5>3. Interval(Open(c))' = p.from..t.v
            BY <2>5, <3>5, <5>1
          <5> QED
            BY <5>1, <5>2, <5>3
        <4> QED
          BY <4>1, <4>2
      <3>6. CASE p.place = "range"
        <4>1. q.place = "range"
          BY <2>1, <3>6 DEF Moves
        <4> QED
          BY <2>1, <2>5, <3>3, <3>6, <4>1
      <3> QED
        BY <3>2, <3>4, <3>5, <3>6
    <2>7. d = c
      BY <1>6
    <2> QED
      BY <1>4, <2>3, <2>6, <2>7 DEF SpecReads
  <1>7. CASE t.kind = "comma"
    <2>1. /\ q.place = IF p.place \in {"from", "range"} THEN "start" ELSE "bad"
          /\ p.place = "from" => q.sel = p.sel \cup {p.from}
          /\ p.place = "range" => q.sel = p.sel
      BY <1>2, <1>7, SpecMoves
    <2>2. p.place = "from" => Interval(Open(c)) = {p.from} /\ Good(Open(c))
      <3>1. SUFFICES ASSUME p.place = "from" PROVE Interval(Open(c)) = {p.from} /\ Good(Open(c))
        OBVIOUS
      <3>2. Interval(Open(c)) = p.from..p.from /\ p.from \in Items
        BY <1>1, <3>1, OpenMeans
      <3>3. p.from..p.from = {p.from}
        BY <3>2 DEF Items
      <3> QED
        BY <3>2, <3>3 DEF Good
    <2>3. p.place = "range" => Good(Open(c))
      <3>1. SUFFICES ASSUME p.place = "range" PROVE Good(Open(c))
        OBVIOUS
      <3>2. PICK v : Interval(Open(c)) = p.from..v /\ <<p.from, v>> \in Pairs
        BY <1>1, <3>1, OpenMeans
      <3>3. p.from \in Items /\ v \in Items /\ p.from <= v /\ Count \in Nat
        BY <3>2, SelectionAssumption DEF Pairs
      <3>4. p.from \in p.from..v /\ p.from..v \subseteq Items
        BY <3>3 DEF Items
      <3> QED
        BY <3>2, <3>4 DEF Good
    <2>4. q.place = (IF p.place \in {"from", "range"} /\ Good(Open(c)) THEN "start" ELSE "bad")
      BY <2>1, <2>2, <2>3
    <2>5. \A F, P : F = Items /\ P = Pairs => Reading(q, d, F, P)'
      BY <1>1, <1>3, <1>7, <2>4, ReadingComma
    <2>6. Reading(q, d, Items, Pairs)'
      <3> PICK F, P : F = Items /\ P = Pairs
        OBVIOUS
      <3>1. Reading(q, d, F, P)'
        BY <2>5
      <3> QED
        BY <1>5, <3>1, ZenonT(30) DEF Reading, Ruined, Stem
    <2>7. Chosen' = Chosen \cup Interval(Open(c))
      BY <1>7, ChosenMoves
    <2>8. q.place # "bad" => q.sel = Chosen'
      <3> SUFFICES ASSUME q.place # "bad" PROVE q.sel = Chosen'
        OBVIOUS
      <3>1. p.place \in {"from", "range"}
        BY <2>1
      <3>2. p.sel = Chosen \cup (IF p.place = "range" THEN Interval(Open(c)) ELSE {})
        BY <3>1 DEF SpecReads
      <3> QED
        BY <2>1, <2>2, <2>7, <3>1, <3>2
    <2>9. q.place # "range"
      BY <2>1
    <2> QED
      BY <1>4, <2>6, <2>8, <2>9 DEF SpecReads
  <1> QED
    BY <1>6, <1>7

LEMMA GoodMeans ==
    ASSUME NEW f, NEW a \in Int, NEW b \in Int, Interval(f) = a..b
    PROVE  Good(f) <=> InRange(a, b)
  <1>1. Count \in Nat
    BY SelectionAssumption
  <1>2. InRange(a, b) => Good(f)
    <2>1. SUFFICES ASSUME InRange(a, b) PROVE Good(f)
      OBVIOUS
    <2>2. 1 <= a /\ a <= b /\ b <= Count
      BY <2>1 DEF InRange
    <2>3. a \in a..b /\ a..b \subseteq Items
      BY <1>1, <2>2 DEF Items
    <2> QED
      BY <2>3 DEF Good
  <1>3. Good(f) => InRange(a, b)
    <2>1. SUFFICES ASSUME Good(f) PROVE InRange(a, b)
      OBVIOUS
    <2>2. PICK x \in a..b : TRUE
      BY <2>1 DEF Good
    <2>3. a <= b /\ a \in a..b /\ b \in a..b
      BY <2>2
    <2>4. a \in Items /\ b \in Items
      BY <2>1, <2>3 DEF Good
    <2> QED
      BY <1>1, <2>3, <2>4 DEF Items, InRange
  <1> QED
    BY <1>2, <1>3

LEMMA LineTyped ==
    ASSUME tokens \in Seq(Tokens), NEW t \in Tokens, tokens' = Append(tokens, t),
           NEW c, LastComma(c), NEW p \in LineStates, LineReads(p, c),
           NEW q, q = LineToken(p, t), NEW d, d = (IF t.kind = "comma" THEN Len(tokens) + 1 ELSE c)
    PROVE  q \in LineStates /\ LineReads(q, d)'
  <1>1. Reading(p, c, Values, AnyPair)
    BY DEF LineReads
  <1>2. Accepts(Values, AnyPair)
    BY ReadersAccept
  <1>3. q \in LineStates
    BY LineMoves
  <1>4. Values' = Values /\ AnyPair' = AnyPair
    BY DEF Values, AnyPair
  <1>5. CASE t.kind # "comma"
    <2>1. /\ Moves(p, q, t, Values, AnyPair)
          /\ q.sel = p.sel
          /\ q.place = "from" => \/ q.to = q.from
                                 \/ p.place = "from" /\ q.from = p.from /\ q.to = p.to
          /\ q.place = "range" => /\ q.from = p.from
                                  /\ \/ p.place = "range" /\ q.to = p.to
                                     \/ p.place = "second" /\ q.to = t.v
      BY <1>5, LineMoves
    <2>2. \A F, P : F = Values /\ P = AnyPair => Reading(q, c, F, P)'
      BY <1>1, <1>2, <1>5, <2>1, ReadingMoves
    <2>3. Reading(q, c, Values, AnyPair)'
      <3> PICK F, P : F = Values /\ P = AnyPair
        OBVIOUS
      <3>1. Reading(q, c, F, P)'
        BY <2>2
      <3> QED
        BY <1>4, <3>1, ZenonT(30) DEF Reading, Ruined, Stem
    <2>4. Chosen' = Chosen
      BY <1>5, ChosenMoves
    <2>5. /\ q.place = "from" => Interval(Open(c))' = q.from..q.from
          /\ p.place = "range" /\ q.place = "range" => Interval(Open(c))' = Interval(Open(c))
          /\ p.place = "second" /\ q.place = "range" => Interval(Open(c))' = p.from..t.v
      BY <1>1, <1>2, <1>5, <2>1, OpenMoves
    <2>6. q.place = "from" => q.to = q.from
      BY <2>1 DEF LineReads
    <2>7. q.place \in {"from", "range"} => Interval(Open(c))' = q.from..q.to
      BY <2>1, <2>5, <2>6 DEF LineReads
    <2>8. q.place # "bad" => q.sel = Chosen'
      BY <2>1, <2>4 DEF LineReads, Moves
    <2>9. d = c
      BY <1>5
    <2> QED
      BY <1>3, <2>3, <2>6, <2>7, <2>8, <2>9 DEF LineReads
  <1>6. CASE t.kind = "comma"
    <2>1. /\ q.place = IF p.place \in {"from", "range"} /\ InRange(p.from, p.to) THEN "start" ELSE "bad"
          /\ q.place = "start" => q.sel = p.sel \cup p.from..p.to
      BY <1>6, LineMoves
    <2>2. p.from \in Int /\ p.to \in Int
      BY SelectionAssumption DEF LineStates, Values
    <2>3. p.place \in {"from", "range"} => Interval(Open(c)) = p.from..p.to
      BY DEF LineReads
    <2>4. q.place = (IF p.place \in {"from", "range"} /\ Good(Open(c)) THEN "start" ELSE "bad")
      BY <2>1, <2>2, <2>3, GoodMeans
    <2>5. \A F, P : F = Values /\ P = AnyPair => Reading(q, d, F, P)'
      BY <1>1, <1>2, <1>6, <2>4, ReadingComma
    <2>6. Reading(q, d, Values, AnyPair)'
      <3> PICK F, P : F = Values /\ P = AnyPair
        OBVIOUS
      <3>1. Reading(q, d, F, P)'
        BY <2>5
      <3> QED
        BY <1>4, <3>1, ZenonT(30) DEF Reading, Ruined, Stem
    <2>7. Chosen' = Chosen \cup Interval(Open(c))
      BY <1>6, ChosenMoves
    <2>8. q.place # "bad" => q.sel = Chosen'
      BY <2>1, <2>3, <2>7 DEF LineReads
    <2>9. q.place \notin {"from", "range"}
      BY <2>1
    <2> QED
      BY <1>3, <2>6, <2>8, <2>9 DEF LineReads
  <1> QED
    BY <1>5, <1>6

LEMMA ListStep == ListInv /\ [SelectionNext]_selvars => ListInv'
  <1> SUFFICES ASSUME ListInv, [SelectionNext]_selvars PROVE ListInv'
    OBVIOUS
  <1>1. CASE Type
    <2>1. PICK t \in Tokens : /\ tokens' = Append(tokens, t)
                              /\ spec' = SpecToken(spec, t)
                              /\ line' = LineToken(line, t)
      BY <1>1 DEF Type
    <2>2. PICK c : LastComma(c) /\ SpecReads(spec, c) /\ LineReads(line, c)
      BY DEF ListInv
    <2>3. PICK p, q, l, m : p = spec /\ q = spec' /\ l = line /\ m = line'
      OBVIOUS
    <2>4. tokens \in Seq(Tokens) /\ p \in SpecStates /\ l \in LineStates
      BY <2>3 DEF ListInv
    <2>5. PICK d : d = (IF t.kind = "comma" THEN Len(tokens) + 1 ELSE c)
      OBVIOUS
    <2>6. q \in SpecStates /\ SpecReads(q, d)'
      BY <2>1, <2>2, <2>3, <2>4, <2>5, SpecTyped
    <2>7. m \in LineStates /\ LineReads(m, d)'
      BY <2>1, <2>2, <2>3, <2>4, <2>5, LineTyped
    <2>8. LastComma(d)' /\ tokens' \in Seq(Tokens)
      BY <2>1, <2>2, <2>4, <2>5, Longer, AfterComma, Appended
    <2>9. SpecReads(spec, d)' /\ LineReads(line, d)'
      BY <2>3, <2>6, <2>7 DEF SpecReads, LineReads, Reading
    <2> QED
      BY <2>3, <2>6, <2>7, <2>8, <2>9 DEF ListInv
  <1>2. CASE UNCHANGED listvars
    <2>1. tokens' = tokens /\ spec' = spec /\ line' = line
      BY <1>2 DEF listvars
    <2>2. /\ \A f : Marks(f)' = Marks(f) /\ Ends(f)' = Ends(f) /\ Interval(f)' = Interval(f)
          /\ Closed' = Closed
          /\ \A c : LastComma(c)' = LastComma(c)
          /\ \A c : Open(c)' = Open(c)
      BY <2>1 DEF Marks, Ends, Interval, Closed, Fields, Commas, LastComma, Open
    <2>3. Chosen' = Chosen /\ \A f : Good(f)' <=> Good(f)
      BY <2>2 DEF Chosen, Good, Items
    <2>4. /\ \A f, i : One(f, i)' <=> One(f, i)
          /\ \A f, i, j : Two(f, i, j)' <=> Two(f, i, j)
          /\ \A f, i, j, m : Three(f, i, j, m)' <=> Three(f, i, j, m)
      BY <2>1, <2>2 DEF One, Two, Three
    <2>5. \A c, F, P : Ruined(c, F, P)' <=> Ruined(c, F, P)
      <3>1. \A f, F, P : Stem(f, F, P)' <=> Stem(f, F, P)
        BY <2>1, <2>2, <2>4 DEF Stem
      <3> QED
        BY <2>2, <2>3, <3>1 DEF Ruined
    <2>6. ASSUME NEW r, NEW c, NEW F, NEW P, Reading(r, c, F, P) PROVE Reading(r, c, F, P)'
      <3>1. Open(c)' = Open(c) /\ Marks(Open(c))' = Marks(Open(c)) /\ Closed' = Closed
        BY <2>2
      <3>2. IF r.place = "bad" THEN Ruined(c, F, P)' ELSE \A f \in Closed : Good(f)'
        <4>1. IF r.place = "bad" THEN Ruined(c, F, P) ELSE \A f \in Closed : Good(f)
          BY <2>6 DEF Reading
        <4> QED
          BY <2>3, <2>5, <4>1
      <3>3. /\ r.place \in {"start", "first", "from", "second", "range", "bad"}
            /\ r.place = "start" => c = Len(tokens)
            /\ r.place \in {"start", "first"} => Marks(Open(c)) = {}
            /\ r.place = "first" => c # Len(tokens)
        BY <2>6 DEF Reading
      <3>4. r.place = "from" => \E i \in Marks(Open(c))' : One(Open(c), i)' /\ tokens'[i].v = r.from /\ r.from \in F
        BY <2>1, <2>6, <3>1, <2>4 DEF Reading, One
      <3>5. r.place = "second" =>
              \E i, j \in Marks(Open(c))' : Two(Open(c), i, j)' /\ tokens'[i].v = r.from /\ r.from \in F
        BY <2>1, <2>6, <3>1 DEF Reading, Two
      <3>6. r.place = "range" =>
              \E i, j, m \in Marks(Open(c))' :
                 Three(Open(c), i, j, m)' /\ tokens'[i].v = r.from /\ <<tokens'[i].v, tokens'[m].v>> \in P
        BY <2>1, <2>6, <3>1 DEF Reading, Three
      <3> QED
        BY <2>1, <3>1, <3>2, <3>3, <3>4, <3>5, <3>6 DEF Reading
    <2>7. Items' = Items /\ Pairs' = Pairs /\ Values' = Values /\ AnyPair' = AnyPair
      BY DEF Items, Pairs, Values, AnyPair
    <2>8. ASSUME NEW p, NEW c, SpecReads(p, c) PROVE SpecReads(p, c)'
      <3>1. Reading(p, c, Items, Pairs)'
        <4> PICK F, P : F = Items /\ P = Pairs
          OBVIOUS
        <4>1. Reading(p, c, F, P)'
          BY <2>6, <2>8 DEF SpecReads
        <4> QED
          BY <2>7, <4>1, ZenonT(30) DEF Reading, Ruined, Stem
      <3>2. Chosen' = Chosen /\ Interval(Open(c))' = Interval(Open(c))
        BY <2>2, <2>3
      <3> QED
        BY <2>8, <3>1, <3>2 DEF SpecReads
    <2>9. ASSUME NEW p, NEW c, LineReads(p, c) PROVE LineReads(p, c)'
      <3>1. Reading(p, c, Values, AnyPair)'
        <4> PICK F, P : F = Values /\ P = AnyPair
          OBVIOUS
        <4>1. Reading(p, c, F, P)'
          BY <2>6, <2>9 DEF LineReads
        <4> QED
          BY <2>7, <4>1, ZenonT(30) DEF Reading, Ruined, Stem
      <3>2. Chosen' = Chosen /\ Interval(Open(c))' = Interval(Open(c))
        BY <2>2, <2>3
      <3> QED
        BY <2>9, <3>1, <3>2 DEF LineReads
    <2> QED
      BY <2>1, <2>2, <2>8, <2>9 DEF ListInv
  <1> QED
    <2>1. Type \/ UNCHANGED listvars
      BY DEF SelectionNext, selvars, Handlers, SetRaw, EnterFails, SetActive, Draw, Read, Resize, Key, Down, Up, Top, Bottom,
             Toggle, ToggleAll, Redraw, Finish, Leave, SetBack, HandlersBack, Signal, Restored
    <2> QED
      BY <1>1, <1>2, <2>1

(* Where the list could end now, it means what has been read of it.           *)
LEMMA ListEnds ==
    ASSUME tokens \in Seq(Tokens), NEW c, LastComma(c), NEW F, NEW P, Accepts(F, P),
           NEW r, Reading(r, c, F, P)
    PROVE  /\ Meaning = Chosen \cup Interval(Open(c))
           /\ r.place = "start" => WellFormed
           /\ r.place \in {"first", "second", "bad"} => ~WellFormed
           /\ r.place \in {"from", "range"} => (WellFormed <=> Good(Open(c)))
  <1>1. /\ Fields = Closed \cup {Open(c)}
        /\ Missing(Open(c)) <=> c = Len(tokens)
        /\ \A f \in Closed : ~Missing(f)
    BY FieldsAre
  <1>2. WellFormed <=> (\A f \in Closed : Good(f)) /\ (c = Len(tokens) \/ Good(Open(c)))
    BY <1>1 DEF WellFormed, Good
  <1>3. Meaning = Chosen \cup Interval(Open(c))
    BY <1>1 DEF Meaning, Chosen
  <1>4. /\ r.place \in {"start", "first", "second"} => Interval(Open(c)) = {}
        /\ r.place \notin {"start", "first", "bad"} => c # Len(tokens)
        /\ c = Len(tokens) => Marks(Open(c)) = {}
    BY OpenMeans
  <1>5. Interval(Open(c)) = {} => ~Good(Open(c))
    BY DEF Good
  <1>6. /\ r.place = "start" => c = Len(tokens)
        /\ r.place = "first" => c # Len(tokens)
        /\ IF r.place = "bad" THEN Ruined(c, F, P) ELSE \A f \in Closed : Good(f)
    BY DEF Reading
  <1>7. r.place = "bad" => ~WellFormed
    <2>1. SUFFICES ASSUME r.place = "bad" PROVE ~WellFormed
      OBVIOUS
    <2>2. CASE \E f \in Closed : ~Good(f)
      BY <1>2, <2>2
    <2>3. CASE ~Stem(Open(c), F, P)
      <3>1. ~Good(Open(c))
        BY <2>3, GoodStem, OpenMarks
      <3>2. Marks(Open(c)) # {}
        BY <2>3 DEF Stem
      <3> QED
        BY <1>2, <1>4, <3>1, <3>2
    <2> QED
      BY <1>6, <2>1, <2>2, <2>3 DEF Ruined
  <1> QED
    BY <1>2, <1>3, <1>4, <1>5, <1>6, <1>7

LEMMA ListMeans == ListInv => ListsRight
  <1> SUFFICES ASSUME ListInv PROVE ListsRight
    OBVIOUS
  <1>1. PICK c : LastComma(c) /\ SpecReads(spec, c) /\ LineReads(line, c)
    BY DEF ListInv
  <1>2. PICK p, l : p = spec /\ l = line
    OBVIOUS
  <1>3. /\ tokens \in Seq(Tokens) /\ p \in SpecStates /\ l \in LineStates
        /\ Reading(p, c, Items, Pairs) /\ Reading(l, c, Values, AnyPair)
        /\ Accepts(Items, Pairs) /\ Accepts(Values, AnyPair)
    BY <1>1, <1>2, ReadersAccept DEF ListInv, SpecReads, LineReads
  <1>4. Meaning = Chosen \cup Interval(Open(c))
    BY <1>1, <1>3, ListEnds
  <1>5. SpecEnd(p).ok = (WellFormed /\ Meaning # {}) /\ (SpecEnd(p).ok => SpecEnd(p).sel = Meaning)
    <2> PICK taken : taken = IF p.place = "from" THEN p.sel \cup {p.from} ELSE p.sel
      OBVIOUS
    <2>1. SpecEnd(p).ok = (p.place \in {"start", "from", "range"} /\ taken # {}) /\ SpecEnd(p).sel = taken
      BY DEF SpecEnd
    <2>2. p.place # "bad" => p.sel = Chosen \cup (IF p.place = "range" THEN Interval(Open(c)) ELSE {})
      BY <1>1, <1>2 DEF SpecReads
    <2>3. /\ p.place = "start" => WellFormed
          /\ p.place \in {"first", "second", "bad"} => ~WellFormed
          /\ p.place \in {"from", "range"} => (WellFormed <=> Good(Open(c)))
      BY <1>1, <1>3, ListEnds
    <2>4. /\ p.place = "start" => Interval(Open(c)) = {}
          /\ p.place = "from" => Interval(Open(c)) = p.from..p.from /\ p.from \in Items
          /\ p.place = "range" => \E v : Interval(Open(c)) = p.from..v /\ <<p.from, v>> \in Pairs
      BY <1>1, <1>3, OpenMeans
    <2>5. Count \in Nat
      BY SelectionAssumption
    <2>6. CASE p.place = "start"
      BY <1>4, <2>1, <2>2, <2>3, <2>4, <2>6
    <2>7. CASE p.place = "from"
      <3>1. Interval(Open(c)) = {p.from} /\ p.from \in Items
        BY <2>4, <2>7 DEF Items
      <3>2. Good(Open(c))
        BY <3>1 DEF Good
      <3> QED
        BY <1>4, <2>1, <2>2, <2>3, <2>7, <3>1, <3>2
    <2>8. CASE p.place = "range"
      <3>1. PICK v : Interval(Open(c)) = p.from..v /\ <<p.from, v>> \in Pairs
        BY <2>4, <2>8
      <3>2. p.from \in Items /\ v \in Items /\ p.from <= v
        BY <3>1 DEF Pairs
      <3>3. p.from \in Interval(Open(c)) /\ p.from..v \subseteq Items
        BY <2>5, <3>1, <3>2 DEF Items
      <3>4. Good(Open(c))
        BY <3>1, <3>3 DEF Good
      <3> QED
        BY <1>4, <2>1, <2>2, <2>3, <2>8, <3>3, <3>4
    <2>9. CASE p.place \in {"first", "second", "bad"}
      BY <2>1, <2>3, <2>9
    <2> QED
      BY <1>3, <2>6, <2>7, <2>8, <2>9 DEF Reading
  <1>6. ASSUME ~IsAll, ~(IsBlank /\ inline)
        PROVE  LineEnd(l).ok = (WellFormed /\ Meaning # {}) /\ (LineEnd(l).ok => LineEnd(l).sel = Meaning)
    <2>1. LineEnd(l) = IF l.place \in {"from", "range"}
                       THEN [ok |-> InRange(l.from, l.to), sel |-> l.sel \cup l.from..l.to]
                       ELSE [ok |-> l.place = "start" /\ l.sel # {}, sel |-> l.sel]
      BY <1>6 DEF LineEnd
    <2>2. /\ l.place # "bad" => l.sel = Chosen
          /\ l.place \in {"from", "range"} => Interval(Open(c)) = l.from..l.to
      BY <1>1, <1>2 DEF LineReads
    <2>3. /\ l.place = "start" => WellFormed
          /\ l.place \in {"first", "second", "bad"} => ~WellFormed
          /\ l.place \in {"from", "range"} => (WellFormed <=> Good(Open(c)))
      BY <1>1, <1>3, ListEnds
    <2>4. l.place = "start" => Interval(Open(c)) = {}
      BY <1>1, <1>3, OpenMeans
    <2>5. CASE l.place \in {"from", "range"}
      <3>1. l.from \in Int /\ l.to \in Int
        BY <1>3, SelectionAssumption DEF LineStates, Values
      <3>2. Good(Open(c)) <=> InRange(l.from, l.to)
        BY <2>2, <2>5, <3>1, GoodMeans
      <3>3. Good(Open(c)) => Meaning # {}
        BY <1>4 DEF Good
      <3>4. LineEnd(l).ok = InRange(l.from, l.to) /\ LineEnd(l).sel = l.sel \cup l.from..l.to
        BY <2>1, <2>5
      <3>5. InRange(l.from, l.to) \in BOOLEAN
        BY DEF InRange
      <3> QED
        BY <1>4, <2>2, <2>3, <2>5, <3>2, <3>3, <3>4, <3>5
    <2>6. CASE l.place \notin {"from", "range"}
      <3>1. LineEnd(l).ok = (l.place = "start" /\ l.sel # {}) /\ LineEnd(l).sel = l.sel
        BY <2>1, <2>6
      <3>2. l.place \in {"start", "first", "second", "bad"}
        BY <1>3, <2>6 DEF Reading
      <3> QED
        BY <1>4, <2>2, <2>3, <2>4, <3>1, <3>2
    <2> QED
      BY <2>5, <2>6
  <1> QED
    BY <1>2, <1>5, <1>6 DEF ListsRight

(* Lists of numbers, ListsRight: extractor_parse_episodes and tui_apply_spec  *)
(* accept the same lists and choose the same items, those that the fields of  *)
(* the list name together, whatever the list and however many items there     *)
(* are.                                                                       *)
THEOREM ListsAlwaysRight == SelectionSpec => []ListsRight
  <1>1. ListInv /\ UNCHANGED selvars => ListInv'
    BY ListStep
  <1> QED
    BY ListStart, ListStep, ListMeans, PTL DEF SelectionSpec

=============================================================================
