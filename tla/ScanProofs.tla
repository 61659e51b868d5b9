----------------------------- MODULE ScanProofs -----------------------------
(***************************************************************************)
(* Proofs about pages and the configs for them: that of a page the right   *)
(* config, episodes and media URLs are had, whatever the configs and the   *)
(* pages are; that steps lead to the media that a scan finds; and that the *)
(* config which the scanner writes gives what was found, and was chosen.   *)
(***************************************************************************)
EXTENDS PageScan, LoopProofs, FiniteSetTheorems

-----------------------------------------------------------------------------
(***************************************************************************)
(* Configs: what the parser has after each line                            *)
(***************************************************************************)
LEMMA ListIsSeq ==
    ASSUME NEW s, IsList(s)
    PROVE  /\ s \in Seq({s[i] : i \in 1..Len(s)})
           /\ DOMAIN s = 1..Len(s) /\ Len(s) \in Nat
  <1> PICK n : n = Len(s)
    OBVIOUS
  <1>1. n \in Nat /\ s = [i \in 1..n |-> s[i]]
    BY DEF IsList
  <1> QED
    BY <1>1

LEMMA SeqIsList ==
    ASSUME NEW S, NEW s \in Seq(S)
    PROVE  IsList(s)
  BY DEF IsList

(* Whatever stands in a line.                                                 *)
Written(lines) == {None} \cup UNION {{lines[i].kw, lines[i].name, lines[i].source, lines[i].arg} : i \in 1..Len(lines)}

DirectiveOf(S) == [kw : S, name : S, source : S, arg : S, headers : Seq(S)]

ConfigSet(S) ==
    [name : S, matches : Seq(S), directives : Seq(DirectiveOf(S)), lastget : Nat, error : BOOLEAN]

WithHeader(d, l, h) == [d EXCEPT ![l].headers = Append(@, h)]

LEMMA HeaderAdded ==
    ASSUME NEW S, NEW d \in Seq(DirectiveOf(S)), NEW l, NEW h \in S
    PROVE  /\ WithHeader(d, l, h) \in Seq(DirectiveOf(S)) /\ Len(WithHeader(d, l, h)) = Len(d)
           /\ \A i \in 1..Len(d) : i # l => WithHeader(d, l, h)[i] = d[i]
           /\ l \in 1..Len(d) => /\ WithHeader(d, l, h)[l].kw = d[l].kw
                                 /\ WithHeader(d, l, h)[l].name = d[l].name
                                 /\ WithHeader(d, l, h)[l].source = d[l].source
                                 /\ WithHeader(d, l, h)[l].arg = d[l].arg
                                 /\ Len(WithHeader(d, l, h)[l].headers) = Len(d[l].headers) + 1
  <1> PICK n : n = Len(d)
    OBVIOUS
  <1> DEFINE w == [d EXCEPT ![l].headers = Append(@, h)]
             one == [d[l] EXCEPT !.headers = Append(@, h)]
  <1>1. n \in Nat /\ DOMAIN d = 1..n /\ \A i \in 1..n : d[i] \in DirectiveOf(S)
    OBVIOUS
  <1>2. w = [i \in 1..n |-> IF i = l THEN one ELSE d[i]]
    BY <1>1
  <1>3. l \in 1..n => one \in DirectiveOf(S) /\ one.kw = d[l].kw /\ one.name = d[l].name
                        /\ one.source = d[l].source /\ one.arg = d[l].arg /\ Len(one.headers) = Len(d[l].headers) + 1
    <2> SUFFICES ASSUME l \in 1..n
                 PROVE  one \in DirectiveOf(S) /\ one.kw = d[l].kw /\ one.name = d[l].name
                          /\ one.source = d[l].source /\ one.arg = d[l].arg /\ Len(one.headers) = Len(d[l].headers) + 1
      OBVIOUS
    <2> PICK r : r = d[l]
      OBVIOUS
    <2>1. r \in [kw : S, name : S, source : S, arg : S, headers : Seq(S)]
      BY <1>1 DEF DirectiveOf
    <2>2. /\ [r EXCEPT !.headers = Append(@, h)] \in [kw : S, name : S, source : S, arg : S, headers : Seq(S)]
          /\ [r EXCEPT !.headers = Append(@, h)].headers = Append(r.headers, h)
          /\ [r EXCEPT !.headers = Append(@, h)].kw = r.kw
          /\ [r EXCEPT !.headers = Append(@, h)].name = r.name
          /\ [r EXCEPT !.headers = Append(@, h)].source = r.source
          /\ [r EXCEPT !.headers = Append(@, h)].arg = r.arg
      BY <2>1
    <2>3. Len(Append(r.headers, h)) = Len(r.headers) + 1
      BY <2>1
    <2> QED
      BY <2>2, <2>3 DEF DirectiveOf
  <1> HIDE DEF one
  <1> HIDE DEF w
  <1>4. w \in Seq(DirectiveOf(S)) /\ Len(w) = n /\ \A i \in 1..n : w[i] = IF i = l THEN one ELSE d[i]
    <2>1. \A i \in 1..n : (IF i = l THEN one ELSE d[i]) \in DirectiveOf(S)
      BY <1>1, <1>3
    <2>2. w \in [1..n -> DirectiveOf(S)]
      BY <1>2, <2>1
    <2> QED
      BY <1>1, <1>2, <2>2
  <1>5. w = WithHeader(d, l, h)
    BY DEF w, WithHeader
  <1> QED
    BY <1>3, <1>4, <1>5

Records(N, M, D, L, E) == [name : N, matches : M, directives : D, lastget : L, error : E]

Holds(c, n, m, d, l, e) == c.name = n /\ c.matches = m /\ c.directives = d /\ c.lastget = l /\ c.error = e

LEMMA Updates ==
    ASSUME NEW N, NEW M, NEW D, NEW L, NEW E,
           NEW c \in Records(N, M, D, L, E)
    PROVE  /\ \A x \in E : LET p == [c EXCEPT !.error = x]
                           IN  /\ p \in Records(N, M, D, L, E)
                               /\ Holds(p, c.name, c.matches, c.directives, c.lastget, x)
           /\ \A x \in D : LET p == [c EXCEPT !.directives = x]
                           IN  /\ p \in Records(N, M, D, L, E)
                               /\ Holds(p, c.name, c.matches, x, c.lastget, c.error)
           /\ \A x \in N, y \in L : LET p == [c EXCEPT !.name = x, !.lastget = y]
                           IN  /\ p \in Records(N, M, D, L, E)
                               /\ Holds(p, x, c.matches, c.directives, y, c.error)
           /\ \A x \in M, y \in L : LET p == [c EXCEPT !.matches = x, !.lastget = y]
                           IN  /\ p \in Records(N, M, D, L, E)
                               /\ Holds(p, c.name, x, c.directives, y, c.error)
           /\ \A x \in D, y \in L : LET p == [c EXCEPT !.directives = x, !.lastget = y]
                           IN  /\ p \in Records(N, M, D, L, E)
                               /\ Holds(p, c.name, c.matches, x, y, c.error)
  BY DEF Holds, Records

(* The five things that a line can do to a config.                            *)
Takes(p, c, entry) ==
    /\ c.error \/ Bad(c, entry) => Holds(p, c.name, c.matches, c.directives, c.lastget, TRUE)
    /\ ~(c.error \/ Bad(c, entry)) =>
         /\ entry.kw = "header" =>
              Holds(p, c.name, c.matches, WithHeader(c.directives, c.lastget, entry.arg), c.lastget, c.error)
         /\ entry.kw = "name" => Holds(p, entry.arg, c.matches, c.directives, 0, c.error)
         /\ entry.kw = "match" => Holds(p, c.name, Append(c.matches, entry.arg), c.directives, 0, c.error)
         /\ entry.kw \in Kinds =>
              Holds(p, c.name, c.matches, Append(c.directives, Directive(entry)),
                     IF entry.kw = "get" THEN Len(c.directives) + 1 ELSE 0, c.error)

LEMMA LineDoes ==
    ASSUME NEW S, NEW c \in ConfigSet(S), NEW entry,
           entry.kw \in S, entry.name \in S, entry.source \in S, entry.arg \in S
    PROVE  ParseLine(c, entry) \in ConfigSet(S) /\ Takes(ParseLine(c, entry), c, entry)
  <1> PICK N, M, D, L, E : N = S /\ M = Seq(S) /\ D = Seq(DirectiveOf(S)) /\ L = Nat /\ E = BOOLEAN
    OBVIOUS
  <1> PICK R : R = Records(N, M, D, L, E)
    OBVIOUS
  <1> PICK n, m, d, l, e, k, g : /\ n = entry.arg /\ m = Append(c.matches, entry.arg)
                                 /\ d = Append(c.directives, Directive(entry)) /\ e = TRUE /\ k = 0
                                 /\ l = (IF entry.kw = "get" THEN Len(c.directives) + 1 ELSE 0)
                                 /\ g = WithHeader(c.directives, c.lastget, entry.arg)
    OBVIOUS
  <1> PICK p : p = ParseLine(c, entry)
    OBVIOUS
  <1> SUFFICES p \in R /\ Takes(p, c, entry)
    BY DEF ConfigSet, Records
  <1>1. c \in R
    BY DEF ConfigSet, Records
  <1>2. c.name \in N /\ c.matches \in M /\ c.directives \in D /\ c.lastget \in L /\ c.error \in E
    BY <1>1 DEF Records
  <1>3. n \in N /\ m \in M /\ e \in E /\ k \in L
    BY <1>2
  <1>4. d \in D /\ l \in L
    <2>1. Directive(entry) \in DirectiveOf(S)
      BY DEF Directive, DirectiveOf
    <2>2. Len(c.directives) + 1 \in Nat /\ 0 \in Nat
      BY <1>2
    <2> QED
      BY <1>2, <2>1, <2>2
  <1>5. g \in D
    BY <1>2, HeaderAdded
  <1>6. CASE c.error \/ Bad(c, entry)
    <2>0. ParseLine(c, entry) = [c EXCEPT !.error = e]
      BY <1>6 DEF ParseLine
    <2>1. p = [c EXCEPT !.error = e]
      BY Zenon, <2>0
    <2>2. [c EXCEPT !.error = e] \in R /\ Holds([c EXCEPT !.error = e], c.name, c.matches, c.directives, c.lastget, e)
      BY <1>1, <1>3, Updates
    <2>3. p \in R /\ Holds(p, c.name, c.matches, c.directives, c.lastget, e)
      BY Zenon, <2>1, <2>2
    <2> QED
      BY <1>6, <2>3 DEF Takes, Holds, Kinds
  <1>7. CASE ~(c.error \/ Bad(c, entry)) /\ entry.kw = "header"
    <2>0. ParseLine(c, entry) = [c EXCEPT !.directives = g]
      BY <1>7 DEF ParseLine, WithHeader
    <2>1. p = [c EXCEPT !.directives = g]
      BY Zenon, <2>0
    <2>2. /\ [c EXCEPT !.directives = g] \in R
          /\ Holds([c EXCEPT !.directives = g], c.name, c.matches, g, c.lastget, c.error)
      BY <1>1, <1>5, Updates
    <2>3. p \in R /\ Holds(p, c.name, c.matches, g, c.lastget, c.error)
      BY Zenon, <2>1, <2>2
    <2> QED
      BY <1>7, <2>3 DEF Takes, Holds, Kinds
  <1>8. CASE ~(c.error \/ Bad(c, entry)) /\ entry.kw = "name"
    <2>0. ParseLine(c, entry) = [c EXCEPT !.name = n, !.lastget = k]
      BY <1>8 DEF ParseLine
    <2>1. p = [c EXCEPT !.name = n, !.lastget = k]
      BY Zenon, <2>0
    <2>2. /\ [c EXCEPT !.name = n, !.lastget = k] \in R
          /\ Holds([c EXCEPT !.name = n, !.lastget = k], n, c.matches, c.directives, k, c.error)
      BY <1>1, <1>3, Updates
    <2>3. p \in R /\ Holds(p, n, c.matches, c.directives, k, c.error)
      BY Zenon, <2>1, <2>2
    <2> QED
      BY <1>8, <2>3 DEF Takes, Holds, Kinds
  <1>9. CASE ~(c.error \/ Bad(c, entry)) /\ entry.kw = "match"
    <2>0. ParseLine(c, entry) = [c EXCEPT !.matches = m, !.lastget = k]
      BY <1>9 DEF ParseLine
    <2>1. p = [c EXCEPT !.matches = m, !.lastget = k]
      BY Zenon, <2>0
    <2>2. /\ [c EXCEPT !.matches = m, !.lastget = k] \in R
          /\ Holds([c EXCEPT !.matches = m, !.lastget = k], c.name, m, c.directives, k, c.error)
      BY <1>1, <1>3, Updates
    <2>3. p \in R /\ Holds(p, c.name, m, c.directives, k, c.error)
      BY Zenon, <2>1, <2>2
    <2> QED
      BY <1>9, <2>3 DEF Takes, Holds, Kinds
  <1>10. CASE ~(c.error \/ Bad(c, entry)) /\ entry.kw \notin {"header", "name", "match"}
    <2>0. ParseLine(c, entry) = [c EXCEPT !.directives = d, !.lastget = l]
      BY <1>10 DEF ParseLine
    <2>1. p = [c EXCEPT !.directives = d, !.lastget = l]
      BY Zenon, <2>0
    <2>2. /\ [c EXCEPT !.directives = d, !.lastget = l] \in R
          /\ Holds([c EXCEPT !.directives = d, !.lastget = l], c.name, c.matches, d, l, c.error)
      BY <1>1, <1>4, Updates
    <2>3. p \in R /\ Holds(p, c.name, c.matches, d, l, c.error)
      BY Zenon, <2>1, <2>2
    <2> QED
      BY <1>10, <2>3 DEF Takes, Holds, Kinds
  <1> QED
    BY <1>6, <1>7, <1>8, <1>9, <1>10

(* What the recursion of Parse comes to.                                      *)
After(lines, c) ==
    /\ c[0] = NoConfig
    /\ \A i \in 1..Len(lines) : c[i] = ParseLine(c[i - 1], lines[i])
    /\ \A i \in 0..Len(lines) : c[i] \in ConfigSet(Written(lines))
    /\ Parse(lines) = [c[Len(lines)] EXCEPT !.error = @ \/ c[Len(lines)].name = None \/ ~Has(c[Len(lines)], "output")]

LEMMA ParseRuns ==
    ASSUME NEW lines, Len(lines) \in Nat
    PROVE  \E c : After(lines, c)
  <1> PICK n : n = Len(lines)
    OBVIOUS
  <1> PICK V : V = ConfigSet(Written(lines))
    OBVIOUS
  <1> DEFINE next == [p \in (1..n) \X V |-> ParseLine(p[2], lines[p[1]])]
             Pass(h) == [i \in 0..n |-> IF i = 0 THEN NoConfig ELSE ParseLine(h[i - 1], lines[i])]
             c == CHOOSE h : h = Pass(h)
  <1>1. \A i \in 1..n, b \in V : ParseLine(b, lines[i]) \in V
    <2> SUFFICES ASSUME NEW i \in 1..n, NEW b \in V PROVE ParseLine(b, lines[i]) \in V
      OBVIOUS
    <2> PICK S : S = Written(lines)
      OBVIOUS
    <2>1. lines[i].kw \in S /\ lines[i].name \in S /\ lines[i].source \in S /\ lines[i].arg \in S
      BY DEF Written
    <2> QED
      BY <2>1, LineDoes
  <1>2. NoConfig \in V
    <2> PICK S : S = Written(lines)
      OBVIOUS
    <2>1. None \in S /\ <<>> \in Seq(S) /\ <<>> \in Seq(DirectiveOf(S)) /\ 0 \in Nat /\ FALSE \in BOOLEAN
      BY DEF Written
    <2> QED
      BY <2>1 DEF NoConfig, ConfigSet
  <1>3. next \in [(1..n) \X V -> V]
    BY <1>1
  <1>4. \A i \in 1..n, b \in V : next[<<i, b>>] = ParseLine(b, lines[i])
    OBVIOUS
  <1>5. PICK g : Runs(g, n, V, NoConfig, next)
    <2> HIDE DEF next
    <2> QED
      BY <1>2, <1>3, LoopRuns
  <1> HIDE DEF next
  <1>6. /\ g \in [0..n -> V] /\ g[0] = NoConfig
        /\ \A i \in 1..n : g[i] = ParseLine(g[i - 1], lines[i])
    <2>1. g \in [0..n -> V] /\ g[0] = NoConfig /\ \A i \in 1..n : g[i] = next[<<i, g[i - 1]>>]
      BY <1>5 DEF Runs
    <2>2. ASSUME NEW i \in 1..n PROVE g[i - 1] \in V
      <3>1. i - 1 \in 0..n
        OBVIOUS
      <3> QED
        BY <2>1, <3>1
    <2> QED
      BY <1>4, <2>1, <2>2
  <1>7. g = Pass(g)
    <2>1. ASSUME NEW i \in 0..n PROVE g[i] = Pass(g)[i]
      <3>1. i = 0 \/ i \in 1..n
        OBVIOUS
      <3> QED
        BY <1>6, <3>1
    <2> QED
      BY <1>6, <2>1
  <1>8. c = Pass(c)
    BY <1>7
  <1>9. Parse(lines) = [c[n] EXCEPT !.error = @ \/ c[n].name = None \/ ~Has(c[n], "output")]
    BY DEF Parse
  <1> HIDE DEF c
  <1>10. c[0] = NoConfig /\ \A i \in 1..n : c[i] = ParseLine(c[i - 1], lines[i])
    <2>1. \A i \in 0..n : c[i] = IF i = 0 THEN NoConfig ELSE ParseLine(c[i - 1], lines[i])
      BY <1>8
    <2>2. 0 \in 0..n /\ \A i \in 1..n : i \in 0..n /\ i # 0
      OBVIOUS
    <2> QED
      BY <2>1, <2>2
  <1>11. \A i \in 0..n : c[i] \in V
    <2> DEFINE P == {i \in 0..n : c[i] \in V}
    <2>1. 0 \in P
      BY <1>2, <1>10
    <2>2. ASSUME NEW i \in 1..n, i - 1 \in P PROVE i \in P
      BY <1>1, <1>10, <2>2
    <2>3. \A i \in 0..n : i \in P
      <3> HIDE DEF P
      <3> QED
        BY <2>1, <2>2, AfterEveryStep
    <2> QED
      BY <2>3
  <1>12. After(lines, c)
    BY <1>9, <1>10, <1>11 DEF After
  <1> QED
    BY <1>12

(* How many of the first lines are of some kinds; the headers that end them;  *)
(* and whether these stand below a get.                                       *)
CountTo(lines, i, kws) == Cardinality({j \in 1..i : lines[j].kw \in kws})

HeadersAt(lines, i) == {j \in 1..i : \A m \in j..i : lines[m].kw = "header"}

Under(lines, i) == \E j \in 1..i : lines[j].kw = "get" /\ \A m \in (j + 1)..i : lines[m].kw = "header"

LEMMA CountStep ==
    ASSUME NEW lines, NEW kws, NEW i \in Nat
    PROVE  /\ CountTo(lines, i, kws) \in Nat
           /\ i = 0 => CountTo(lines, i, kws) = 0
           /\ i # 0 => CountTo(lines, i, kws) = CountTo(lines, i - 1, kws) + (IF lines[i].kw \in kws THEN 1 ELSE 0)
  <1> DEFINE C(k) == {j \in 1..k : lines[j].kw \in kws}
  <1>1. \A k \in Nat : IsFiniteSet(C(k))
    <2> SUFFICES ASSUME NEW k \in Nat PROVE IsFiniteSet(C(k))
      OBVIOUS
    <2>1. IsFiniteSet(1..k)
      BY FS_Interval
    <2> QED
      BY <2>1, FS_Subset
  <1>2. CountTo(lines, i, kws) = Cardinality(C(i)) /\ CountTo(lines, i - 1, kws) = Cardinality(C(i - 1))
    BY DEF CountTo
  <1>3. Cardinality(C(i)) \in Nat
    BY <1>1, FS_CardinalityType
  <1>4. CASE i = 0
    <2>1. C(i) = {}
      BY <1>4
    <2> QED
      BY <1>2, <1>4, <2>1, FS_EmptySet
  <1>5. CASE i # 0 /\ lines[i].kw \in kws
    <2>1. C(i) = C(i - 1) \cup {i} /\ i \notin C(i - 1) /\ i - 1 \in Nat
      BY <1>5
    <2>2. IsFiniteSet(C(i - 1))
      BY <1>1, <2>1
    <2> HIDE DEF C
    <2>3. Cardinality(C(i)) = Cardinality(C(i - 1)) + 1
      BY <2>1, <2>2, FS_AddElement
    <2> QED
      BY <1>2, <1>3, <1>5, <2>3
  <1>6. CASE i # 0 /\ lines[i].kw \notin kws
    <2>1. C(i) = C(i - 1) /\ i - 1 \in Nat
      BY <1>6
    <2>2. Cardinality(C(i)) = Cardinality(C(i - 1))
      BY <2>1
    <2> HIDE DEF C
    <2> QED
      BY <1>2, <1>3, <1>6, <2>2
  <1> QED
    BY <1>4, <1>5, <1>6

LEMMA HeadersStep ==
    ASSUME NEW lines, NEW i \in Nat
    PROVE  /\ Cardinality(HeadersAt(lines, i)) \in Nat
           /\ i = 0 \/ lines[i].kw # "header" => Cardinality(HeadersAt(lines, i)) = 0
           /\ i # 0 /\ lines[i].kw = "header" =>
                Cardinality(HeadersAt(lines, i)) = Cardinality(HeadersAt(lines, i - 1)) + 1
  <1>1. \A k \in Nat : IsFiniteSet(HeadersAt(lines, k))
    <2> SUFFICES ASSUME NEW k \in Nat PROVE IsFiniteSet(HeadersAt(lines, k))
      OBVIOUS
    <2>1. IsFiniteSet(1..k)
      BY FS_Interval
    <2>2. HeadersAt(lines, k) \subseteq 1..k
      BY DEF HeadersAt
    <2> QED
      BY <2>1, <2>2, FS_Subset
  <1>2. Cardinality(HeadersAt(lines, i)) \in Nat
    BY <1>1, FS_CardinalityType
  <1>3. ASSUME i = 0 \/ lines[i].kw # "header" PROVE Cardinality(HeadersAt(lines, i)) = 0
    <2>1. HeadersAt(lines, i) = {}
      <3>1. \A j \in 1..i : i \in j..i /\ i # 0
        OBVIOUS
      <3> QED
        BY <1>3, <3>1 DEF HeadersAt
    <2> QED
      BY <2>1, FS_EmptySet
  <1>4. ASSUME i # 0, lines[i].kw = "header"
        PROVE  Cardinality(HeadersAt(lines, i)) = Cardinality(HeadersAt(lines, i - 1)) + 1
    <2>1. i - 1 \in Nat /\ i \notin HeadersAt(lines, i - 1)
      BY <1>4 DEF HeadersAt
    <2>2. \A j \in 1..i : j = i \/ (j \in 1..(i - 1) /\ \A m \in j..i : m = i \/ m \in j..(i - 1))
      OBVIOUS
    <2>3. \A j \in 1..(i - 1) : j \in 1..i /\ \A m \in j..(i - 1) : m \in j..i
      OBVIOUS
    <2>4. i \in 1..i /\ \A m \in i..i : m = i
      BY <1>4
    <2>5. HeadersAt(lines, i) = HeadersAt(lines, i - 1) \cup {i}
      BY <1>4, <2>2, <2>3, <2>4 DEF HeadersAt
    <2>6. IsFiniteSet(HeadersAt(lines, i - 1))
      BY <1>1, <2>1
    <2> QED
      BY <2>1, <2>5, <2>6, FS_AddElement
  <1> QED
    BY <1>2, <1>3, <1>4

LEMMA UnderStep ==
    ASSUME NEW lines, NEW i \in Nat
    PROVE  /\ i = 0 => ~Under(lines, i)
           /\ i # 0 => (Under(lines, i) <=> \/ lines[i].kw = "get"
                                            \/ lines[i].kw = "header" /\ Under(lines, i - 1))
  <1>1. ASSUME i = 0 PROVE ~Under(lines, i)
    BY <1>1 DEF Under
  <1>2. ASSUME i # 0, lines[i].kw = "get" PROVE Under(lines, i)
    <2>1. i \in 1..i /\ \A m \in (i + 1)..i : FALSE
      BY <1>2
    <2> QED
      BY <1>2, <2>1 DEF Under
  <1>3. ASSUME i # 0, lines[i].kw = "header", Under(lines, i - 1) PROVE Under(lines, i)
    <2>1. PICK j \in 1..(i - 1) : lines[j].kw = "get" /\ \A m \in (j + 1)..(i - 1) : lines[m].kw = "header"
      BY <1>3 DEF Under
    <2>2. j \in 1..i /\ \A m \in (j + 1)..i : m = i \/ m \in (j + 1)..(i - 1)
      BY <2>1
    <2> QED
      BY <1>3, <2>1, <2>2 DEF Under
  <1>4. ASSUME i # 0, Under(lines, i), lines[i].kw # "get" PROVE lines[i].kw = "header" /\ Under(lines, i - 1)
    <2>1. PICK j \in 1..i : lines[j].kw = "get" /\ \A m \in (j + 1)..i : lines[m].kw = "header"
      BY <1>4 DEF Under
    <2>2. j # i
      BY <1>4, <2>1
    <2>3. i \in (j + 1)..i /\ j \in 1..(i - 1) /\ \A m \in (j + 1)..(i - 1) : m \in (j + 1)..i
      BY <2>1, <2>2
    <2> QED
      BY <2>1, <2>3 DEF Under
  <1> QED
    BY <1>1, <1>2, <1>3, <1>4

(* What the parser has after some lines, told of the lines.                    *)
LineFits(lines, k) ==
    /\ lines[k].kw \in {"name", "match", "header"} \cup Kinds
    /\ lines[k].kw = "header" => Under(lines, k - 1) /\ Cardinality(HeadersAt(lines, k)) <= MaxHeaders

ValidTo(lines, i) ==
    /\ CountTo(lines, i, {"match"}) <= MaxMatches
    /\ CountTo(lines, i, Kinds) <= MaxDirectives
    /\ \A k \in 1..i : LineFits(lines, k)

MatchesFit(lines, i, m) ==
    /\ Len(m) = CountTo(lines, i, {"match"})
    /\ \A x : (\E k \in 1..Len(m) : m[k] = x) <=> (\E j \in 1..i : lines[j].kw = "match" /\ lines[j].arg = x)

LastName(lines, i, j) == lines[j].kw = "name" /\ \A m \in (j + 1)..i : lines[m].kw # "name"

NameFits(lines, i, name) ==
    \/ name = None /\ \A j \in 1..i : lines[j].kw # "name"
    \/ \E j \in 1..i : LastName(lines, i, j) /\ name = lines[j].arg

SameAs(d, entry) == d.kw = entry.kw /\ d.name = entry.name /\ d.source = entry.source /\ d.arg = entry.arg

DirectivesFit(lines, i, d) ==
    /\ Len(d) = CountTo(lines, i, Kinds)
    /\ \A j \in 1..i : lines[j].kw \in Kinds =>
         CountTo(lines, j, Kinds) \in 1..Len(d) /\ SameAs(d[CountTo(lines, j, Kinds)], lines[j])
    /\ \A k \in 1..Len(d) : \E j \in 1..i : lines[j].kw \in Kinds /\ d[k].kw = lines[j].kw

GetFits(lines, i, d, l) ==
    /\ l # 0 <=> Under(lines, i)
    /\ l # 0 => l = Len(d) /\ l \in 1..Len(d) /\ Len(d[l].headers) = Cardinality(HeadersAt(lines, i))

Reads(lines, i, c) ==
    /\ c.error <=> ~ValidTo(lines, i)
    /\ ~c.error => /\ MatchesFit(lines, i, c.matches) /\ NameFits(lines, i, c.name)
                   /\ DirectivesFit(lines, i, c.directives) /\ GetFits(lines, i, c.directives, c.lastget)

LEMMA MatchesStay ==
    ASSUME NEW lines, NEW i \in Nat \ {0}, NEW m, MatchesFit(lines, i - 1, m), lines[i].kw # "match"
    PROVE  MatchesFit(lines, i, m)
  <1>1. CountTo(lines, i, {"match"}) = CountTo(lines, i - 1, {"match"})
    <2>1. CountTo(lines, i - 1, {"match"}) \in Nat
      BY CountStep
    <2>2. CountTo(lines, i, {"match"}) = CountTo(lines, i - 1, {"match"}) + 0
      BY CountStep
    <2> QED
      BY <2>1, <2>2
  <1>2. \A x : (\E j \in 1..i : lines[j].kw = "match" /\ lines[j].arg = x)
                 <=> (\E j \in 1..(i - 1) : lines[j].kw = "match" /\ lines[j].arg = x)
    <2>1. \A j \in 1..i : j = i \/ j \in 1..(i - 1)
      OBVIOUS
    <2>2. \A j \in 1..(i - 1) : j \in 1..i
      OBVIOUS
    <2> QED
      BY <2>1, <2>2
  <1> QED
    BY <1>1, <1>2 DEF MatchesFit

LEMMA MatchAdded ==
    ASSUME NEW lines, NEW i \in Nat \ {0}, NEW S, NEW m \in Seq(S), lines[i].arg \in S,
           MatchesFit(lines, i - 1, m), lines[i].kw = "match"
    PROVE  MatchesFit(lines, i, Append(m, lines[i].arg))
  <1> PICK a, n : a = lines[i].arg /\ n = Len(m)
    OBVIOUS
  <1> PICK p : p = Append(m, a)
    OBVIOUS
  <1>0. n \in Nat /\ Len(p) = n + 1 /\ p[n + 1] = a /\ \A k \in 1..n : p[k] = m[k]
    OBVIOUS
  <1>1. CountTo(lines, i, {"match"}) = n + 1
    <2>1. CountTo(lines, i, {"match"}) = CountTo(lines, i - 1, {"match"}) + 1
      BY CountStep
    <2> QED
      BY <2>1 DEF MatchesFit
  <1>2. ASSUME NEW x
        PROVE  (\E k \in 1..(n + 1) : p[k] = x) <=> (\E j \in 1..i : lines[j].kw = "match" /\ lines[j].arg = x)
    <2>1. (\E k \in 1..n : m[k] = x) <=> (\E j \in 1..(i - 1) : lines[j].kw = "match" /\ lines[j].arg = x)
      BY DEF MatchesFit
    <2>2. (\E k \in 1..(n + 1) : p[k] = x) <=> x = a \/ (\E k \in 1..n : m[k] = x)
      <3>1. \A k \in 1..(n + 1) : k = n + 1 \/ k \in 1..n
        BY <1>0
      <3>2. \A k \in 1..n : k \in 1..(n + 1)
        BY <1>0
      <3>3. n + 1 \in 1..(n + 1)
        BY <1>0
      <3> QED
        BY <1>0, <3>1, <3>2, <3>3
    <2>3. (\E j \in 1..i : lines[j].kw = "match" /\ lines[j].arg = x)
            <=> x = a \/ (\E j \in 1..(i - 1) : lines[j].kw = "match" /\ lines[j].arg = x)
      <3>1. \A j \in 1..i : j = i \/ j \in 1..(i - 1)
        OBVIOUS
      <3>2. i \in 1..i /\ \A j \in 1..(i - 1) : j \in 1..i
        OBVIOUS
      <3> QED
        BY <3>1, <3>2
    <2> QED
      BY <2>1, <2>2, <2>3
  <1> QED
    BY <1>0, <1>1, <1>2 DEF MatchesFit

LEMMA NameStays ==
    ASSUME NEW lines, NEW i \in Nat \ {0}, NEW name, NameFits(lines, i - 1, name), lines[i].kw # "name"
    PROVE  NameFits(lines, i, name)
  <1>1. \A j \in 1..i : j = i \/ j \in 1..(i - 1)
    OBVIOUS
  <1>2. CASE name = None /\ \A j \in 1..(i - 1) : lines[j].kw # "name"
    BY <1>1, <1>2 DEF NameFits
  <1>3. CASE \E j \in 1..(i - 1) : LastName(lines, i - 1, j) /\ name = lines[j].arg
    <2>1. PICK j \in 1..(i - 1) : LastName(lines, i - 1, j) /\ name = lines[j].arg
      BY <1>3
    <2>2. j \in 1..i /\ \A m \in (j + 1)..i : m = i \/ m \in (j + 1)..(i - 1)
      OBVIOUS
    <2>3. LastName(lines, i, j)
      BY <2>1, <2>2 DEF LastName
    <2> QED
      BY <2>1, <2>2, <2>3 DEF NameFits
  <1> QED
    BY <1>2, <1>3 DEF NameFits

LEMMA NameGiven ==
    ASSUME NEW lines, NEW i \in Nat \ {0}, lines[i].kw = "name"
    PROVE  NameFits(lines, i, lines[i].arg)
  <1>1. i \in 1..i /\ \A m \in (i + 1)..i : FALSE
    OBVIOUS
  <1>2. LastName(lines, i, i)
    BY <1>1 DEF LastName
  <1> QED
    BY <1>1, <1>2 DEF NameFits

LEMMA DirectivesStay ==
    ASSUME NEW lines, NEW i \in Nat \ {0}, NEW d, NEW p, DirectivesFit(lines, i - 1, d), lines[i].kw \notin Kinds,
           Len(p) = Len(d), \A k \in 1..Len(d) : SameAs(p[k], d[k])
    PROVE  DirectivesFit(lines, i, p)
  <1>1. CountTo(lines, i, Kinds) = CountTo(lines, i - 1, Kinds)
    <2>1. CountTo(lines, i - 1, Kinds) \in Nat
      BY CountStep
    <2>2. CountTo(lines, i, Kinds) = CountTo(lines, i - 1, Kinds) + 0
      BY CountStep
    <2> QED
      BY <2>1, <2>2
  <1>2. \A j \in 1..i : j = i \/ j \in 1..(i - 1)
    OBVIOUS
  <1>3. \A j \in 1..(i - 1) : j \in 1..i
    OBVIOUS
  <1>4. ASSUME NEW j \in 1..i, lines[j].kw \in Kinds
        PROVE  CountTo(lines, j, Kinds) \in 1..Len(p) /\ SameAs(p[CountTo(lines, j, Kinds)], lines[j])
    <2>1. j \in 1..(i - 1)
      BY <1>2, <1>4
    <2>2. CountTo(lines, j, Kinds) \in 1..Len(d) /\ SameAs(d[CountTo(lines, j, Kinds)], lines[j])
      BY <1>4, <2>1 DEF DirectivesFit
    <2> PICK k : k = CountTo(lines, j, Kinds)
      OBVIOUS
    <2>3. k \in 1..Len(p) /\ SameAs(p[k], d[k]) /\ SameAs(d[k], lines[j])
      BY <2>2
    <2> QED
      BY <2>3 DEF SameAs
  <1>5. ASSUME NEW k \in 1..Len(p) PROVE \E j \in 1..i : lines[j].kw \in Kinds /\ p[k].kw = lines[j].kw
    <2>1. PICK j \in 1..(i - 1) : lines[j].kw \in Kinds /\ d[k].kw = lines[j].kw
      BY <1>5 DEF DirectivesFit
    <2>2. p[k].kw = d[k].kw
      BY <1>5 DEF SameAs
    <2> QED
      BY <1>3, <2>1, <2>2
  <1>6. Len(p) = CountTo(lines, i, Kinds)
    BY <1>1 DEF DirectivesFit
  <1> QED
    BY <1>4, <1>5, <1>6 DEF DirectivesFit

LEMMA DirectiveAdded ==
    ASSUME NEW lines, NEW i \in Nat \ {0}, NEW S, NEW d \in Seq(DirectiveOf(S)), DirectivesFit(lines, i - 1, d),
           lines[i].kw \in Kinds, Directive(lines[i]) \in DirectiveOf(S)
    PROVE  DirectivesFit(lines, i, Append(d, Directive(lines[i])))
  <1> PICK a, n : a = Directive(lines[i]) /\ n = Len(d)
    OBVIOUS
  <1> PICK p : p = Append(d, a)
    OBVIOUS
  <1>0. n \in Nat /\ Len(p) = n + 1 /\ p[n + 1] = a /\ \A k \in 1..n : p[k] = d[k]
    OBVIOUS
  <1>1. CountTo(lines, i, Kinds) = n + 1
    <2>1. CountTo(lines, i, Kinds) = CountTo(lines, i - 1, Kinds) + 1
      BY CountStep
    <2> QED
      BY <2>1 DEF DirectivesFit
  <1>2. SameAs(a, lines[i]) /\ a.kw = lines[i].kw
    BY DEF SameAs, Directive
  <1>3. \A j \in 1..i : j = i \/ j \in 1..(i - 1)
    OBVIOUS
  <1>4. i \in 1..i /\ \A j \in 1..(i - 1) : j \in 1..i
    OBVIOUS
  <1>5. n + 1 \in 1..(n + 1) /\ \A k \in 1..n : k \in 1..(n + 1)
    BY <1>0
  <1>6. \A k \in 1..(n + 1) : k = n + 1 \/ k \in 1..n
    BY <1>0
  <1>7. ASSUME NEW j \in 1..i, lines[j].kw \in Kinds
        PROVE  CountTo(lines, j, Kinds) \in 1..(n + 1) /\ SameAs(p[CountTo(lines, j, Kinds)], lines[j])
    <2>1. CASE j = i
      BY <1>0, <1>1, <1>2, <1>5, <2>1
    <2>2. CASE j \in 1..(i - 1)
      <3>1. CountTo(lines, j, Kinds) \in 1..n /\ SameAs(d[CountTo(lines, j, Kinds)], lines[j])
        BY <1>7, <2>2 DEF DirectivesFit
      <3> QED
        BY <1>0, <1>5, <3>1
    <2> QED
      BY <1>3, <2>1, <2>2
  <1>8. ASSUME NEW k \in 1..(n + 1) PROVE \E j \in 1..i : lines[j].kw \in Kinds /\ p[k].kw = lines[j].kw
    <2>1. CASE k = n + 1
      BY <1>0, <1>2, <1>4, <2>1
    <2>2. CASE k \in 1..n
      <3>1. PICK j \in 1..(i - 1) : lines[j].kw \in Kinds /\ d[k].kw = lines[j].kw
        BY <2>2 DEF DirectivesFit
      <3> QED
        BY <1>0, <1>4, <2>2, <3>1
    <2> QED
      BY <1>6, <2>1, <2>2
  <1> QED
    BY <1>0, <1>1, <1>7, <1>8 DEF DirectivesFit

LEMMA ValidStep ==
    ASSUME NEW lines, NEW i \in Nat \ {0}, MaxMatches \in Nat, MaxDirectives \in Nat
    PROVE  ValidTo(lines, i) <=>
             /\ ValidTo(lines, i - 1) /\ LineFits(lines, i)
             /\ lines[i].kw = "match" => CountTo(lines, i - 1, {"match"}) + 1 <= MaxMatches
             /\ lines[i].kw \in Kinds => CountTo(lines, i - 1, Kinds) + 1 <= MaxDirectives
  <1> PICK m0, m1, d0, d1 : /\ m0 = CountTo(lines, i - 1, {"match"}) /\ m1 = CountTo(lines, i, {"match"})
                            /\ d0 = CountTo(lines, i - 1, Kinds) /\ d1 = CountTo(lines, i, Kinds)
    OBVIOUS
  <1>1. /\ m0 \in Nat /\ m1 = m0 + (IF lines[i].kw \in {"match"} THEN 1 ELSE 0)
        /\ d0 \in Nat /\ d1 = d0 + (IF lines[i].kw \in Kinds THEN 1 ELSE 0)
    <2>1. i - 1 \in Nat /\ i \in Nat /\ i # 0
      OBVIOUS
    <2> QED
      BY <2>1, CountStep
  <1>2. (\A k \in 1..i : LineFits(lines, k)) <=> (\A k \in 1..(i - 1) : LineFits(lines, k)) /\ LineFits(lines, i)
    <2>1. \A k \in 1..i : k = i \/ k \in 1..(i - 1)
      OBVIOUS
    <2>2. i \in 1..i /\ \A k \in 1..(i - 1) : k \in 1..i
      OBVIOUS
    <2> QED
      BY <2>1, <2>2
  <1>3. m1 <= MaxMatches <=> m0 <= MaxMatches /\ (lines[i].kw = "match" => m0 + 1 <= MaxMatches)
    BY <1>1
  <1>4. d1 <= MaxDirectives <=> d0 <= MaxDirectives /\ (lines[i].kw \in Kinds => d0 + 1 <= MaxDirectives)
    BY <1>1
  <1> QED
    BY <1>2, <1>3, <1>4 DEF ValidTo

LEMMA BadTold ==
    ASSUME NEW lines, NEW i \in Nat \ {0}, NEW S, NEW c \in ConfigSet(S),
           {MaxMatches, MaxDirectives, MaxHeaders} \subseteq Nat, ~c.error, Reads(lines, i - 1, c)
    PROVE  Bad(c, lines[i]) <=> ~ValidTo(lines, i)
  <1> PICK kw, m, d, l, h : /\ kw = lines[i].kw /\ m = Len(c.matches) /\ d = Len(c.directives) /\ l = c.lastget
                            /\ h = Cardinality(HeadersAt(lines, i - 1))
    OBVIOUS
  <1>1. /\ ValidTo(lines, i - 1) /\ MatchesFit(lines, i - 1, c.matches)
        /\ DirectivesFit(lines, i - 1, c.directives) /\ GetFits(lines, i - 1, c.directives, l)
    BY DEF Reads
  <1>2. m \in Nat /\ d \in Nat /\ h \in Nat
    <2>1. c.matches \in Seq(S) /\ c.directives \in Seq(DirectiveOf(S))
      BY DEF ConfigSet
    <2>2. h \in Nat
      <3>1. i - 1 \in Nat
        OBVIOUS
      <3> QED
        BY <3>1, HeadersStep
    <2> QED
      BY <2>1, <2>2
  <1>3. m = CountTo(lines, i - 1, {"match"}) /\ d = CountTo(lines, i - 1, Kinds)
    BY <1>1 DEF MatchesFit, DirectivesFit
  <1>4. (l # 0 <=> Under(lines, i - 1)) /\ (l # 0 => Len(c.directives[l].headers) = h)
    BY <1>1 DEF GetFits
  <1>5. kw = "header" => Cardinality(HeadersAt(lines, i)) = h + 1
    BY HeadersStep
  <1>6. Bad(c, lines[i]) <=>
           \/ kw \notin {"name", "match", "header"} \cup Kinds
           \/ kw = "match" /\ m >= MaxMatches
           \/ kw \in Kinds /\ d >= MaxDirectives
           \/ kw = "header" /\ (l = 0 \/ Len(c.directives[l].headers) >= MaxHeaders)
    BY DEF Bad
  <1>7. ValidTo(lines, i) <=>
           /\ LineFits(lines, i)
           /\ kw = "match" => m + 1 <= MaxMatches
           /\ kw \in Kinds => d + 1 <= MaxDirectives
    BY <1>1, <1>3, ValidStep
  <1>8. LineFits(lines, i) <=> /\ kw \in {"name", "match", "header"} \cup Kinds
                               /\ kw = "header" => l # 0 /\ h + 1 <= MaxHeaders
    BY <1>4, <1>5 DEF LineFits
  <1>9. (m >= MaxMatches <=> ~(m + 1 <= MaxMatches)) /\ (d >= MaxDirectives <=> ~(d + 1 <= MaxDirectives))
          /\ (h >= MaxHeaders <=> ~(h + 1 <= MaxHeaders))
    BY <1>2
  <1> HIDE DEF Kinds
  <1> QED
    BY <1>4, <1>6, <1>7, <1>8, <1>9

LEMMA ReadsStep ==
    ASSUME NEW lines, NEW i \in Nat \ {0}, NEW S, NEW c \in ConfigSet(S), NEW p \in ConfigSet(S),
           lines[i].arg \in S, Directive(lines[i]) \in DirectiveOf(S),
           {MaxMatches, MaxDirectives, MaxHeaders} \subseteq Nat,
           Takes(p, c, lines[i]), Reads(lines, i - 1, c)
    PROVE  Reads(lines, i, p)
  <1> PICK entry : entry = lines[i]
    OBVIOUS
  <1>1. CASE c.error \/ Bad(c, entry)
    <2>1. p.error = TRUE
      BY <1>1 DEF Takes, Holds
    <2>2. ~ValidTo(lines, i)
      <3>1. CASE c.error
        BY <3>1, ValidStep DEF Reads
      <3>2. CASE ~c.error
        BY <1>1, <3>2, BadTold
      <3> QED
        BY <3>1, <3>2
    <2> QED
      BY <2>1, <2>2 DEF Reads
  <1>2. CASE ~(c.error \/ Bad(c, entry))
    <2>1. /\ MatchesFit(lines, i - 1, c.matches) /\ NameFits(lines, i - 1, c.name)
          /\ DirectivesFit(lines, i - 1, c.directives) /\ GetFits(lines, i - 1, c.directives, c.lastget)
      BY <1>2 DEF Reads
    <2>2. ValidTo(lines, i) /\ entry.kw \in {"name", "match", "header"} \cup Kinds
      <3>1. ValidTo(lines, i)
        BY <1>2, BadTold
      <3> QED
        BY <1>2, <3>1 DEF Bad
    <2>3. c.error \in BOOLEAN /\ c.matches \in Seq(S) /\ c.directives \in Seq(DirectiveOf(S)) /\ c.lastget \in Nat
      BY DEF ConfigSet
    <2>4. /\ i \in Nat /\ i # 0 /\ i - 1 \in Nat
      OBVIOUS
    <2>5. SUFFICES /\ p.error = c.error /\ MatchesFit(lines, i, p.matches) /\ NameFits(lines, i, p.name)
                   /\ DirectivesFit(lines, i, p.directives) /\ GetFits(lines, i, p.directives, p.lastget)
      BY <1>2, <2>2 DEF Reads
    <2>6. ASSUME entry.kw \in {"name", "match"} PROVE GetFits(lines, i, p.directives, 0)
      BY <2>4, <2>6, UnderStep DEF GetFits
    <2>7. \A k \in 1..Len(c.directives) : SameAs(c.directives[k], c.directives[k])
      BY DEF SameAs
    <2>8. CASE entry.kw = "header"
      <3> PICK d, l, w : d = c.directives /\ l = c.lastget /\ w = WithHeader(d, l, entry.arg)
        OBVIOUS
      <3>1. p.name = c.name /\ p.matches = c.matches /\ p.directives = w /\ p.lastget = l /\ p.error = c.error
        BY <1>2, <2>8 DEF Takes, Holds
      <3>2. l # 0 /\ Under(lines, i - 1)
        BY <1>2, <2>1, <2>8 DEF Bad, GetFits
      <3>3. /\ l = Len(d) /\ l \in 1..Len(d)
            /\ Len(d[l].headers) = Cardinality(HeadersAt(lines, i - 1))
        BY <2>1, <3>2 DEF GetFits
      <3>4. /\ w \in Seq(DirectiveOf(S)) /\ Len(w) = Len(d) /\ Len(w[l].headers) = Len(d[l].headers) + 1
            /\ \A k \in 1..Len(d) : SameAs(w[k], d[k])
        <4>1. /\ Len(w) = Len(d) /\ Len(w[l].headers) = Len(d[l].headers) + 1 /\ w \in Seq(DirectiveOf(S))
              /\ SameAs(w[l], d[l])
          BY <2>3, <3>3, HeaderAdded, SMTT(30) DEF SameAs
        <4>2. \A k \in 1..Len(d) : k # l => w[k] = d[k]
          BY <2>3, HeaderAdded
        <4>3. ASSUME NEW k \in 1..Len(d) PROVE SameAs(w[k], d[k])
          <5>1. CASE k = l
            BY <4>1, <5>1
          <5>2. CASE k # l
            <6>1. w[k] = d[k]
              BY <4>2, <5>2
            <6> QED
              BY <6>1 DEF SameAs
          <5> QED
            BY <5>1, <5>2
        <4> QED
          BY <4>1, <4>3
      <3>5. Cardinality(HeadersAt(lines, i)) = Cardinality(HeadersAt(lines, i - 1)) + 1
        BY <2>4, <2>8, HeadersStep
      <3>6. GetFits(lines, i, w, l)
        <4>1. Under(lines, i)
          BY <2>4, <2>8, <3>2, UnderStep
        <4> QED
          BY <3>2, <3>3, <3>4, <3>5, <4>1 DEF GetFits
      <3>7. DirectivesFit(lines, i, w)
        <4>1. entry.kw \notin Kinds
          BY <2>8 DEF Kinds
        <4> QED
          BY <2>1, <3>4, <4>1, DirectivesStay
      <3>8. MatchesFit(lines, i, c.matches) /\ NameFits(lines, i, c.name)
        BY <2>1, <2>8, MatchesStay, NameStays
      <3> QED
        BY <3>1, <3>6, <3>7, <3>8
    <2>9. CASE entry.kw = "name"
      <3>1. p.name = entry.arg /\ p.matches = c.matches /\ p.directives = c.directives /\ p.lastget = 0 /\ p.error = c.error
        BY <1>2, <2>9 DEF Takes, Holds
      <3>2. DirectivesFit(lines, i, c.directives)
        <4>1. entry.kw \notin Kinds
          BY <2>9 DEF Kinds
        <4> QED
          BY <2>1, <2>7, <4>1, DirectivesStay
      <3>3. MatchesFit(lines, i, c.matches) /\ NameFits(lines, i, entry.arg)
        BY <2>1, <2>9, MatchesStay, NameGiven
      <3> QED
        BY <2>6, <2>9, <3>1, <3>2, <3>3
    <2>10. CASE entry.kw = "match"
      <3>1. /\ p.name = c.name /\ p.matches = Append(c.matches, entry.arg) /\ p.directives = c.directives
            /\ p.lastget = 0 /\ p.error = c.error
        BY <1>2, <2>10 DEF Takes, Holds
      <3>2. DirectivesFit(lines, i, c.directives)
        <4>1. entry.kw \notin Kinds
          BY <2>10 DEF Kinds
        <4> QED
          BY <2>1, <2>7, <4>1, DirectivesStay
      <3>3. MatchesFit(lines, i, Append(c.matches, entry.arg)) /\ NameFits(lines, i, c.name)
        BY <2>1, <2>3, <2>10, MatchAdded, NameStays
      <3> QED
        BY <2>6, <2>10, <3>1, <3>2, <3>3
    <2>11. CASE entry.kw \in Kinds
      <3> PICK d, a, w : d = c.directives /\ a = Directive(entry) /\ w = Append(d, a)
        OBVIOUS
      <3>1. /\ p.name = c.name /\ p.matches = c.matches /\ p.directives = w
            /\ p.lastget = (IF entry.kw = "get" THEN Len(d) + 1 ELSE 0) /\ p.error = c.error
        BY <1>2, <2>11 DEF Takes, Holds
      <3>2. DirectivesFit(lines, i, w)
        BY <2>1, <2>3, <2>11, DirectiveAdded
      <3>3. entry.kw # "match" /\ entry.kw # "name" /\ entry.kw # "header"
        BY <2>11 DEF Kinds
      <3>4. MatchesFit(lines, i, c.matches) /\ NameFits(lines, i, c.name)
        BY <2>1, <3>3, MatchesStay, NameStays
      <3>5. Len(d) \in Nat /\ Len(w) = Len(d) + 1 /\ w[Len(d) + 1] = a /\ Len(a.headers) = 0
        BY <2>3 DEF Directive
      <3>6. GetFits(lines, i, w, p.lastget)
        <4>1. CASE entry.kw = "get"
          <5>1. Under(lines, i) /\ Cardinality(HeadersAt(lines, i)) = 0 /\ p.lastget = Len(d) + 1
            BY <2>4, <3>1, <3>3, <4>1, UnderStep, HeadersStep
          <5> QED
            BY <3>5, <5>1 DEF GetFits
        <4>2. CASE entry.kw # "get"
          <5>1. ~Under(lines, i) /\ p.lastget = 0
            BY <2>4, <3>1, <3>3, <4>2, UnderStep
          <5> QED
            BY <5>1 DEF GetFits
        <4> QED
          BY <4>1, <4>2
      <3> QED
        BY <3>1, <3>2, <3>4, <3>6
    <2> QED
      BY <2>2, <2>8, <2>9, <2>10, <2>11
  <1> QED
    BY <1>1, <1>2

LEMMA CountPositive ==
    ASSUME NEW lines, NEW kws, NEW i \in Nat
    PROVE  CountTo(lines, i, kws) > 0 <=> \E j \in 1..i : lines[j].kw \in kws
  <1> PICK C : C = {j \in 1..i : lines[j].kw \in kws}
    OBVIOUS
  <1>1. IsFiniteSet(C)
    <2>1. IsFiniteSet(1..i)
      BY FS_Interval
    <2> QED
      BY <2>1, FS_Subset
  <1>2. CountTo(lines, i, kws) = Cardinality(C)
    BY DEF CountTo
  <1>3. Cardinality(C) \in Nat /\ (Cardinality(C) = 0 <=> C = {})
    BY <1>1, FS_CardinalityType, FS_EmptySet
  <1> QED
    BY <1>2, <1>3

LEMMA ValidTold ==
    ASSUME NEW lines, IsList(lines)
    PROVE  Valid(lines) <=> /\ ValidTo(lines, Len(lines))
                            /\ \E j \in 1..Len(lines) : lines[j].kw = "name"
                            /\ \E j \in 1..Len(lines) : lines[j].kw = "output"
  <1> PICK n : n = Len(lines)
    OBVIOUS
  <1>1. n \in Nat /\ DOMAIN lines = 1..n
    BY ListIsSeq
  <1>2. \A kws : NumberOf(lines, kws) = CountTo(lines, n, kws)
    BY <1>1 DEF NumberOf, CountTo
  <1>3. NumberOf(lines, {"name"}) > 0 <=> \E j \in 1..n : lines[j].kw = "name"
    BY <1>1, <1>2, CountPositive
  <1>4. NumberOf(lines, {"output"}) > 0 <=> \E j \in 1..n : lines[j].kw = "output"
    BY <1>1, <1>2, CountPositive
  <1>5. ASSUME NEW i \in 1..n
        PROVE  LineFits(lines, i) <=>
                 /\ lines[i].kw \in {"name", "match", "header"} \cup Kinds
                 /\ lines[i].kw = "header" =>
                      /\ Below(lines, i, "get")
                      /\ Cardinality({j \in DOMAIN lines : j <= i /\ lines[j].kw = "header"
                                                  /\ \A m \in j..i : lines[m].kw = "header"}) <= MaxHeaders
    <2>1. {j \in DOMAIN lines : j <= i /\ lines[j].kw = "header" /\ \A m \in j..i : lines[m].kw = "header"} = HeadersAt(lines, i)
      <3>1. \A j : j \in 1..i <=> j \in 1..n /\ j <= i
        BY <1>1
      <3>2. \A j \in 1..i : j \in j..i
        BY <1>1
      <3> QED
        BY <1>1, <3>1, <3>2 DEF HeadersAt
    <2>2. Below(lines, i, "get") <=> Under(lines, i - 1)
      BY DEF Below, Under
    <2> QED
      BY <2>1, <2>2 DEF LineFits
  <1>6. ValidTo(lines, n) <=>
          /\ NumberOf(lines, {"match"}) <= MaxMatches
          /\ NumberOf(lines, Kinds) <= MaxDirectives
          /\ \A i \in 1..n : LineFits(lines, i)
    BY <1>2 DEF ValidTo
  <1>7. Valid(lines) <=>
          /\ NumberOf(lines, {"name"}) > 0 /\ NumberOf(lines, {"output"}) > 0
          /\ NumberOf(lines, {"match"}) <= MaxMatches
          /\ NumberOf(lines, Kinds) <= MaxDirectives
          /\ \A i \in 1..n : LineFits(lines, i)
    BY <1>1, <1>5 DEF Valid
  <1> QED
    BY <1>3, <1>4, <1>6, <1>7

(* What the parser makes of a file.                                            *)
Parsed(p, lines) ==
    /\ p.error <=> ~Valid(lines)
    /\ ~p.error => /\ MatchesFit(lines, Len(lines), p.matches)
                   /\ \E j \in 1..Len(lines) : LastName(lines, Len(lines), j) /\ p.name = lines[j].arg
                   /\ DirectivesFit(lines, Len(lines), p.directives)
    /\ \E S : p.directives \in Seq(DirectiveOf(S)) /\ p.matches \in Seq(S)

LEMMA ParseRight ==
    ASSUME NEW lines, IsList(lines), \A i \in DOMAIN lines : Named(lines[i])
    PROVE  Parsed(Parse(lines), lines)
  <1> PICK n, S : n = Len(lines) /\ S = Written(lines)
    OBVIOUS
  <1>1. n \in Nat /\ DOMAIN lines = 1..n
    BY ListIsSeq
  <1>2. PICK c : After(lines, c)
    BY <1>1, ParseRuns
  <1>3. /\ c[0] = NoConfig /\ \A i \in 1..n : c[i] = ParseLine(c[i - 1], lines[i])
        /\ \A i \in 0..n : c[i] \in ConfigSet(S)
        /\ Parse(lines) = [c[n] EXCEPT !.error = @ \/ c[n].name = None \/ ~Has(c[n], "output")]
    BY <1>2 DEF After
  <1>4. {MaxMatches, MaxDirectives, MaxHeaders} \subseteq Nat
    BY ExtractorAssumption
  <1>5. Reads(lines, 0, c[0])
    <2>1. CountTo(lines, 0, {"match"}) = 0 /\ CountTo(lines, 0, Kinds) = 0 /\ ~Under(lines, 0)
      <3>1. 0 \in Nat
        OBVIOUS
      <3> QED
        BY <3>1, CountStep, UnderStep
    <2>2. ValidTo(lines, 0)
      BY <1>4, <2>1 DEF ValidTo
    <2>3. /\ NoConfig.name = None /\ NoConfig.matches = <<>> /\ NoConfig.directives = <<>>
          /\ NoConfig.lastget = 0 /\ NoConfig.error = FALSE
      BY DEF NoConfig
    <2>4. Len(<<>>) = 0 /\ \A k \in 1..0 : FALSE
      OBVIOUS
    <2>5. MatchesFit(lines, 0, <<>>) /\ NameFits(lines, 0, None) /\ DirectivesFit(lines, 0, <<>>) /\ GetFits(lines, 0, <<>>, 0)
      BY <2>1, <2>4 DEF MatchesFit, NameFits, DirectivesFit, GetFits
    <2> QED
      BY <1>3, <2>2, <2>3, <2>5 DEF Reads
  <1>6. ASSUME NEW i \in 1..n, Reads(lines, i - 1, c[i - 1]) PROVE Reads(lines, i, c[i])
    <2>1. i \in Nat \ {0} /\ i - 1 \in 0..n /\ i \in 0..n
      BY <1>1
    <2>2. lines[i].kw \in S /\ lines[i].name \in S /\ lines[i].source \in S /\ lines[i].arg \in S
      BY DEF Written
    <2>3. Directive(lines[i]) \in DirectiveOf(S)
      BY <2>2 DEF Directive, DirectiveOf
    <2> PICK a, b : a = c[i - 1] /\ b = c[i]
      OBVIOUS
    <2>4. a \in ConfigSet(S) /\ b \in ConfigSet(S) /\ b = ParseLine(a, lines[i])
      BY <1>3, <2>1
    <2>5. Takes(b, a, lines[i])
      BY <2>2, <2>4, LineDoes
    <2> QED
      BY <1>4, <1>6, <2>1, <2>2, <2>3, <2>4, <2>5, ReadsStep
  <1>7. Reads(lines, n, c[n])
    <2> DEFINE P == {i \in 0..n : Reads(lines, i, c[i])}
    <2>1. 0 \in P
      BY <1>1, <1>5
    <2>2. ASSUME NEW i \in 1..n, i - 1 \in P PROVE i \in P
      BY <1>6, <2>2
    <2>3. \A i \in 0..n : i \in P
      <3> HIDE DEF P
      <3> QED
        BY <1>1, <2>1, <2>2, AfterEveryStep
    <2> QED
      BY <1>1, <2>3
  <1> PICK e : e = c[n]
    OBVIOUS
  <1> PICK err : err = (e.error \/ e.name = None \/ ~Has(e, "output"))
    OBVIOUS
  <1> PICK p : p = Parse(lines)
    OBVIOUS
  <1>8. e \in ConfigSet(S) /\ p = [e EXCEPT !.error = err]
    BY <1>1, <1>3
  <1>9. /\ p.matches = e.matches /\ p.name = e.name /\ p.directives = e.directives /\ p.error = err
        /\ p.directives \in Seq(DirectiveOf(S)) /\ p.matches \in Seq(S) /\ e.error \in BOOLEAN
    BY <1>8 DEF ConfigSet
  <1>10. e.error <=> ~ValidTo(lines, n)
    BY <1>7 DEF Reads
  <1>11. ASSUME ~e.error
         PROVE  /\ MatchesFit(lines, n, e.matches) /\ NameFits(lines, n, e.name) /\ DirectivesFit(lines, n, e.directives)
                /\ e.name # None <=> \E j \in 1..n : lines[j].kw = "name"
                /\ Has(e, "output") <=> \E j \in 1..n : lines[j].kw = "output"
    <2>1. MatchesFit(lines, n, e.matches) /\ NameFits(lines, n, e.name) /\ DirectivesFit(lines, n, e.directives)
      BY <1>7, <1>11 DEF Reads
    <2>2. e.name # None <=> \E j \in 1..n : lines[j].kw = "name"
      <3>1. \A j \in 1..n : lines[j].kw = "name" => lines[j].arg # None
        BY <1>1 DEF Named
      <3> QED
        BY <2>1, <3>1 DEF NameFits, LastName
    <2>3. Has(e, "output") <=> \E j \in 1..n : lines[j].kw = "output"
      <3> PICK d : d = e.directives
        OBVIOUS
      <3>1. DOMAIN d = 1..Len(d)
        BY <1>9
      <3>2. Has(e, "output") <=> \E k \in 1..Len(d) : d[k].kw = "output"
        BY <3>1 DEF Has
      <3>3. ASSUME NEW k \in 1..Len(d), d[k].kw = "output" PROVE \E j \in 1..n : lines[j].kw = "output"
        <4>1. PICK j \in 1..n : lines[j].kw \in Kinds /\ d[k].kw = lines[j].kw
          <5>1. DirectivesFit(lines, n, d)
            BY <2>1
          <5> QED
            BY <5>1 DEF DirectivesFit
        <4> QED
          BY <3>3, <4>1
      <3>4. ASSUME NEW j \in 1..n, lines[j].kw = "output" PROVE \E k \in 1..Len(d) : d[k].kw = "output"
        <4>1. lines[j].kw \in Kinds
          BY <3>4 DEF Kinds
        <4>2. CountTo(lines, j, Kinds) \in 1..Len(d) /\ SameAs(d[CountTo(lines, j, Kinds)], lines[j])
          BY <2>1, <4>1 DEF DirectivesFit
        <4> QED
          BY <3>4, <4>2 DEF SameAs
      <3> QED
        BY <3>2, <3>3, <3>4
    <2> QED
      BY <2>1, <2>2, <2>3
  <1>12. p.error <=> ~Valid(lines)
    BY <1>9, <1>10, <1>11, ValidTold
  <1>13. ASSUME ~p.error
         PROVE  /\ MatchesFit(lines, n, p.matches) /\ DirectivesFit(lines, n, p.directives)
                /\ \E j \in 1..n : LastName(lines, n, j) /\ p.name = lines[j].arg
    <2>1. ~e.error /\ e.name # None
      BY <1>9, <1>13
    <2> QED
      BY <1>9, <1>11, <2>1 DEF NameFits
  <1> QED
    BY <1>9, <1>12, <1>13 DEF Parsed

LEMMA KeepTold ==
    ASSUME NEW lines, IsList(lines), \A i \in DOMAIN lines : Named(lines[i])
    PROVE  Keep(lines) <=> Valid(lines) /\ Wants(lines)
  <1> PICK n, p : n = Len(lines) /\ p = Parse(lines)
    OBVIOUS
  <1>1. n \in Nat /\ DOMAIN lines = 1..n
    BY ListIsSeq
  <1>2. Parsed(p, lines)
    BY ParseRight
  <1>3. Keep(lines) <=> ~p.error /\ (IF Forced # None THEN p.name = Forced ELSE Matches(p))
    BY DEF Keep
  <1>4. SUFFICES ASSUME ~p.error
                 PROVE  Wants(lines) <=> (IF Forced # None THEN p.name = Forced ELSE Matches(p))
    BY <1>2, <1>3 DEF Parsed
  <1>5. PICK j \in 1..n : LastName(lines, n, j) /\ p.name = lines[j].arg
    BY <1>2, <1>4 DEF Parsed
  <1>6. Max({i \in 1..n : lines[i].kw = "name"}) = j
    <2> PICK A : A = {i \in 1..n : lines[i].kw = "name"}
      OBVIOUS
    <2>1. A \in SUBSET (0..n) /\ j \in A
      BY <1>5 DEF LastName
    <2>2. Max(A) \in A /\ \A i \in A : i <= Max(A)
      BY <1>1, <2>1, LargestExists
    <2>3. \A m \in (j + 1)..n : m \notin A
      BY <1>5 DEF LastName
    <2> PICK x : x = Max(A)
      OBVIOUS
    <2>4. x \in 1..n /\ j <= x /\ x \notin (j + 1)..n
      BY <2>1, <2>2, <2>3
    <2>5. x = j
      BY <1>1, <2>4
    <2> QED
      BY <2>5
  <1>7. MatchesFit(lines, n, p.matches)
    BY <1>2, <1>4 DEF Parsed
  <1>8. Matches(p) <=> \E i \in 1..n : lines[i].kw = "match" /\ <<lines[i].arg, Page>> \in Wanted_
    <2> PICK m : m = p.matches
      OBVIOUS
    <2>1. DOMAIN m = 1..Len(m)
      <3>1. PICK S : m \in Seq(S)
        BY <1>2 DEF Parsed
      <3> QED
        BY <3>1
    <2>2. \A x : (\E k \in 1..Len(m) : m[k] = x) <=> (\E i \in 1..n : lines[i].kw = "match" /\ lines[i].arg = x)
      BY <1>7 DEF MatchesFit
    <2>3. Matches(p) <=> \E k \in 1..Len(m) : <<m[k], Page>> \in Wanted_
      BY <2>1 DEF Matches
    <2> QED
      BY <2>2, <2>3
  <1>9. CASE Forced # None
    BY <1>1, <1>5, <1>6, <1>9 DEF Wants
  <1>10. CASE Forced = None
    BY <1>1, <1>8, <1>10 DEF Wants
  <1> QED
    BY <1>9, <1>10

-----------------------------------------------------------------------------
(***************************************************************************)
(* Episodes and variables                                                  *)
(***************************************************************************)
LEMMA AppendList ==
    ASSUME NEW s, IsList(s), NEW x
    PROVE  /\ IsList(Append(s, x)) /\ Len(Append(s, x)) = Len(s) + 1 /\ Append(s, x)[Len(s) + 1] = x
           /\ \A i \in 1..Len(s) : Append(s, x)[i] = s[i]
           /\ DOMAIN Append(s, x) = 1..(Len(s) + 1)
  <1> PICK S : S = {s[i] : i \in 1..Len(s)} \cup {x}
    OBVIOUS
  <1>1. s \in Seq(S)
    <2>1. s \in Seq({s[i] : i \in 1..Len(s)})
      BY ListIsSeq
    <2> QED
      BY <2>1
  <1>2. Append(s, x) \in Seq(S)
    BY <1>1
  <1>3. IsList(Append(s, x))
    BY <1>2, SeqIsList
  <1> QED
    BY <1>1, <1>2, <1>3

LEMMA EpisodeAdded ==
    ASSUME NEW item, NEW U, Resolve(Page, RefOf(item)) \in U, NEW s \in Seq(U)
    PROVE  LET u == Resolve(Page, RefOf(item))
           IN  /\ AddEpisode(s, item) \in Seq(U)
               /\ (\E j \in 1..Len(s) : s[j] = u) => AddEpisode(s, item) = s
               /\ (\A j \in 1..Len(s) : s[j] # u) => AddEpisode(s, item) = Append(s, u)
  <1> PICK u : u = Resolve(Page, RefOf(item))
    OBVIOUS
  <1>1. AddEpisode(s, item) = IF \E j \in 1..Len(s) : s[j] = u THEN s ELSE Append(s, u)
    BY DEF AddEpisode, Contains
  <1>2. Append(s, u) \in Seq(U)
    OBVIOUS
  <1> QED
    BY <1>1, <1>2

LEMMA DedupedSteps ==
    ASSUME NEW found, IsList(found), found # <<>>
    PROVE  LET n == Len(found)  V == Seq({Resolve(Page, RefOf(found[i])) : i \in 1..n})
           IN  \E k : /\ Deduped(found) = k[n] /\ k[0] = <<>>
                      /\ \A i \in 1..n : k[i] = AddEpisode(k[i - 1], found[i])
                      /\ \A i \in 1..n, s \in V :
                           /\ AddEpisode(s, found[i]) \in V
                           /\ (\E j \in 1..Len(s) : s[j] = Resolve(Page, RefOf(found[i]))) => AddEpisode(s, found[i]) = s
                           /\ (\A j \in 1..Len(s) : s[j] # Resolve(Page, RefOf(found[i]))) =>
                                AddEpisode(s, found[i]) = Append(s, Resolve(Page, RefOf(found[i])))
  <1> PICK n : n = Len(found)
    OBVIOUS
  <1>0. n \in Nat /\ n # 0 /\ DOMAIN found = 1..n
    <2>1. n \in Nat /\ DOMAIN found = 1..n
      BY ListIsSeq
    <2>2. n # 0
      BY DEF IsList
    <2> QED
      BY <2>1, <2>2
  <1> DEFINE url(i) == Resolve(Page, RefOf(found[i]))
  <1> PICK U : U = {url(i) : i \in 1..n}
    OBVIOUS
  <1> PICK V : V = Seq(U)
    OBVIOUS
  <1> DEFINE next == [p \in (1..n) \X V |-> AddEpisode(p[2], found[p[1]])]
             Pass(h) == [i \in 0..n |-> IF i = 0 THEN <<>> ELSE AddEpisode(h[i - 1], found[i])]
             k == CHOOSE h : h = Pass(h)
  <1>1. \A i \in 1..n, s \in V :
           /\ AddEpisode(s, found[i]) \in V
           /\ (\E j \in 1..Len(s) : s[j] = url(i)) => AddEpisode(s, found[i]) = s
           /\ (\A j \in 1..Len(s) : s[j] # url(i)) => AddEpisode(s, found[i]) = Append(s, url(i))
    <2> SUFFICES ASSUME NEW i \in 1..n, NEW s \in V
                 PROVE  /\ AddEpisode(s, found[i]) \in V
                        /\ (\E j \in 1..Len(s) : s[j] = url(i)) => AddEpisode(s, found[i]) = s
                        /\ (\A j \in 1..Len(s) : s[j] # url(i)) => AddEpisode(s, found[i]) = Append(s, url(i))
      OBVIOUS
    <2>1. Resolve(Page, RefOf(found[i])) \in U
      OBVIOUS
    <2> QED
      BY <2>1, EpisodeAdded
  <1> HIDE DEF url
  <1>2. next \in [(1..n) \X V -> V]
    BY <1>1
  <1>3. \A i \in 1..n, b \in V : next[<<i, b>>] = AddEpisode(b, found[i])
    OBVIOUS
  <1>4. <<>> \in V
    OBVIOUS
  <1> HIDE DEF next
  <1>5. PICK g : Runs(g, n, V, <<>>, next)
    BY <1>0, <1>2, <1>4, LoopRuns
  <1>6. /\ g \in [0..n -> V] /\ g[0] = <<>>
        /\ \A i \in 1..n : g[i] = AddEpisode(g[i - 1], found[i])
    <2>1. g \in [0..n -> V] /\ g[0] = <<>> /\ \A i \in 1..n : g[i] = next[<<i, g[i - 1]>>]
      BY <1>5 DEF Runs
    <2>2. ASSUME NEW i \in 1..n PROVE g[i - 1] \in V
      <3>1. i - 1 \in 0..n
        BY <1>0
      <3> QED
        BY <2>1, <3>1
    <2> QED
      BY <1>3, <2>1, <2>2
  <1>7. g = Pass(g)
    <2>1. ASSUME NEW i \in 0..n PROVE g[i] = Pass(g)[i]
      <3>1. i = 0 \/ i \in 1..n
        BY <1>0
      <3> QED
        BY <1>6, <3>1
    <2> QED
      BY <1>6, <2>1
  <1>8. k = Pass(k)
    BY <1>7
  <1>9. Deduped(found) = k[n]
    BY DEF Deduped
  <1> HIDE DEF k
  <1>10. k[0] = <<>> /\ \A i \in 1..n : k[i] = AddEpisode(k[i - 1], found[i])
    <2>1. \A i \in 0..n : k[i] = IF i = 0 THEN <<>> ELSE AddEpisode(k[i - 1], found[i])
      BY <1>8
    <2>2. 0 \in 0..n /\ \A i \in 1..n : i \in 0..n /\ i # 0
      BY <1>0
    <2> QED
      BY <2>1, <2>2
  <1> QED
    BY <1>1, <1>9, <1>10 DEF url

(* The URLs of what is found.                                                 *)
SameUrls(urls, found) ==
    \A u : (\E j \in 1..Len(urls) : urls[j] = u) <=> (\E i \in 1..Len(found) : u = Resolve(Page, RefOf(found[i])))

LEMMA DedupedRight ==
    ASSUME NEW found, IsList(found), found # <<>>
    PROVE  /\ IsList(Deduped(found)) /\ IsInjective(Deduped(found))
           /\ Len(Deduped(found)) \in 1..Len(found)
           /\ SameUrls(Deduped(found), found)
  <1> PICK n : n = Len(found)
    OBVIOUS
  <1>0. n \in Nat /\ n # 0
    <2>1. n \in Nat
      BY ListIsSeq
    <2>2. n # 0
      BY DEF IsList
    <2> QED
      BY <2>1, <2>2
  <1> DEFINE url(i) == Resolve(Page, RefOf(found[i]))
  <1> PICK U : U = {url(i) : i \in 1..n}
    OBVIOUS
  <1> PICK V : V = Seq(U)
    OBVIOUS
  <1>2. PICK k : /\ Deduped(found) = k[n] /\ k[0] = <<>>
                 /\ \A i \in 1..n : k[i] = AddEpisode(k[i - 1], found[i])
                 /\ \A i \in 1..n, s \in V :
                      /\ AddEpisode(s, found[i]) \in V
                      /\ (\E j \in 1..Len(s) : s[j] = url(i)) => AddEpisode(s, found[i]) = s
                      /\ (\A j \in 1..Len(s) : s[j] # url(i)) => AddEpisode(s, found[i]) = Append(s, url(i))
    BY DedupedSteps
  <1> HIDE DEF url
  <1>1. \A i \in 1..n, s \in V :
           /\ AddEpisode(s, found[i]) \in V
           /\ (\E j \in 1..Len(s) : s[j] = url(i)) => AddEpisode(s, found[i]) = s
           /\ (\A j \in 1..Len(s) : s[j] # url(i)) => AddEpisode(s, found[i]) = Append(s, url(i))
    BY <1>2
  <1>10. k[0] = <<>> /\ \A i \in 1..n : k[i] = AddEpisode(k[i - 1], found[i])
    BY <1>2
  <1>4. <<>> \in V
    OBVIOUS
  <1> DEFINE P == {i \in 0..n : k[i] \in V /\ IsInjective(k[i]) /\ Len(k[i]) <= i /\ (i # 0 => k[i] # <<>>)}
  <1>11. 0 \in P
    <2>1. DOMAIN <<>> = {} /\ Len(<<>>) = 0
      OBVIOUS
    <2>2. IsInjective(<<>>)
      BY <2>1 DEF IsInjective
    <2>3. 0 \in 0..n /\ 0 <= 0
      BY <1>0
    <2> QED
      BY <1>4, <1>10, <2>1, <2>2, <2>3
  <1>12. ASSUME NEW i \in 1..n, i - 1 \in P PROVE i \in P
    <2> PICK s, t, u : s = k[i - 1] /\ t = k[i] /\ u = url(i)
      OBVIOUS
    <2>1. s \in V /\ IsInjective(s) /\ Len(s) <= i - 1 /\ t = AddEpisode(s, found[i]) /\ i \in 0..n
      BY <1>10, <1>12
    <2>2. CASE \E j \in 1..Len(s) : s[j] = u
      <3>1. t = s
        BY <1>1, <2>1, <2>2
      <3>2. s # <<>> /\ Len(s) <= i
        BY <2>1, <2>2
      <3> QED
        BY <2>1, <3>1, <3>2
    <2>3. CASE \A j \in 1..Len(s) : s[j] # u
      <3>1. t = Append(s, u) /\ t \in V
        BY <1>1, <2>1, <2>3
      <3>2. /\ Len(s) \in Nat /\ Len(t) = Len(s) + 1 /\ t[Len(s) + 1] = u /\ \A j \in 1..Len(s) : t[j] = s[j]
            /\ DOMAIN t = 1..(Len(s) + 1) /\ DOMAIN s = 1..Len(s)
        <4>1. IsList(s)
          BY <2>1, SeqIsList
        <4>2. Len(s) \in Nat /\ DOMAIN s = 1..Len(s)
          BY <4>1, ListIsSeq
        <4> QED
          BY <3>1, <4>1, <4>2, AppendList
      <3>3. IsInjective(t)
        <4>1. \A a, b \in 1..Len(s) : s[a] = s[b] => a = b
          BY <2>1, <3>2 DEF IsInjective
        <4>2. \A a \in 1..(Len(s) + 1) : a = Len(s) + 1 \/ a \in 1..Len(s)
          BY <3>2
        <4>3. ASSUME NEW a \in 1..(Len(s) + 1), NEW b \in 1..(Len(s) + 1), t[a] = t[b] PROVE a = b
          <5>1. CASE a \in 1..Len(s) /\ b \in 1..Len(s)
            BY <3>2, <4>1, <4>3, <5>1
          <5>2. CASE a = Len(s) + 1 \/ b = Len(s) + 1
            BY <2>3, <3>2, <4>2, <4>3, <5>2
          <5> QED
            BY <4>2, <5>1, <5>2
        <4> QED
          BY <3>2, <4>3 DEF IsInjective
      <3>4. Len(t) <= i /\ t # <<>>
        BY <2>1, <3>2
      <3> QED
        BY <2>1, <3>1, <3>3, <3>4
    <2> QED
      BY <2>2, <2>3
  <1>13. \A i \in 0..n : i \in P
    <2> HIDE DEF P
    <2> QED
      BY <1>0, <1>11, <1>12, AfterEveryStep
  <1>14. k[n] \in V /\ IsInjective(k[n]) /\ Len(k[n]) <= n /\ k[n] # <<>>
    BY <1>0, <1>13
  <1> DEFINE All(t, i) == \A u : (\E j \in 1..Len(t) : t[j] = u) <=> (\E h \in 1..i : u = url(h))
             Q == {i \in 0..n : All(k[i], i)}
  <1>15. 0 \in Q
    <2>1. Len(<<>>) = 0 /\ 0 \in 0..n
      BY <1>0
    <2> QED
      BY <1>10, <2>1
  <1>16. ASSUME NEW i \in 1..n, i - 1 \in Q PROVE i \in Q
    <2>0. PICK s, t, u : s = k[i - 1] /\ t = k[i] /\ u = url(i)
      OBVIOUS
    <2>1. i - 1 \in 0..n /\ i \in 0..n /\ All(s, i - 1)
      BY <1>16, <2>0
    <2>2. s \in V /\ t = AddEpisode(s, found[i])
      BY <1>10, <1>13, <2>0, <2>1
    <2>3. \A h : h \in 1..i <=> h = i \/ h \in 1..(i - 1)
      BY <1>0
    <2>4. CASE \E j \in 1..Len(s) : s[j] = u
      <3>1. t = s
        BY <1>1, <2>0, <2>2, <2>4
      <3>2. \E h \in 1..(i - 1) : u = url(h)
        BY <2>1, <2>4
      <3>3. ASSUME NEW v PROVE (\E h \in 1..i : v = url(h)) <=> (\E h \in 1..(i - 1) : v = url(h))
        BY <2>0, <2>3, <3>2, Zenon
      <3>4. ASSUME NEW v PROVE (\E j \in 1..Len(s) : s[j] = v) <=> (\E h \in 1..(i - 1) : v = url(h))
        BY <2>1, Zenon
      <3>5. All(t, i)
        BY <3>1, <3>3, <3>4, Zenon
      <3> QED
        BY <2>0, <2>1, <3>5
    <2>5. CASE \A j \in 1..Len(s) : s[j] # u
      <3>1. t = Append(s, u)
        BY <1>1, <2>0, <2>2, <2>5
      <3>2. IsList(s)
        BY <2>2, SeqIsList
      <3>3. Len(t) = Len(s) + 1 /\ t[Len(s) + 1] = u /\ Len(s) \in Nat
        BY <3>1, <3>2, AppendList, ListIsSeq
      <3>4. \A j \in 1..Len(s) : t[j] = s[j]
        BY <3>1, <3>2, AppendList
      <3>5. \A j : j \in 1..Len(t) <=> j = Len(s) + 1 \/ j \in 1..Len(s)
        BY <3>3
      <3>6. ASSUME NEW v PROVE (\E j \in 1..Len(t) : t[j] = v) <=> (\E h \in 1..i : v = url(h))
        <4>1. (\E j \in 1..Len(t) : t[j] = v) <=> (v = u \/ \E j \in 1..Len(s) : s[j] = v)
          BY <3>3, <3>4, <3>5
        <4>2. (\E h \in 1..i : v = url(h)) <=> (v = u \/ \E h \in 1..(i - 1) : v = url(h))
          BY <2>0, <2>3
        <4>3. (\E j \in 1..Len(s) : s[j] = v) <=> (\E h \in 1..(i - 1) : v = url(h))
          BY <2>1
        <4> QED
          BY <4>1, <4>2, <4>3
      <3> QED
        BY <2>0, <2>1, <3>6
    <2> QED
      BY <2>4, <2>5
  <1>17. All(k[n], n)
    <2>1. \A i \in 0..n : i \in Q
      <3> HIDE DEF Q
      <3> QED
        BY <1>0, <1>15, <1>16, AfterEveryStep
    <2>2. n \in Q
      <3>1. n \in 0..n
        BY <1>0
      <3> QED
        BY <2>1, <3>1, Zenon
    <2> QED
      BY <2>2, Zenon
  <1> PICK r : r = k[n]
    OBVIOUS
  <1>18. IsList(r) /\ Len(r) \in 1..n
    <2>1. r \in Seq(U) /\ r # <<>> /\ Len(r) <= n
      BY <1>14
    <2> QED
      BY <1>0, <2>1, SeqIsList
  <1>19. Deduped(found) = r /\ IsInjective(r) /\ All(r, n)
    BY <1>2, <1>14, <1>17
  <1>20. \A u : (\E j \in 1..Len(r) : r[j] = u) <=> (\E i \in 1..n : u = Resolve(Page, RefOf(found[i])))
    BY <1>19 DEF url
  <1>21. SameUrls(r, found)
    BY <1>20 DEF SameUrls
  <1> QED
    BY <1>18, <1>19, <1>21

(* A template comes to the same with the same values of its variables.        *)
LEMMA SameText ==
    ASSUME NEW template, NEW s, NEW t, Names(template) \subseteq DOMAIN s, \A n \in DOMAIN s : t[n] = s[n]
    PROVE  Interpolate(template, t) = Interpolate(template, s)
  <1> DEFINE part(i, st) == IF template[i].var = None THEN template[i].text ELSE st[template[i].var]
  <1>1. ASSUME NEW i \in DOMAIN template PROVE part(i, t) = part(i, s)
    <2>1. template[i].var # None => template[i].var \in DOMAIN s
      BY DEF Names
    <2> QED
      BY <2>1
  <1>2. [i \in DOMAIN template |-> part(i, t)] = [i \in DOMAIN template |-> part(i, s)]
    <2> HIDE DEF part
    <2> QED
      BY <1>1
  <1>3. Interpolate(template, t) = FlattenSeq([i \in DOMAIN template |-> part(i, t)])
    BY DEF Interpolate
  <1>4. Interpolate(template, s) = FlattenSeq([i \in DOMAIN template |-> part(i, s)])
    BY DEF Interpolate
  <1> HIDE DEF part
  <1> QED
    BY Zenon, <1>2, <1>3, <1>4

LEMMA SameTarget ==
    ASSUME NEW template, NEW s, NEW t, Names(template) \subseteq DOMAIN s, \A n \in DOMAIN s : t[n] = s[n],
           "url" \in DOMAIN s
    PROVE  Target(template, t) = Target(template, s)
  <1>1. Interpolate(template, t) = Interpolate(template, s)
    BY SameText
  <1>2. t["url"] = s["url"]
    OBVIOUS
  <1> QED
    BY <1>1, <1>2 DEF Target

-----------------------------------------------------------------------------
(***************************************************************************)
(* The extractor                                                           *)
(***************************************************************************)

(* What captures a list of matches.                                            *)
CapturesGiveLists == \A p, txt : IsList(Captures(p, txt)) /\ IsList(ScanCaptures(p, txt))

FilesOK == /\ DOMAIN configs = DOMAIN Begun
           /\ \A f \in DOMAIN configs : IsList(configs[f]) /\ \A i \in DOMAIN configs[f] : Named(configs[f][i])

ListsOK == /\ IsList(episodes) /\ IsInjective(episodes) /\ Len(episodes) <= MaxEpisodes
           /\ IsList(medias) /\ Len(medias) <= Len(episodes)

Own(c, a) == {i \in FirstToRun(c)..(a - 1) : c.directives[i].kw \in {"var", "get"}}

Once(c, a) == /\ \A i \in Own(c, a) : c.directives[i].name # "url"
              /\ \A i, j \in Own(c, a) : c.directives[i].name = c.directives[j].name => i = j

Value(d, st, pages) == IF d.kw = "get" THEN pages[Target(d.arg, st)]
                       ELSE Captures(Interpolate(d.arg, st), st[d.source])[1]

(* Every directive so far has what it reads, and its variable has its value.  *)
StoreOK(c, a, st, url, pages) ==
    /\ DOMAIN st = {"url"} \cup {c.directives[i].name : i \in Own(c, a)}
    /\ \A i \in Own(c, a) : /\ Names(c.directives[i].arg) \subseteq DOMAIN st
                            /\ c.directives[i].kw = "var" => c.directives[i].source \in DOMAIN st
    /\ Once(c, a) => /\ st["url"] = TextOf(url)
                     /\ \A i \in Own(c, a) : st[c.directives[i].name] = Value(c.directives[i], st, pages)

RunOK == /\ Len(medias) < Len(episodes)
         /\ at \in Nat /\ FirstToRun(ex) <= at
         /\ StoreOK(ex, at, store, episodes[Len(medias) + 1], site)

ExInv ==
    /\ FilesOK /\ ListsOK
    /\ exphase = "write" => at = 1 /\ store = OnlyUrl(Page) /\ medias = <<>> /\ episodes = <<>>
    /\ exphase # "write" => ex = Discover
    /\ exphase = "list" => medias = <<>> /\ episodes # <<>>
    /\ exphase = "run" => RunOK

(* A config in use has directives in a list; the first list is among them.    *)
LEMMA FirstRuns ==
    ASSUME NEW c, IsList(c.directives)
    PROVE  /\ FirstToRun(c) \in Nat
           /\ Has(c, "list") => ListAt(c) \in Nat /\ FirstToRun(c) = ListAt(c) + 1
           /\ ~Has(c, "list") => FirstToRun(c) = 1
  <1>1. DOMAIN c.directives = 1..Len(c.directives) /\ Len(c.directives) \in Nat
    BY ListIsSeq
  <1>2. Has(c, "list") => ListAt(c) \in Nat
    <2> PICK A : A = {i \in DOMAIN c.directives : c.directives[i].kw = "list"}
      OBVIOUS
    <2>1. A \in SUBSET Nat
      BY <1>1
    <2>2. Has(c, "list") => A # {}
      BY DEF Has
    <2>3. A # {} => Min(A) \in Nat
      BY <2>1, LeastExists
    <2> QED
      BY <2>2, <2>3 DEF ListAt
  <1> QED
    BY <1>2 DEF FirstToRun

(* The run of a page begins with nothing but its URL.                          *)
LEMMA RunBegins ==
    ASSUME NEW c, IsList(c.directives), NEW url, NEW pages
    PROVE  StoreOK(c, FirstToRun(c), OnlyUrl(url), url, pages)
  <1>1. FirstToRun(c) \in Nat
    BY FirstRuns
  <1>2. Own(c, FirstToRun(c)) = {}
    BY <1>1 DEF Own
  <1>3. DOMAIN OnlyUrl(url) = {"url"} /\ OnlyUrl(url)["url"] = TextOf(url)
    BY DEF OnlyUrl
  <1> QED
    BY <1>2, <1>3 DEF StoreOK, Once

(* A var or a get that is new has its value, and leaves the others theirs.     *)
LEMMA RunStores ==
    ASSUME NEW c, NEW a \in Nat, NEW st, NEW url, NEW pages, NEW v, NEW t,
           FirstToRun(c) \in Nat, FirstToRun(c) <= a, StoreOK(c, a, st, url, pages),
           c.directives[a].kw \in {"var", "get"},
           Names(c.directives[a].arg) \subseteq DOMAIN st,
           c.directives[a].kw = "var" => c.directives[a].source \in DOMAIN st,
           v = Value(c.directives[a], st, pages),
           t = [n \in DOMAIN st \cup {c.directives[a].name} |-> IF n = c.directives[a].name THEN v ELSE st[n]]
    PROVE  StoreOK(c, a + 1, t, url, pages)
  <1> DEFINE name(i) == c.directives[i].name
  <1> PICK x : x = name(a)
    OBVIOUS
  <1>1. Own(c, a + 1) = Own(c, a) \cup {a} /\ a \notin Own(c, a)
    <2>1. (a + 1) - 1 = a /\ \A i : i \in FirstToRun(c)..a <=> i = a \/ i \in FirstToRun(c)..(a - 1)
      OBVIOUS
    <2>2. a \notin FirstToRun(c)..(a - 1)
      OBVIOUS
    <2> QED
      BY <2>1, <2>2 DEF Own
  <1>2. DOMAIN st = {"url"} \cup {name(i) : i \in Own(c, a)}
    BY DEF StoreOK
  <1>3. DOMAIN t = DOMAIN st \cup {x} /\ t[x] = v /\ \A n \in DOMAIN st : n # x => t[n] = st[n]
    OBVIOUS
  <1>4. DOMAIN t = {"url"} \cup {name(i) : i \in Own(c, a + 1)}
    BY <1>1, <1>2, <1>3
  <1>5. ASSUME NEW i \in Own(c, a + 1)
        PROVE  /\ Names(c.directives[i].arg) \subseteq DOMAIN st
               /\ c.directives[i].kw = "var" => c.directives[i].source \in DOMAIN st
    <2>1. CASE i = a
      BY <2>1
    <2>2. CASE i \in Own(c, a)
      BY <2>2 DEF StoreOK
    <2> QED
      BY <1>1, <2>1, <2>2
  <1>6. ASSUME Once(c, a + 1)
        PROVE  /\ t["url"] = TextOf(url)
               /\ \A i \in Own(c, a + 1) : t[name(i)] = Value(c.directives[i], t, pages)
    <2>1. Once(c, a)
      BY <1>1, <1>6 DEF Once
    <2>2. x \notin DOMAIN st
      <3>1. x # "url" /\ \A i \in Own(c, a) : name(i) # x
        BY <1>1, <1>6 DEF Once
      <3> QED
        BY <1>2, <3>1
    <2>3. \A n \in DOMAIN st : t[n] = st[n]
      BY <1>3, <2>2
    <2>4. "url" \in DOMAIN st /\ t["url"] = TextOf(url)
      BY <1>2, <2>1, <2>3 DEF StoreOK
    <2>5. ASSUME NEW i \in Own(c, a + 1) PROVE Value(c.directives[i], t, pages) = Value(c.directives[i], st, pages)
      <3> PICK d : d = c.directives[i]
        OBVIOUS
      <3>1. Interpolate(d.arg, t) = Interpolate(d.arg, st) /\ Target(d.arg, t) = Target(d.arg, st)
        <4>1. Names(d.arg) \subseteq DOMAIN st
          BY <1>5
        <4>2. Interpolate(d.arg, t) = Interpolate(d.arg, st)
          BY <2>3, <4>1, SameText
        <4> QED
          BY <2>3, <2>4, <4>1, <4>2, SameTarget
      <3>2. d.kw \in {"var", "get"}
        BY DEF Own
      <3>3. d.kw = "var" => t[d.source] = st[d.source]
        BY <1>5, <2>3
      <3>4. CASE d.kw = "get"
        <4>1. Value(d, t, pages) = pages[Target(d.arg, t)] /\ Value(d, st, pages) = pages[Target(d.arg, st)]
          BY Zenon, <3>4 DEF Value
        <4>2. Value(d, t, pages) = Value(d, st, pages)
          BY Zenon, <3>1, <4>1
        <4> QED
          BY Zenon, <4>2
      <3>5. CASE d.kw # "get"
        <4>1. /\ Value(d, t, pages) = Captures(Interpolate(d.arg, t), t[d.source])[1]
              /\ Value(d, st, pages) = Captures(Interpolate(d.arg, st), st[d.source])[1]
          BY Zenon, <3>5 DEF Value
        <4>2. t[d.source] = st[d.source]
          BY <3>2, <3>3, <3>5
        <4>3. Value(d, t, pages) = Value(d, st, pages)
          BY Zenon, <3>1, <4>1, <4>2
        <4> QED
          BY Zenon, <4>3
      <3> QED
        BY Zenon, <3>4, <3>5
    <2>6. ASSUME NEW i \in Own(c, a + 1) PROVE t[name(i)] = Value(c.directives[i], st, pages)
      <3>1. CASE i = a
        BY <1>3, <3>1
      <3>2. CASE i \in Own(c, a)
        <4>1. name(i) \in DOMAIN st /\ st[name(i)] = Value(c.directives[i], st, pages)
          BY <1>2, <2>1, <3>2 DEF StoreOK
        <4> QED
          BY <2>3, <4>1
      <3> QED
        BY <1>1, <3>1, <3>2
    <2> QED
      BY <2>4, <2>5, <2>6
  <1> QED
    BY <1>3, <1>4, <1>5, <1>6 DEF StoreOK

LEMMA DiscoverList ==
    ASSUME FilesOK
    PROVE  IsList(Discover.directives)
  <1> PICK kept : kept = {i \in DOMAIN Path : Keep(configs[Path[i]])}
    OBVIOUS
  <1>1. Discover = IF kept = {} THEN NoConfig ELSE Parse(configs[Path[Min(kept)]])
    BY DEF Discover
  <1>2. CASE kept = {}
    <2>1. NoConfig.directives = <<>> /\ IsList(<<>>)
      BY DEF NoConfig, IsList
    <2> QED
      BY <1>1, <1>2, <2>1
  <1>3. CASE kept # {}
    <2> PICK k : k = Min(kept)
      OBVIOUS
    <2>1. Path \in Seq(DOMAIN Begun)
      BY ExtractorAssumption
    <2>2. kept \in SUBSET Nat /\ \A i \in kept : Path[i] \in DOMAIN Begun
      BY <2>1
    <2>3. Path[k] \in DOMAIN configs
      BY <1>3, <2>2, LeastExists DEF FilesOK
    <2> PICK lines : lines = configs[Path[k]]
      OBVIOUS
    <2>4. Parsed(Parse(lines), lines)
      BY <2>3, ParseRight DEF FilesOK
    <2>5. \E S : Parse(lines).directives \in Seq(DirectiveOf(S))
      BY <2>4 DEF Parsed
    <2> QED
      BY <1>1, <1>3, <2>5, SeqIsList
  <1> QED
    BY <1>2, <1>3

(* The directives are the lines of a valid config, in their order.             *)
Tells(d, lines) ==
    /\ Len(d) = NumberOf(lines, Kinds)
    /\ \A i \in DOMAIN lines : lines[i].kw \in Kinds =>
         LET r == d[Cardinality({j \in 1..i : lines[j].kw \in Kinds})]
         IN  <<r.kw, r.name, r.source, r.arg>>
               = <<lines[i].kw, lines[i].name, lines[i].source, lines[i].arg>>

(* Reading a valid config keeps every directive of it.                         *)
LEMMA ParseTells ==
    ASSUME NEW lines, IsList(lines), \A j \in DOMAIN lines : Named(lines[j]), Valid(lines)
    PROVE  Tells(Parse(lines).directives, lines)
  <1>1. Parsed(Parse(lines), lines)
    BY ParseRight
  <1>2. PICK d : d = Parse(lines).directives
    OBVIOUS
  <1>3. PICK n : n = Len(lines)
    OBVIOUS
  <1>4. DirectivesFit(lines, n, d)
    BY <1>1, <1>2, <1>3 DEF Parsed
  <1>5. n \in Nat /\ DOMAIN lines = 1..n
    BY <1>3, ListIsSeq
  <1>6. Len(d) = NumberOf(lines, Kinds)
    BY <1>4, <1>5, Zenon DEF DirectivesFit, NumberOf, CountTo
  <1>7. ASSUME NEW i \in DOMAIN lines, lines[i].kw \in Kinds
        PROVE  LET r == d[Cardinality({j \in 1..i : lines[j].kw \in Kinds})]
               IN  <<r.kw, r.name, r.source, r.arg>>
                     = <<lines[i].kw, lines[i].name, lines[i].source, lines[i].arg>>
    <2>0. PICK r : r = d[CountTo(lines, i, Kinds)]
      OBVIOUS
    <2>1. SameAs(r, lines[i])
      BY <1>4, <1>5, <1>7, <2>0, Zenon DEF DirectivesFit
    <2>2. r = d[Cardinality({j \in 1..i : lines[j].kw \in Kinds})]
      BY <2>0, Zenon DEF CountTo
    <2>3. <<r.kw, r.name, r.source, r.arg>> = <<lines[i].kw, lines[i].name, lines[i].source, lines[i].arg>>
      BY <2>1, Zenon DEF SameAs
    <2> QED
      BY <2>2, <2>3, Zenon
  <1> QED
    BY <1>2, <1>6, <1>7, Zenon DEF Tells

LEMMA ConfigTold ==
    ASSUME FilesOK, exphase # "write" => ex = Discover
    PROVE  ConfigRight
  <1> SUFFICES ASSUME exphase # "write" PROVE ConfigRight
    BY Zenon DEF ConfigRight
  <1>8. PICK kept : kept = {i \in DOMAIN Path : Keep(configs[Path[i]])}
    OBVIOUS
  <1>9. PICK good : good = {i \in DOMAIN Path : Valid(configs[Path[i]]) /\ Wants(configs[Path[i]])}
    OBVIOUS
  <1>1. Path \in Seq(DOMAIN Begun)
    BY ExtractorAssumption
  <1>2. ASSUME NEW i \in DOMAIN Path
        PROVE  IsList(configs[Path[i]]) /\ \A j \in DOMAIN configs[Path[i]] : Named(configs[Path[i]][j])
    <2>1. Path[i] \in DOMAIN configs
      BY <1>1 DEF FilesOK
    <2> QED
      BY <2>1 DEF FilesOK
  <1>3. kept = good
    BY <1>2, <1>8, <1>9, KeepTold
  <1>4. ex = IF good = {} THEN NoConfig ELSE Parse(configs[Path[Min(good)]])
    BY <1>3, <1>8 DEF Discover
  <1>5. CASE good = {}
    BY <1>4, <1>5, <1>9, Zenon DEF ConfigRight
  <1>6. CASE good # {}
    <2>0. PICK k : k = Min(good)
      OBVIOUS
    <2>1. k \in good
      <3>1. good \in SUBSET Nat
        BY <1>1, <1>9
      <3> QED
        BY <1>6, <2>0, <3>1, LeastExists
    <2>8. PICK lines : lines = configs[Path[k]]
      OBVIOUS
    <2>9. k \in DOMAIN Path /\ Valid(lines)
      BY <1>9, <2>1, <2>8
    <2>2. IsList(lines) /\ (\A j \in DOMAIN lines : Named(lines[j])) /\ Valid(lines) /\ ex = Parse(lines)
      <3>1. ex = Parse(lines)
        BY <1>4, <1>6, <2>0, <2>8
      <3> QED
        BY <1>2, <2>8, <2>9, <3>1
    <2>3. Tells(ex.directives, lines)
      BY <2>2, ParseTells, Zenon
    <2>4. Tells(ex.directives, configs[Path[Min(good)]])
      BY <2>0, <2>3, <2>8, Zenon
    <2> QED
      BY <1>6, <1>9, <2>4, Zenon DEF ConfigRight, Tells
  <1> QED
    BY <1>5, <1>6, SMTT(30)

LEMMA ExtractionFromInv ==
    ASSUME ExInv
    PROVE  ExtractionRight
  <1>1. ConfigRight
    BY ConfigTold DEF ExInv
  <1>2. EpisodesRight
    BY DEF ExInv, ListsOK, EpisodesRight
  <1>3. MediaRight
    <2> SUFFICES ASSUME exphase = "run", at <= Len(ex.directives) /\ Here.kw = "output" PROVE MediaRight
      BY DEF MediaRight
    <2>1. RunOK /\ ex = Discover /\ FilesOK
      BY DEF ExInv
    <2>2. IsList(ex.directives)
      BY <2>1, DiscoverList
    <2>3. Has(ex, "list") => at > ListAt(ex)
      BY <2>1, <2>2, FirstRuns DEF RunOK
    <2> PICK own : own = Own(ex, at)
      OBVIOUS
    <2> PICK url : url = episodes[Len(medias) + 1]
      OBVIOUS
    <2>4. StoreOK(ex, at, store, url, site)
      BY <2>1 DEF RunOK
    <2>5. DOMAIN store = {"url"} \cup {ex.directives[i].name : i \in own}
      BY <2>4 DEF StoreOK
    <2>6. ASSUME "url" \notin {ex.directives[i].name : i \in own},
                 \A i, j \in own : ex.directives[i].name = ex.directives[j].name => i = j
          PROVE  /\ store["url"] = TextOf(url)
                 /\ \A i \in own : store[ex.directives[i].name] = Value(ex.directives[i], store, site)
      <3>1. Once(ex, at)
        BY <2>6 DEF Once
      <3> QED
        BY <2>4, <3>1 DEF StoreOK
    <2>7. own = {i \in FirstToRun(ex)..(at - 1) : ex.directives[i].kw \in {"var", "get"}}
      BY DEF Own
    <2> QED
      BY <2>3, <2>5, <2>6, <2>7 DEF MediaRight, Value
  <1> QED
    BY <1>1, <1>2, <1>3 DEF ExtractionRight

LEMMA ExBegins == ASSUME ExtractorInit PROVE ExInv
  <1>1. FilesOK
    BY ExtractorAssumption DEF ExtractorInit, FilesOK
  <1>2. IsList(<<>>) /\ Len(<<>>) = 0 /\ DOMAIN <<>> = {}
    BY DEF IsList
  <1>3. ListsOK
    <2>1. MaxEpisodes \in Nat
      BY ExtractorAssumption
    <2>2. IsInjective(<<>>)
      BY <1>2 DEF IsInjective
    <2> QED
      BY <1>2, <2>1, <2>2 DEF ExtractorInit, ListsOK
  <1> QED
    BY <1>1, <1>3 DEF ExtractorInit, ExInv

(* What a step that leaves the files and the pages has to show.               *)
LEMMA Later ==
    ASSUME ExInv, configs' = configs, exphase' # "write", ex' = Discover, ListsOK',
           exphase' = "list" => medias' = <<>> /\ episodes' # <<>>,
           exphase' = "run" => RunOK'
    PROVE  ExInv'
  <1>1. FilesOK'
    BY DEF ExInv, FilesOK
  <1>2. Discover' = Discover
    BY DEF Discover
  <1> QED
    BY <1>1, <1>2 DEF ExInv

LEMMA NewRun ==
    ASSUME FilesOK, ex = Discover, ex' = ex, Run(episodes'[Len(medias') + 1]), Len(medias') < Len(episodes')
    PROVE  RunOK'
  <1> PICK c, url : c = ex /\ url = episodes'[Len(medias') + 1]
    OBVIOUS
  <1>1. IsList(c.directives)
    BY DiscoverList
  <1>2. FirstToRun(c) \in Nat
    BY <1>1, FirstRuns
  <1>3. StoreOK(c, FirstToRun(c), OnlyUrl(url), url, site')
    BY <1>1, RunBegins
  <1> QED
    BY <1>2, <1>3 DEF RunOK, Run

LEMMA ExWrites == ASSUME ExInv, Write, site' = site PROVE ExInv'
  <1>1. PICK entry \in Lines : configs' = [configs EXCEPT ![UserFile] = Append(@, entry)]
    BY DEF Write
  <1>2. FilesOK'
    <2> PICK s, t : s = configs[UserFile] /\ t = Append(s, entry)
      OBVIOUS
    <2>1. UserFile \in DOMAIN configs
      <3>1. Path \in Seq(DOMAIN Begun) /\ UserFile \in ToSet(Path)
        BY ExtractorAssumption
      <3>2. UserFile \in DOMAIN Begun
        BY <3>1 DEF ToSet
      <3> QED
        BY <3>2 DEF ExInv, FilesOK
    <2>2. IsList(s) /\ \A i \in DOMAIN s : Named(s[i])
      BY <2>1 DEF ExInv, FilesOK
    <2>3. IsList(t) /\ \A i \in DOMAIN t : Named(t[i])
      <3>1. Named(entry)
        BY ExtractorAssumption
      <3>2. DOMAIN s = 1..Len(s) /\ Len(s) \in Nat
        BY <2>2, ListIsSeq
      <3>3. \A i \in 1..(Len(s) + 1) : i = Len(s) + 1 \/ i \in 1..Len(s)
        BY <3>2
      <3> QED
        BY <2>2, <3>1, <3>2, <3>3, AppendList
    <2>4. configs' = [configs EXCEPT ![UserFile] = t]
      BY <1>1
    <2> QED
      BY <2>1, <2>3, <2>4 DEF ExInv, FilesOK
  <1>3. ListsOK'
    BY DEF ExInv, ListsOK, Write
  <1> QED
    BY <1>2, <1>3 DEF ExInv, Write

LEMMA ExFinds == ASSUME ExInv, Begin, site' = site PROVE ExInv'
  <1>1. /\ exphase = "write" /\ ex' = Discover /\ episodes' = <<Page>> /\ configs' = configs
        /\ at' = 1 /\ store' = OnlyUrl(Page) /\ medias' = <<>> /\ FilesOK
    BY DEF ExInv, Begin
  <1>2. exphase' \in {"list", "run", "failed", "passed"} /\ (exphase' = "run" => ~Has(ex', "list"))
    BY DEF Begin
  <1>3. /\ IsList(<<Page>>) /\ Len(<<Page>>) = 1 /\ IsInjective(<<Page>>) /\ <<Page>>[1] = Page
        /\ IsList(<<>>) /\ Len(<<>>) = 0
    <2>1. /\ Len(<<Page>>) = 1 /\ DOMAIN <<Page>> = {1} /\ <<Page>>[1] = Page /\ Len(<<>>) = 0
          /\ IsList(<<Page>>) /\ IsList(<<>>)
      BY DEF IsList
    <2> QED
      BY <2>1 DEF IsInjective
  <1>4. ListsOK'
    <2>1. 1 <= MaxEpisodes
      BY ExtractorAssumption
    <2> QED
      BY <1>1, <1>3, <2>1 DEF ListsOK
  <1>5. exphase' = "run" => RunOK'
    <2> SUFFICES ASSUME exphase' = "run" PROVE RunOK'
      OBVIOUS
    <2>1. FirstToRun(ex') = 1
      BY <1>1, <1>2, DiscoverList, FirstRuns
    <2>2. episodes'[Len(medias') + 1] = Page /\ Len(medias') < Len(episodes')
      BY <1>1, <1>3
    <2>3. StoreOK(ex', 1, OnlyUrl(Page), Page, site')
      BY <1>1, <2>1, DiscoverList, RunBegins
    <2> QED
      BY <1>1, <2>1, <2>2, <2>3 DEF RunOK, FirstToRun, Has, ListAt
  <1>6. <<Page>> # <<>>
    OBVIOUS
  <1> QED
    BY <1>1, <1>2, <1>4, <1>5, <1>6, Later

LEMMA ExLists == ASSUME ExInv, ListDirective \/ Lost, site' = site PROVE ExInv'
  <1>1. /\ exphase = "list" /\ exphase' \in {"list", "failed"} /\ configs' = configs /\ ex' = ex
        /\ episodes' = episodes /\ medias' = medias
    BY DEF ListDirective, Lost
  <1>2. ListsOK'
    BY <1>1 DEF ExInv, ListsOK
  <1> QED
    BY <1>1, <1>2, Later DEF ExInv

LEMMA CutShort ==
    ASSUME NEW S, NEW s \in Seq(S), NEW m \in 0..Len(s)
    PROVE  SubSeq(s, 1, m) \in Seq(S) /\ Len(SubSeq(s, 1, m)) = m
  OBVIOUS

LEMMA FoundRight ==
    ASSUME CapturesGiveLists, Found # <<>>
    PROVE  IsList(Found) /\ Len(Found) <= MaxEpisodes
  <1> PICK s, m : /\ s = Captures(Interpolate(Here.arg, store), store[Here.source])
                  /\ m = Min({Len(s), MaxEpisodes})
    OBVIOUS
  <1>1. IsList(s) /\ MaxEpisodes \in Nat
    BY ExtractorAssumption DEF CapturesGiveLists
  <1>2. Len(s) \in Nat
    BY <1>1, ListIsSeq
  <1>3. m \in Nat /\ m <= Len(s) /\ m <= MaxEpisodes
    <2> PICK A : A = {Len(s), MaxEpisodes}
      OBVIOUS
    <2>1. A \in SUBSET Nat /\ A # {} /\ Len(s) \in A /\ MaxEpisodes \in A
      BY <1>1, <1>2
    <2>2. Min(A) \in A /\ \A i \in A : Min(A) <= i
      BY <2>1, LeastExists
    <2> QED
      BY <2>1, <2>2
  <1>4. Found = SubSeq(s, 1, m)
    BY DEF Found
  <1> PICK S : S = {s[i] : i \in 1..Len(s)}
    OBVIOUS
  <1>5. s \in Seq(S)
    BY Zenon, <1>1, ListIsSeq
  <1>6. SubSeq(s, 1, m) \in Seq(S) /\ Len(SubSeq(s, 1, m)) = m
    <2>1. m \in 0..Len(s)
      BY <1>2, <1>3
    <2> QED
      BY Zenon, <1>5, <2>1, CutShort
  <1> QED
    BY <1>3, <1>4, <1>6, SeqIsList

LEMMA ExSpreads == ASSUME CapturesGiveLists, ExInv, ListEpisodes, site' = site PROVE ExInv'
  <1>1. /\ exphase = "list" /\ Found # <<>> /\ episodes' = Deduped(Found) /\ Run(episodes'[1])
        /\ configs' = configs /\ ex' = ex /\ medias' = medias
    BY DEF ListEpisodes, ListWorks
  <1>2. medias = <<>> /\ ex = Discover /\ FilesOK /\ ListsOK
    BY <1>1 DEF ExInv
  <1> PICK found, urls : found = Found /\ urls = Deduped(found)
    OBVIOUS
  <1>3. IsList(found) /\ Len(found) <= MaxEpisodes
    BY <1>1, FoundRight
  <1>4. IsList(urls) /\ IsInjective(urls) /\ Len(urls) \in 1..Len(found)
    BY <1>1, <1>3, DedupedRight
  <1>5. Len(medias) = 0 /\ Len(found) \in Nat /\ MaxEpisodes \in Nat
    BY <1>2, <1>3, ExtractorAssumption, ListIsSeq
  <1>6. ListsOK'
    BY <1>1, <1>2, <1>3, <1>4, <1>5 DEF ListsOK
  <1>7. RunOK'
    <2>1. Len(medias') = 0 /\ Len(medias') < Len(episodes')
      BY <1>1, <1>4, <1>5
    <2>2. Run(episodes'[Len(medias') + 1])
      BY <1>1, <2>1
    <2> QED
      BY <1>1, <1>2, <2>1, <2>2, NewRun
  <1> QED
    BY <1>1, <1>2, <1>6, <1>7, Later DEF Run

LEMMA ExRuns == ASSUME ExInv, RunDirective, site' = site PROVE ExInv'
  <1>1. /\ exphase = "run" /\ exphase' = "run" /\ configs' = configs /\ ex' = ex /\ at' = at + 1
        /\ episodes' = episodes /\ medias' = medias /\ Here.kw # "output"
    BY DEF RunDirective
  <1>2. RunOK /\ ex = Discover /\ FilesOK /\ ListsOK
    BY <1>1 DEF ExInv
  <1>3. FirstToRun(ex) \in Nat
    BY <1>2, DiscoverList, FirstRuns
  <1> PICK c, url, st, a, d : c = ex /\ url = episodes[Len(medias) + 1] /\ st = store /\ a = at /\ d = ex.directives[at]
    OBVIOUS
  <1>4. a \in Nat /\ FirstToRun(c) <= a /\ StoreOK(c, a, st, url, site)
    BY <1>2 DEF RunOK
  <1>5. StoreOK(c, a + 1, store', url, site)
    <2>1. CASE d.kw = "list"
      <3>1. store' = st
        BY <2>1 DEF RunDirective, Here
      <3>2. Own(c, a + 1) = Own(c, a)
        <4>1. (a + 1) - 1 = a /\ \A i : i \in FirstToRun(c)..a => i = a \/ i \in FirstToRun(c)..(a - 1)
          BY <1>3, <1>4
        <4>2. \A i \in FirstToRun(c)..(a - 1) : i \in FirstToRun(c)..a
          BY <1>3, <1>4
        <4>3. c.directives[a].kw \notin {"var", "get"}
          BY <2>1
        <4> QED
          BY <4>1, <4>2, <4>3 DEF Own
      <3>3. Once(c, a + 1) <=> Once(c, a)
        BY <3>2 DEF Once
      <3> QED
        BY <1>4, <3>1, <3>2, <3>3 DEF StoreOK
    <2>2. CASE d.kw # "list"
      <3> PICK v, t : v = Value(d, st, site) /\ t = store'
        OBVIOUS
      <3>1. Evaluate
        BY <2>2 DEF RunDirective, Here
      <3>2. /\ d.kw \in {"var", "get"}
            /\ Names(d.arg) \subseteq DOMAIN st
            /\ d.kw = "var" => d.source \in DOMAIN st
            /\ t = [n \in DOMAIN st \cup {d.name} |-> IF n = d.name THEN v ELSE st[n]]
        <4>1. CASE d.kw = "var"
          <5>1. VarWorks /\ Set(d.name, Captures(Interpolate(d.arg, st), st[d.source])[1])
            BY <3>1, <4>1 DEF Evaluate, Here
          <5>2. v = Captures(Interpolate(d.arg, st), st[d.source])[1]
            BY <4>1 DEF Value
          <5>3. Names(d.arg) \subseteq DOMAIN st /\ d.source \in DOMAIN st
            BY <5>1 DEF VarWorks, Undefined, Here
          <5> QED
            BY <4>1, <5>1, <5>2, <5>3 DEF Set
        <4>2. CASE d.kw = "get"
          <5>1. GetWorks /\ Set(d.name, site[Target(d.arg, st)])
            BY <3>1, <4>2 DEF Evaluate, Here
          <5>2. v = site[Target(d.arg, st)]
            BY <4>2 DEF Value
          <5>3. Names(d.arg) \subseteq DOMAIN st
            BY <5>1 DEF GetWorks, Undefined, Here
          <5> QED
            BY <4>2, <5>1, <5>2, <5>3 DEF Set
        <4> QED
          BY <3>1, <4>1, <4>2 DEF Evaluate, Here
      <3>3. d = c.directives[a]
        OBVIOUS
      <3>4. StoreOK(c, a + 1, t, url, site)
        BY <1>3, <1>4, <3>2, <3>3, RunStores, SMTT(30)
      <3> QED
        BY <3>4
    <2> QED
      BY <2>1, <2>2
  <1>6. RunOK'
    <2>1. FirstToRun(ex') = FirstToRun(c) /\ a + 1 \in Nat /\ FirstToRun(c) <= a + 1
      BY <1>1, <1>3, <1>4
    <2>2. Len(medias') < Len(episodes') /\ episodes'[Len(medias') + 1] = url
      BY <1>1, <1>2 DEF RunOK
    <2>3. at' = a + 1 /\ ex' = c /\ site' = site
      BY <1>1
    <2> QED
      BY <1>5, <2>1, <2>2, <2>3 DEF RunOK, FirstToRun, Has, ListAt
  <1>7. ListsOK'
    BY <1>1, <1>2 DEF ListsOK
  <1> QED
    BY <1>1, <1>2, <1>6, <1>7, Later

LEMMA ExGets == ASSUME ExInv, exphase = "run", NEW url, Got(url), site' = site PROVE ExInv'
  <1>1. RunOK /\ ex = Discover /\ FilesOK /\ ListsOK
    BY DEF ExInv
  <1>2. medias' = Append(medias, url) /\ configs' = configs /\ ex' = ex /\ episodes' = episodes
    BY DEF Got
  <1> PICK m, n, k : m = Append(medias, url) /\ n = Len(medias) /\ k = Len(episodes)
    OBVIOUS
  <1>3. IsList(m) /\ Len(m) = n + 1 /\ n \in Nat /\ k \in Nat /\ n < k
    <2>1. IsList(medias) /\ IsList(episodes) /\ n < k
      BY <1>1 DEF ListsOK, RunOK
    <2> QED
      BY <2>1, ListIsSeq, AppendList
  <1>4. ListsOK'
    <2>1. Len(m) <= k
      BY <1>3
    <2> QED
      BY <1>1, <1>2, <1>3, <2>1 DEF ListsOK
  <1>5. CASE Len(medias') < Len(episodes)
    <2>1. Run(episodes[Len(medias') + 1])
      BY <1>5 DEF Got
    <2>2. Run(episodes'[Len(medias') + 1]) /\ Len(medias') < Len(episodes')
      BY <1>2, <1>5, <2>1
    <2>3. RunOK'
      BY <1>1, <1>2, <2>2, NewRun
    <2>4. exphase' = "run"
      BY <2>1 DEF Run
    <2> QED
      BY <1>1, <1>2, <1>4, <2>3, <2>4, Later
  <1>6. CASE ~(Len(medias') < Len(episodes))
    <2>1. exphase' = "resolved"
      BY <1>6 DEF Got
    <2> QED
      BY <1>1, <1>2, <1>4, <2>1, Later
  <1> QED
    BY <1>5, <1>6

LEMMA ExFails == ASSUME ExInv, RunFails, site' = site PROVE ExInv'
  <1>1. CASE Len(episodes) > 1
    BY <1>1, ExGets DEF RunFails
  <1>2. CASE ~(Len(episodes) > 1)
    <2>1. /\ exphase = "run" /\ exphase' = "failed" /\ configs' = configs /\ ex' = ex
          /\ episodes' = episodes /\ medias' = medias
      BY <1>2 DEF RunFails
    <2>2. ListsOK' /\ ex = Discover
      BY <2>1 DEF ExInv, ListsOK
    <2> QED
      BY <2>1, <2>2, Later
  <1> QED
    BY <1>1, <1>2

(* Every step of the extractor keeps the invariant.                            *)
LEMMA ExKeeps == ASSUME CapturesGiveLists, ExInv, [ExtractorNext]_exvars PROVE ExInv'
  <1>1. CASE ExtractorNext
    <2>0. site' = site
      BY <1>1 DEF ExtractorNext
    <2>1. CASE Write
      BY <2>0, <2>1, ExWrites
    <2>2. CASE Begin
      BY <2>0, <2>2, ExFinds
    <2>3. CASE ListDirective \/ Lost
      BY <2>0, <2>3, ExLists
    <2>4. CASE ListEpisodes
      BY <2>0, <2>4, ExSpreads
    <2>5. CASE RunDirective
      BY <2>0, <2>5, ExRuns
    <2>6. CASE Output
      BY <2>0, <2>6, ExGets DEF Output
    <2>7. CASE RunFails
      BY <2>0, <2>7, ExFails
    <2> QED
      BY <1>1, <2>1, <2>2, <2>3, <2>4, <2>5, <2>6, <2>7 DEF ExtractorNext, Extract
  <1>2. CASE UNCHANGED exvars
    BY <1>2 DEF exvars, ExInv, FilesOK, ListsOK, RunOK, Discover, FirstToRun, Has, ListAt
  <1> QED
    BY <1>1, <1>2

(* The config that is used is the first that is valid and wants the page, no  *)
(* episode is listed twice, and a media URL is made of its own page's values  *)
(* (discover, run_directives, resolve_dedup_list).                             *)
THEOREM ExtractionAlwaysRight == ASSUME CapturesGiveLists PROVE ExtractorSpec => []ExtractionRight
  <1>1. ExtractorInit => ExInv
    BY ExBegins
  <1>2. ExInv /\ [ExtractorNext]_exvars => ExInv'
    BY ExKeeps
  <1>3. ExInv => ExtractionRight
    BY ExtractionFromInv
  <1> QED
    BY <1>1, <1>2, <1>3, PTL DEF ExtractorSpec

-----------------------------------------------------------------------------
(***************************************************************************)
(* The page scanner                                                        *)
(***************************************************************************)

LEMMA Joined ==
    ASSUME NEW S, NEW s \in Seq(S), NEW t \in Seq(S)
    PROVE  /\ s \o t \in Seq(S) /\ Len(s \o t) = Len(s) + Len(t)
           /\ Len(s) = 0 => s = <<>>
           /\ <<>> \in Seq(S)
  OBVIOUS

LEMMA IsListOf ==
    ASSUME NEW n \in Nat, NEW s, s = [i \in 1..n |-> s[i]]
    PROVE  IsList(s) /\ Len(s) = n /\ DOMAIN s = 1..n
  BY DEF IsList

(* Lists in a row are a list of what is in them.                              *)
LEMMA FlatIsSeq ==
    ASSUME NEW E, NEW seqs \in Seq(Seq(E))
    PROVE  FlattenSeq(seqs) \in Seq(E)
  <1> PICK n : n = Len(seqs)
    OBVIOUS
  <1>1. n \in Nat /\ \A i \in 1..n : seqs[i] \in Seq(E)
    OBVIOUS
  <1>2. CASE n = 0
    <2>1. FlattenSeq(seqs) = seqs
      BY <1>2 DEF FlattenSeq
    <2>2. seqs = <<>>
      BY <1>2, Joined
    <2>3. <<>> \in Seq(E)
      OBVIOUS
    <2> QED
      BY <2>1, <2>2, <2>3
  <1>3. CASE n # 0
    <2> DEFINE next == [p \in (1..n) \X Seq(E) |-> IF p[1] = 1 THEN seqs[1] ELSE p[2] \o seqs[p[1]]]
               On(h) == [i \in 1..n |-> IF i = 1 THEN seqs[i] ELSE h[i - 1] \o seqs[i]]
               c == CHOOSE h : h = On(h)
    <2>1. 1 \in 1..n /\ n \in 1..n
      BY <1>1, <1>3
    <2>2. next \in [(1..n) \X Seq(E) -> Seq(E)]
      BY <1>1, <2>1
    <2>3. \A i \in 1..n, b \in Seq(E) : next[<<i, b>>] = IF i = 1 THEN seqs[1] ELSE b \o seqs[i]
      OBVIOUS
    <2>4. PICK g : Runs(g, n, Seq(E), <<>>, next)
      <3> HIDE DEF next
      <3>1. <<>> \in Seq(E)
        OBVIOUS
      <3> QED
        BY <1>1, <2>2, <3>1, LoopRuns
    <2> HIDE DEF next
    <2>5. /\ g \in [0..n -> Seq(E)]
          /\ \A i \in 1..n : g[i] = IF i = 1 THEN seqs[1] ELSE g[i - 1] \o seqs[i]
      <3>1. g \in [0..n -> Seq(E)] /\ \A i \in 1..n : g[i] = next[<<i, g[i - 1]>>]
        BY <2>4 DEF Runs
      <3>2. \A i \in 1..n : g[i - 1] \in Seq(E)
        <4>1. \A i \in 1..n : i - 1 \in 0..n
          BY <1>1
        <4> QED
          BY <3>1, <4>1
      <3> QED
        BY <2>3, <3>1, <3>2
    <2> DEFINE f == [i \in 1..n |-> g[i]]
    <2>6. f = On(f)
      <3>1. ASSUME NEW i \in 1..n PROVE f[i] = On(f)[i]
        <4>1. i = 1 \/ i - 1 \in 1..n
          BY <1>1, SMTT(30)
        <4> QED
          BY <2>5, <4>1
      <3> QED
        BY <3>1
    <2>7. c = On(c)
      BY <2>6, Zenon
    <2>8. FlattenSeq(seqs) = c[n]
      BY <1>3 DEF FlattenSeq
    <2> HIDE DEF c
    <2>9. \A i \in 1..n : c[i] = IF i = 1 THEN seqs[i] ELSE c[i - 1] \o seqs[i]
      BY <2>7
    <2>10. n \in {0} \cup {i \in 1..n : c[i] \in Seq(E)}
      <3> DEFINE P == {0} \cup {i \in 1..n : c[i] \in Seq(E)}
      <3>1. 0 \in P
        OBVIOUS
      <3>2. ASSUME NEW i \in 1..n, i - 1 \in P PROVE i \in P
        <4>1. CASE i = 1
          BY <1>1, <2>9, <4>1
        <4>2. CASE i # 1
          <5>1. i - 1 # 0
            BY <4>2, <1>1
          <5>2. c[i - 1] \in Seq(E)
            BY <3>2, <5>1
          <5>3. seqs[i] \in Seq(E) /\ c[i] = c[i - 1] \o seqs[i]
            BY <1>1, <2>9, <4>2
          <5> QED
            <6> PICK s, t : s = c[i - 1] /\ t = seqs[i]
              OBVIOUS
            <6>1. s \in Seq(E) /\ t \in Seq(E)
              BY <5>2, <5>3
            <6>2. s \o t \in Seq(E)
              BY <6>1, Joined
            <6>3. c[i] \in Seq(E)
              BY <5>3, <6>2
            <6> QED
              BY <6>3
        <4> QED
          BY <4>1, <4>2
      <3>3. \A i \in 0..n : i \in P
        <4> HIDE DEF P
        <4> QED
          BY <1>1, <3>1, <3>2, AfterEveryStep
      <3> QED
        BY <1>1, <3>3
    <2>11. c[n] \in Seq(E)
      BY <1>3, <2>10
    <2> QED
      BY <2>8, <2>11
  <1> QED
    BY <1>2, <1>3

(* What is kept is a part of what was found.                                  *)
LEMMA KeptIsSeq ==
    ASSUME NEW E, NEW list \in Seq(E), NEW fit, NEW known, NEW room
    PROVE  Kept(list, fit, known, room) \in Seq(E)
  <1> PICK n : n = Len(list)
    OBVIOUS
  <1>1. n \in Nat /\ \A i \in 1..n : list[i] \in E
    OBVIOUS
  <1> DEFINE step(i, b) == IF i \in fit /\ list[i].url \notin known \cup UrlsOf(b) /\ Len(b) < room
                           THEN Append(b, list[i]) ELSE b
             next == [p \in (1..n) \X Seq(E) |-> step(p[1], p[2])]
             On(h) == [i \in 0..n |-> IF i = 0 THEN <<>> ELSE step(i, h[i - 1])]
             c == CHOOSE h : h = On(h)
  <1>2. Kept(list, fit, known, room) = c[n]
    BY DEF Kept
  <1>3. \A i \in 1..n, b \in Seq(E) : step(i, b) \in Seq(E)
    BY <1>1
  <1> HIDE DEF step
  <1>4. next \in [(1..n) \X Seq(E) -> Seq(E)]
    BY <1>3
  <1>5. \A i \in 1..n, b \in Seq(E) : next[<<i, b>>] = step(i, b)
    OBVIOUS
  <1>6. PICK g : Runs(g, n, Seq(E), <<>>, next)
    <2> HIDE DEF next
    <2>1. <<>> \in Seq(E)
      OBVIOUS
    <2> QED
      BY <1>1, <1>4, <2>1, LoopRuns
  <1> HIDE DEF next
  <1>7. g \in [0..n -> Seq(E)] /\ g[0] = <<>> /\ \A i \in 1..n : g[i] = step(i, g[i - 1])
    <2>1. g \in [0..n -> Seq(E)] /\ g[0] = <<>> /\ \A i \in 1..n : g[i] = next[<<i, g[i - 1]>>]
      BY <1>6 DEF Runs
    <2>2. ASSUME NEW i \in 1..n PROVE g[i - 1] \in Seq(E)
      <3>1. i - 1 \in 0..n
        BY <1>1
      <3> QED
        BY <2>1, <3>1
    <2> QED
      BY <1>5, <2>1, <2>2
  <1>8. g = On(g)
    <2>1. ASSUME NEW i \in 0..n PROVE g[i] = On(g)[i]
      <3>1. i = 0 \/ i \in 1..n
        BY <1>1
      <3> QED
        BY <1>7, <3>1
    <2> QED
      BY <1>7, <2>1
  <1>9. c = On(c)
    BY <1>8
  <1> HIDE DEF c
  <1>10. c[0] = <<>> /\ \A i \in 1..n : c[i] = step(i, c[i - 1])
    <2>1. \A i \in 0..n : c[i] = IF i = 0 THEN <<>> ELSE step(i, c[i - 1])
      BY <1>9
    <2>2. 0 \in 0..n /\ \A i \in 1..n : i \in 0..n /\ i # 0
      BY <1>1
    <2> QED
      BY <2>1, <2>2
  <1>11. \A i \in 0..n : i \in {j \in 0..n : c[j] \in Seq(E)}
    <2> DEFINE P == {j \in 0..n : c[j] \in Seq(E)}
    <2>1. 0 \in P
      <3>1. <<>> \in Seq(E)
        BY Joined
      <3>2. 0 \in 0..n
        BY <1>1
      <3> QED
        BY <1>10, <3>1, <3>2
    <2>2. ASSUME NEW i \in 1..n, i - 1 \in P PROVE i \in P
      BY <1>1, <1>3, <1>10, <2>2
    <2> HIDE DEF P
    <2>3. \A i \in 0..n : i \in P
      BY <1>1, <2>1, <2>2, AfterEveryStep
    <2> QED
      BY <2>3 DEF P
  <1>12. n \in 0..n
    BY <1>1
  <1> QED
    BY <1>2, <1>11, <1>12

(* The way of a chain, if it goes by these URLs.                              *)
GoesBy(chain, n, url) == \A k \in 1..(n - 1) : url[k + 1] = Resolve(url[k], RefOf(chain[k].sample))

WentBy(chain, n, url) == \A k \in 1..n : Way(url[1], chain)[k] = url[k]

LEMMA WayGoes ==
    ASSUME NEW n \in Nat \ {0}, NEW chain, Len(chain) = n, NEW url, GoesBy(chain, n, url)
    PROVE  WentBy(chain, n, url)
  <1> DEFINE next(k, u) == Resolve(u, RefOf(chain[k].sample))
             On(h) == [k \in 1..(n + 1) |-> IF k = 1 THEN url[1] ELSE next(k - 1, h[k - 1])]
             g == [k \in 1..(n + 1) |-> IF k = n + 1 THEN next(n, url[n]) ELSE url[k]]
             c == CHOOSE h : h = On(h)
  <1>1. Way(url[1], chain) = c
    BY DEF Way
  <1>2. \A k \in 1..(n - 1) : url[k + 1] = next(k, url[k])
    BY DEF GoesBy
  <1> HIDE DEF next
  <1>3. g = On(g)
    <2>1. ASSUME NEW k \in 1..(n + 1) PROVE g[k] = On(g)[k]
      <3>1. CASE k = 1
        BY <3>1
      <3>2. CASE k = n + 1 /\ k # 1
        <4>1. k - 1 = n /\ n \in 1..(n + 1) /\ n # n + 1
          BY <3>2
        <4>2. g[n] = url[n]
          BY <4>1
        <4> QED
          BY <3>2, <4>1, <4>2
      <3>3. CASE k # n + 1 /\ k # 1
        <4>1. k - 1 \in 1..(n - 1) /\ k - 1 \in 1..(n + 1) /\ k - 1 # n + 1 /\ (k - 1) + 1 = k
          BY <3>3
        <4>2. g[k - 1] = url[k - 1] /\ g[k] = url[k]
          BY <3>3, <4>1
        <4>3. url[k] = next(k - 1, url[k - 1])
          BY <1>2, <4>1
        <4> QED
          BY <3>3, <4>1, <4>2, <4>3
      <3> QED
        BY <3>1, <3>2, <3>3
    <2> QED
      BY <2>1
  <1>4. c = On(c)
    BY <1>3
  <1> HIDE DEF c
  <1>5. \A k \in 1..(n + 1) : c[k] = IF k = 1 THEN url[1] ELSE next(k - 1, c[k - 1])
    BY <1>4
  <1>6. \A k \in 0..n : k \in {0} \cup {j \in 1..n : c[j] = url[j]}
    <2> DEFINE P == {0} \cup {j \in 1..n : c[j] = url[j]}
    <2>1. 0 \in P
      OBVIOUS
    <2>2. ASSUME NEW k \in 1..n, k - 1 \in P PROVE k \in P
      <3>1. k \in 1..(n + 1)
        OBVIOUS
      <3>2. CASE k = 1
        BY <1>5, <3>1, <3>2
      <3>3. CASE k # 1
        <4>1. k - 1 # 0 /\ k - 1 \in 1..(n - 1) /\ (k - 1) + 1 = k
          BY <3>3
        <4>2. c[k - 1] = url[k - 1]
          BY <2>2, <4>1
        <4>3. url[k] = next(k - 1, url[k - 1])
          BY <1>2, <4>1
        <4> QED
          BY <1>5, <3>1, <3>3, <4>2, <4>3
      <3> QED
        BY <3>2, <3>3
    <2> HIDE DEF P
    <2>3. \A k \in 0..n : k \in P
      BY <2>1, <2>2, AfterEveryStep
    <2> QED
      BY <2>3 DEF P
  <1>7. \A k \in 1..n : k \in 0..n /\ k # 0
    OBVIOUS
  <1> QED
    BY <1>1, <1>6, <1>7 DEF WentBy

(* The length to which a list is cut.                                         *)
LEMMA CutLength ==
    ASSUME NEW n \in Nat, NEW k \in Nat
    PROVE  Min({n, k}) \in 0..n
  <1> PICK A : A = {n, k}
    OBVIOUS
  <1>1. A \in SUBSET Nat /\ A # {} /\ n \in A
    OBVIOUS
  <1>2. Min(A) \in A /\ \A i \in A : Min(A) <= i
    BY <1>1, LeastExists
  <1>3. Min(A) \in Nat /\ Min(A) <= n
    BY <1>1, <1>2
  <1> QED
    BY <1>3

(* Links of a page: each is what one of its expressions finds there.          *)
LinkReads(s, url, l) == l.url = Resolve(url, RefOf(l.ref)) /\ Contains(ScanCaptures(l.ere, s[url]), l.ref)

ReadList(s, url, links) == IsList(links) /\ \A i \in 1..Len(links) : LinkReads(s, url, links[i])

ReadSet(links) == {links[i] : i \in 1..Len(links)}

LEMMA ReadListIsSeq ==
    ASSUME NEW st, NEW url, NEW links, ReadList(st, url, links)
    PROVE  /\ links \in Seq(ReadSet(links)) /\ Len(links) \in Nat
           /\ \A l \in ReadSet(links) : LinkReads(st, url, l)
  <1>1. IsList(links) /\ \A i \in 1..Len(links) : LinkReads(st, url, links[i])
    BY DEF ReadList
  <1>2. links \in Seq({links[i] : i \in 1..Len(links)}) /\ Len(links) \in Nat
    BY <1>1, ListIsSeq
  <1> QED
    BY <1>1, <1>2 DEF ReadSet

LEMMA SeqIsReadList ==
    ASSUME NEW st, NEW url, NEW E, \A l \in E : LinkReads(st, url, l), NEW links \in Seq(E)
    PROVE  ReadList(st, url, links)
  <1>1. IsList(links)
    BY SeqIsList
  <1>2. \A i \in 1..Len(links) : links[i] \in E
    OBVIOUS
  <1> QED
    BY <1>1, <1>2 DEF ReadList

LEMMA KeptReads ==
    ASSUME NEW st, NEW url, NEW list, ReadList(st, url, list), NEW fit, NEW known, NEW room
    PROVE  ReadList(st, url, Kept(list, fit, known, room))
  <1> PICK E : E = ReadSet(list)
    OBVIOUS
  <1>1. list \in Seq(E) /\ \A l \in E : LinkReads(st, url, l)
    BY ReadListIsSeq
  <1>2. Kept(list, fit, known, room) \in Seq(E)
    BY <1>1, KeptIsSeq
  <1> QED
    BY <1>1, <1>2, SeqIsReadList

LEMMA CutReads ==
    ASSUME NEW st, NEW url, NEW a, ReadList(st, url, a), NEW b, ReadList(st, url, b), NEW k \in Nat
    PROVE  ReadList(st, url, SubSeq(a \o b, 1, Min({Len(a \o b), k})))
  <1> PICK A, B : A = ReadSet(a) /\ B = ReadSet(b)
    OBVIOUS
  <1> PICK E : E = A \cup B
    OBVIOUS
  <1>1. a \in Seq(A) /\ b \in Seq(B) /\ \A l \in E : LinkReads(st, url, l)
    BY ReadListIsSeq
  <1>2. a \in Seq(E) /\ b \in Seq(E)
    BY <1>1
  <1>3. a \o b \in Seq(E)
    BY <1>2, Joined
  <1> PICK s : s = a \o b
    OBVIOUS
  <1>4. s \in Seq(E) /\ Len(s) \in Nat
    BY <1>3
  <1>5. Min({Len(s), k}) \in 0..Len(s)
    BY <1>4, CutLength
  <1>6. SubSeq(s, 1, Min({Len(s), k})) \in Seq(E)
    BY <1>4, <1>5, CutShort
  <1> QED
    BY <1>1, <1>6, SeqIsReadList

LEMMA LinksRead ==
    ASSUME CapturesGiveLists, NEW ere
    PROVE  ReadList(site, Current.url, Links(ere))
  <1> PICK url : url = Current.url
    OBVIOUS
  <1> PICK refs, n : refs = ScanCaptures(ere, Body) /\ n = Len(refs)
    OBVIOUS
  <1>1. n \in Nat /\ refs = ScanCaptures(ere, site[url])
    <2>1. IsList(refs)
      BY DEF CapturesGiveLists
    <2> QED
      BY <2>1 DEF IsList, Body
  <1>2. Links(ere) = [i \in 1..n |-> Link(refs[i], ere)]
    BY DEF Links
  <1>3. ASSUME NEW i \in 1..n PROVE LinkReads(site, url, Link(refs[i], ere))
    BY <1>1, <1>3 DEF LinkReads, Link, Linked, Contains
  <1> PICK links : links = Links(ere)
    OBVIOUS
  <1>4. Len(links) = n /\ links = [i \in 1..n |-> links[i]] /\ \A i \in 1..n : links[i] = Link(refs[i], ere)
    <2>1. links = [i \in 1..n |-> links[i]] /\ \A i \in 1..n : links[i] = Link(refs[i], ere)
      BY <1>2
    <2> QED
      BY <1>1, <2>1, IsListOf
  <1>5. \A i \in 1..n : LinkReads(site, url, links[i])
    BY <1>3, <1>4
  <1> QED
    BY <1>1, <1>4, <1>5 DEF ReadList, IsList

LEMMA LikelyReads ==
    ASSUME CapturesGiveLists
    PROVE  ReadList(site, Current.url, LikelyLinks)
  <1> PICK url, eres : url = Current.url /\ eres = LinkEres
    OBVIOUS
  <1> DEFINE links == [i \in DOMAIN LinkEres |-> Links(LinkEres[i])]
             E == UNION {ReadSet(links[i]) : i \in DOMAIN LinkEres}
  <1>1. DOMAIN LinkEres = 1..Len(LinkEres) /\ Len(LinkEres) \in Nat
    BY ScanAssumption, ListIsSeq
  <1>2. ASSUME NEW i \in DOMAIN LinkEres
        PROVE  ReadList(site, url, links[i]) /\ links[i] \in Seq(E)
    <2>1. ReadList(site, url, Links(LinkEres[i])) /\ links[i] = Links(LinkEres[i])
      BY LinksRead
    <2>2. links[i] \in Seq(ReadSet(links[i]))
      BY <2>1, ReadListIsSeq
    <2>3. ReadSet(links[i]) \subseteq E
      OBVIOUS
    <2> HIDE DEF links, E
    <2> QED
      BY <2>1, <2>2, <2>3
  <1>3. ASSUME NEW l \in E PROVE LinkReads(site, url, l)
    <2>1. PICK i \in DOMAIN LinkEres : l \in ReadSet(links[i])
      BY <1>3
    <2>2. ReadList(site, url, links[i])
      BY <1>2
    <2> HIDE DEF links, E
    <2> QED
      BY <2>1, <2>2, ReadListIsSeq
  <1>4. links \in Seq(Seq(E))
    <2> PICK n : n = Len(LinkEres)
      OBVIOUS
    <2>1. links = [i \in 1..n |-> links[i]] /\ n \in Nat /\ \A i \in 1..n : links[i] \in Seq(E)
      BY <1>1, <1>2
    <2> HIDE DEF links, E
    <2> QED
      BY <2>1
  <1> HIDE DEF E
  <1>5. FlattenSeq(links) \in Seq(E)
    BY <1>4, FlatIsSeq
  <1>6. \E fit : LikelyLinks = Kept(FlattenSeq(links), fit, visited, MaxFollow)
    BY DEF LikelyLinks
  <1> HIDE DEF links
  <1>7. ReadList(site, url, FlattenSeq(links))
    BY <1>3, <1>5, SeqIsReadList
  <1> QED
    BY <1>6, <1>7, KeptReads

LEMMA OtherReads ==
    ASSUME CapturesGiveLists, site \in Sites, Current.url \in DOMAIN site
    PROVE  ReadList(site, Current.url, OtherLinks)
  <1> PICK url, anchors, refs, n : /\ url = Current.url /\ anchors = Links(AnchorEre)
                                   /\ refs = ScanCaptures(AnchorEre, site[url]) /\ n = Len(refs)
    OBVIOUS
  <1> DEFINE ere(i) == HrefEre(Generalized(Loosened, refs[i]))
             found == [i \in 1..Len(anchors) |-> Link(anchors[i].ref, HrefEre(Generalized(Loosened, anchors[i].ref)))]
  <1>1. n \in Nat
    BY DEF CapturesGiveLists, IsList
  <1>2. anchors = [i \in 1..n |-> Link(refs[i], AnchorEre)]
    BY DEF Links, Body
  <1>3. Len(anchors) = n /\ \A i \in 1..n : anchors[i].ref = refs[i]
    BY <1>1, <1>2 DEF Link
  <1>4. found = [i \in 1..n |-> Link(refs[i], ere(i))]
    BY <1>3
  <1>5. \A i \in 1..n : Contains(ScanCaptures(ere(i), site[url]), refs[i])
    BY HrefAssumption
  <1> HIDE DEF ere
  <1>6. \A i \in 1..n : LinkReads(site, url, Link(refs[i], ere(i)))
    BY <1>5 DEF LinkReads, Link, Linked
  <1>7. \E fit, known : OtherLinks = Kept(found, fit, known, MaxPool)
    BY DEF OtherLinks
  <1> HIDE DEF found
  <1>8. ReadList(site, url, found)
    BY <1>1, <1>4, <1>6 DEF ReadList, IsList
  <1> QED
    BY <1>7, <1>8, KeptReads

LEMMA RelevantReads ==
    ASSUME NEW st, NEW url, NEW pool, ReadList(st, url, pool), NEW s \in ByRelevance(pool)
    PROVE  ReadList(st, url, s)
  <1> PICK n : n = Len(pool)
    OBVIOUS
  <1>1. PICK o \in [1..n -> 1..n] : s = [i \in 1..n |-> pool[o[i]]]
    BY DEF ByRelevance
  <1>2. n \in Nat /\ \A i \in 1..n : LinkReads(st, url, pool[i])
    BY DEF ReadList, IsList
  <1>3. Len(s) = n /\ s = [i \in 1..n |-> s[i]] /\ \A i \in 1..n : s[i] = pool[o[i]] /\ o[i] \in 1..n
    BY <1>1, <1>2
  <1> QED
    BY <1>2, <1>3 DEF ReadList, IsList


(* A candidate of the landing page, found without a chain.                    *)
Whole(c) == c = [url |-> c.url, ref |-> c.ref, chain |-> c.chain, param |-> c.param]

Plain(list) == IsList(list) /\ \A i \in 1..Len(list) : Whole(list[i]) /\ list[i].chain = <<>>

LEMMA CollectPlain ==
    ASSUME CapturesGiveLists, NEW fromUrl, NEW list, Plain(list)
    PROVE  Plain(Collect(fromUrl, list))
  <1> DEFINE ms == [i \in DOMAIN DirectEres |-> ScanCaptures(DirectEres[i], site[fromUrl])]
             M == UNION {{ms[i][j] : j \in 1..Len(ms[i])} : i \in DOMAIN DirectEres}
             refs == FlattenSeq(ms)
             found == [i \in 1..Len(refs) |-> Candidate(Resolve(fromUrl, RefOf(refs[i])), refs[i], <<>>)]
  <1>1. DOMAIN DirectEres = 1..Len(DirectEres) /\ Len(DirectEres) \in Nat
    BY ScanAssumption, ListIsSeq
  <1>2. \A i \in DOMAIN DirectEres : ms[i] \in Seq(M)
    <2> SUFFICES ASSUME NEW i \in DOMAIN DirectEres PROVE ms[i] \in Seq(M)
      OBVIOUS
    <2>1. IsList(ms[i])
      BY DEF CapturesGiveLists
    <2>2. ms[i] \in Seq({ms[i][j] : j \in 1..Len(ms[i])})
      BY <2>1, ListIsSeq
    <2>3. {ms[i][j] : j \in 1..Len(ms[i])} \subseteq M
      OBVIOUS
    <2> HIDE DEF ms, M
    <2> QED
      BY <2>2, <2>3
  <1>3. ms \in Seq(Seq(M))
    <2> PICK n : n = Len(DirectEres)
      OBVIOUS
    <2>1. ms = [i \in 1..n |-> ms[i]] /\ n \in Nat /\ \A i \in 1..n : ms[i] \in Seq(M)
      BY <1>1, <1>2
    <2> HIDE DEF ms, M
    <2> QED
      BY <2>1
  <1>4. \E fit, known, room : Collect(fromUrl, list) = list \o Kept(found, fit, known, room)
    BY DEF Collect
  <1> HIDE DEF ms, M
  <1>5. Len(refs) \in Nat
    BY <1>3, FlatIsSeq
  <1> HIDE DEF refs
  <1> DEFINE F == {found[i] : i \in 1..Len(refs)}
             L == {list[i] : i \in 1..Len(list)}
  <1>6. found \in Seq(F)
    BY <1>5
  <1>7. \A c \in F \cup L : Whole(c) /\ c.chain = <<>>
    <2>1. \A i \in 1..Len(refs) : Whole(found[i]) /\ found[i].chain = <<>>
      BY DEF Candidate, Whole
    <2> HIDE DEF found
    <2> QED
      BY <2>1 DEF Plain
  <1>8. list \in Seq(L)
    BY ListIsSeq DEF Plain
  <1> HIDE DEF found, F, L
  <1>9. \A fit, known, room : Kept(found, fit, known, room) \in Seq(F)
    BY <1>6, KeptIsSeq
  <1>10. Collect(fromUrl, list) \in Seq(F \cup L)
    <2> PICK k : k \in Seq(F) /\ Collect(fromUrl, list) = list \o k
      BY <1>4, <1>9
    <2>1. k \in Seq(F \cup L) /\ list \in Seq(F \cup L)
      BY <1>8
    <2> QED
      BY <2>1, Joined
  <1> PICK all : all = Collect(fromUrl, list)
    OBVIOUS
  <1>11. IsList(all) /\ \A i \in 1..Len(all) : all[i] \in F \cup L
    BY <1>10, SeqIsList
  <1> QED
    BY <1>7, <1>11 DEF Plain

-----------------------------------------------------------------------------
(* The calls of discover_chain: their pages lead from one to the next by the  *)
(* steps in the array, and none of them is another's.                         *)
Counted == IsFiniteSet(visited) /\ nfetches = Cardinality(visited) /\ nfetches <= MaxFetches

FrameRight(k) ==
    /\ frames[k] = [url |-> frames[k].url, links |-> frames[k].links]
    /\ frames[k].url \in visited /\ frames[k].url \in DOMAIN site
    /\ \A j \in 1..(k - 1) : frames[j].url # frames[k].url
    /\ frames[k].links # None => k <= maxdepth /\ ReadList(site, frames[k].url, frames[k].links)

StepRight(k) ==
    /\ frames[k + 1].url = Resolve(frames[k].url, RefOf(steps[k].sample))
    /\ Contains(ScanCaptures(steps[k].ere, site[frames[k].url]), steps[k].sample)

FramesRight ==
    /\ IsList(frames) /\ Len(frames) <= maxdepth + 1
    /\ \A k \in 1..Len(frames) : FrameRight(k)
    /\ \A k \in 1..(Len(frames) - 1) : StepRight(k)

CandRight(c) == Whole(c) /\ (c.chain # <<>> => Leads(c))

CandsRight == IsList(cands) /\ \A i \in 1..Len(cands) : CandRight(cands[i])

PhaseRight ==
    /\ scphase = "fetch" => visited = {}
    /\ scphase \in {"iframes", "recurse"} => visited = {Page} /\ Page \in DOMAIN site
    /\ scphase \in {"fetch", "iframes", "recurse"} => frames = <<>> /\ Plain(cands)
    /\ scphase = "follow" => frames # <<>> /\ frames[1].url = page0

ScanInv ==
    /\ maxdepth \in 0..(MaxChain - 1) /\ site \in Sites
    /\ IsList(steps) /\ Len(steps) = MaxChain
    /\ Counted /\ FramesRight /\ CandsRight /\ PhaseRight

(* The inductive invariant holds initially.                                   *)
LEMMA ScanInvInit == ScanInit /\ ExtractorInit => ScanInv
  <1> SUFFICES ASSUME ScanInit, ExtractorInit PROVE ScanInv
    OBVIOUS
  <1> USE DEF ScanInit
  <1>1. maxdepth \in 0..(MaxChain - 1) /\ MaxChain \in Nat /\ MaxFetches \in Nat
    BY ScanAssumption
  <1>2. site \in Sites
    BY DEF ExtractorInit
  <1>3. IsList(steps) /\ Len(steps) = MaxChain
    <2>1. steps = [i \in 1..MaxChain |-> steps[i]]
      OBVIOUS
    <2> QED
      BY <1>1, <2>1, IsListOf
  <1>4. Counted
    BY <1>1, FS_EmptySet DEF Counted
  <1>5. Len(<<>>) = 0 /\ IsList(<<>>)
    BY DEF IsList
  <1>6. FramesRight
    BY <1>1, <1>5 DEF FramesRight
  <1>7. CandsRight /\ Plain(cands)
    BY <1>5 DEF CandsRight, Plain
  <1> QED
    BY <1>1, <1>2, <1>3, <1>4, <1>6, <1>7 DEF ScanInv, PhaseRight

(* What leads to a candidate still does.                                      *)
LEMMA LeadsStill ==
    ASSUME NEW c, Leads(c), page0' = page0, maxdepth' = maxdepth, site' = site, visited \subseteq visited'
    PROVE  Leads(c)'
  BY DEF Leads

LEMMA CandsStay ==
    ASSUME CandsRight, UNCHANGED <<cands, page0, maxdepth, site>>, visited \subseteq visited'
    PROVE  CandsRight'
  <1>1. \A i \in 1..Len(cands) : CandRight(cands[i])'
    BY LeadsStill DEF CandsRight, CandRight, Whole
  <1> QED
    BY <1>1 DEF CandsRight

LEMMA PlainRight ==
    ASSUME Plain(cands)'
    PROVE  CandsRight'
  BY DEF Plain, CandsRight, CandRight

(* The calls that go on as they were.                                         *)
LEMMA FramesStay ==
    ASSUME FramesRight, UNCHANGED <<maxdepth, site>>, visited \subseteq visited',
           NEW m \in 0..Len(frames), \A k \in 1..m : frames'[k].url = frames[k].url,
           \A k \in 1..(m - 1) : steps'[k] = steps[k]
    PROVE  /\ \A k \in 1..m : /\ frames'[k].url \in visited' /\ frames'[k].url \in DOMAIN site'
                             /\ \A j \in 1..(k - 1) : frames'[j].url # frames'[k].url
           /\ \A k \in 1..(m - 1) : StepRight(k)'
  <1>1. Len(frames) \in Nat
    BY DEF FramesRight, IsList
  <1>2. \A k \in 1..m : FrameRight(k) /\ \A j \in 1..(k - 1) : j \in 1..m
    BY <1>1 DEF FramesRight
  <1>3. \A k \in 1..(m - 1) : StepRight(k) /\ k \in 1..m /\ k + 1 \in 1..m
    BY <1>1 DEF FramesRight
  <1>4. ASSUME NEW k \in 1..m
        PROVE  /\ frames'[k].url \in visited' /\ frames'[k].url \in DOMAIN site'
               /\ \A j \in 1..(k - 1) : frames'[j].url # frames'[k].url
    BY <1>2 DEF FrameRight
  <1>5. ASSUME NEW k \in 1..(m - 1) PROVE StepRight(k)'
    BY <1>3 DEF StepRight
  <1> QED
    BY <1>4, <1>5

(* The innermost call goes on to other links.                                 *)
Replaced(g, x) == g = [frames EXCEPT ![Len(frames)].links = x]

Renewed(g, x) ==
    /\ IsList(g) /\ Len(g) = Len(frames)
    /\ \A k \in 1..(Len(frames) - 1) : g[k] = frames[k]
    /\ g[Len(frames)] = [url |-> frames[Len(frames)].url, links |-> x]

LEMMA LinksReplaced ==
    ASSUME FramesRight, frames # <<>>, NEW x, NEW g, Replaced(g, x)
    PROVE  Len(frames) \in Nat \ {0} /\ Renewed(g, x)
  <1> PICK m : m = Len(frames)
    OBVIOUS
  <1>1. m \in Nat /\ frames = [k \in 1..m |-> frames[k]]
    BY DEF FramesRight, IsList
  <1>2. m # 0
    <2> SUFFICES ASSUME m = 0 PROVE FALSE
      OBVIOUS
    <2>1. frames \in Seq({frames[k] : k \in 1..m})
      BY ListIsSeq DEF FramesRight
    <2>2. frames = <<>>
      BY <2>1, Joined
    <2> QED
      BY <2>2
  <1>3. m \in 1..m /\ frames[m] = [url |-> frames[m].url, links |-> frames[m].links]
    <2>1. m \in 1..m
      BY <1>1, <1>2
    <2>2. FrameRight(m)
      BY <2>1 DEF FramesRight
    <2> QED
      BY <2>1, <2>2 DEF FrameRight
  <1> USE DEF Replaced
  <1>4. DOMAIN g = 1..m /\ g = [k \in 1..m |-> g[k]]
    BY <1>1
  <1>5. IsList(g) /\ Len(g) = m
    BY <1>1, <1>4, IsListOf
  <1>6. \A k \in 1..(m - 1) : g[k] = frames[k]
    BY <1>1
  <1>7. g[m] = [frames[m] EXCEPT !.links = x]
    BY <1>1, <1>3
  <1>8. [frames[m] EXCEPT !.links = x] = [url |-> frames[m].url, links |-> x]
    BY <1>3
  <1> QED
    BY <1>1, <1>2, <1>5, <1>6, <1>7, <1>8 DEF Renewed

(* discover_chain returns.                                                    *)
LEMMA ReturnRight ==
    ASSUME FramesRight, maxdepth \in Nat, scphase = "follow", frames # <<>>, frames[1].url = page0,
           Back, UNCHANGED <<maxdepth, site, page0, visited>>,
           \A k \in 1..(Len(frames) - 1) : steps'[k] = steps[k]
    PROVE  FramesRight' /\ PhaseRight'
  <1> PICK m, F : m = Len(frames) /\ F = {frames[k] : k \in 1..Len(frames)}
    OBVIOUS
  <1>1. m \in Nat \ {0} /\ frames \in Seq(F)
    <2> PICK g : Replaced(g, None)
      BY DEF Replaced
    <2> QED
      BY LinksReplaced, ListIsSeq DEF FramesRight
  <1>2. frames' = SubSeq(frames, 1, m - 1)
    BY DEF Back, Front
  <1>3. m - 1 \in 0..m /\ frames' \in Seq(F) /\ Len(frames') = m - 1
    BY <1>1, <1>2, CutShort
  <1>4. \A k \in 1..(m - 1) : frames'[k] = frames[k] /\ k \in 1..m
    BY <1>1, <1>2
  <1>5. /\ \A k \in 1..(m - 1) : /\ frames'[k].url \in visited' /\ frames'[k].url \in DOMAIN site'
                                /\ \A j \in 1..(k - 1) : frames'[j].url # frames'[k].url
        /\ \A k \in 1..((m - 1) - 1) : StepRight(k)'
    <2>1. \A k \in 1..((m - 1) - 1) : k \in 1..(m - 1)
      BY <1>1
    <2> QED
      BY <1>3, <1>4, <2>1, FramesStay
  <1>6. \A k \in 1..(m - 1) : FrameRight(k)'
    <2> SUFFICES ASSUME NEW k \in 1..(m - 1) PROVE FrameRight(k)'
      OBVIOUS
    <2>1. FrameRight(k)
      BY <1>4 DEF FramesRight
    <2> QED
      BY <1>4, <1>5, <2>1 DEF FrameRight
  <1>7. FramesRight'
    <2>1. IsList(frames')
      BY <1>3, SeqIsList
    <2>2. Len(frames') <= maxdepth' + 1
      <3>1. m - 1 <= m
        BY <1>1
      <3>2. m <= maxdepth + 1
        BY DEF FramesRight
      <3> PICK d : d = maxdepth + 1
        OBVIOUS
      <3> QED
        BY <1>1, <1>3, <3>2
    <2> QED
      BY <1>3, <1>5, <1>6, <2>1, <2>2 DEF FramesRight
  <1>8. PhaseRight'
    <2>1. CASE m = 1
      BY <2>1 DEF Back, Depth, PhaseRight
    <2>2. CASE m # 1
      <3>1. scphase' = "follow"
        BY <1>1, <2>2 DEF Back, Depth
      <3>2. frames'[1] = frames[1] /\ frames' # <<>>
        <4>1. 1 \in 1..(m - 1) /\ m - 1 # 0 /\ Len(<<>>) = 0
          BY <1>1, <2>2
        <4> QED
          BY <1>3, <1>4, <4>1
      <3> QED
        BY <3>1, <3>2 DEF PhaseRight
    <2> QED
      BY <2>1, <2>2
  <1> QED
    BY <1>7, <1>8

(* What the invariant says of the calls.                                      *)
LEMMA InCall ==
    ASSUME ScanInv, scphase = "follow"
    PROVE  /\ FramesRight /\ CandsRight /\ Counted
           /\ frames # <<>> /\ frames[1].url = page0
           /\ Len(frames) \in Nat \ {0} /\ Current = frames[Len(frames)] /\ Depth + 1 = Len(frames)
           /\ FrameRight(Len(frames)) /\ maxdepth \in Nat
           /\ MaxChain \in Nat /\ Len(frames) <= MaxChain /\ Len(frames) <= maxdepth + 1
           /\ IsList(steps) /\ Len(steps) = MaxChain /\ site \in Sites
  <1>1. /\ FramesRight /\ CandsRight /\ Counted /\ frames # <<>> /\ frames[1].url = page0
        /\ maxdepth \in 0..(MaxChain - 1) /\ IsList(steps) /\ Len(steps) = MaxChain /\ site \in Sites
    BY DEF ScanInv, PhaseRight
  <1>2. MaxChain \in Nat
    BY ScanAssumption
  <1> PICK m : m = Len(frames)
    OBVIOUS
  <1>3. m \in Nat \ {0}
    <2> PICK g : Replaced(g, None)
      BY DEF Replaced
    <2> QED
      BY <1>1, LinksReplaced
  <1>4. FrameRight(m)
    BY <1>1, <1>3 DEF FramesRight
  <1>5. m <= maxdepth + 1
    BY <1>1 DEF FramesRight
  <1>6. m <= MaxChain /\ maxdepth \in Nat
    BY <1>1, <1>2, <1>3, <1>5
  <1>7. Current = frames[m] /\ Depth + 1 = m
    BY <1>3 DEF Current, Depth, Last
  <1> QED
    BY <1>1, <1>2, <1>3, <1>4, <1>5, <1>6, <1>7

(* The innermost call with other links of its page.                           *)
LEMMA CallGoesOn ==
    ASSUME ScanInv, scphase = "follow", NEW x, frames' = [frames EXCEPT ![Len(frames)].links = x],
           x # None => Len(frames) <= maxdepth /\ ReadList(site, Current.url, x),
           UNCHANGED <<scphase, maxdepth, site, page0>>, visited \subseteq visited',
           \A k \in 1..(Len(frames) - 1) : steps'[k] = steps[k]
    PROVE  FramesRight' /\ PhaseRight'
  <1> PICK m, g : m = Len(frames) /\ g = frames'
    OBVIOUS
  <1>1. /\ FramesRight /\ frames # <<>> /\ m \in Nat \ {0} /\ maxdepth \in Nat /\ m <= maxdepth + 1
        /\ Current = frames[m] /\ frames[1].url = page0
    BY InCall
  <1>2. /\ IsList(g) /\ Len(g) = m /\ \A k \in 1..(m - 1) : g[k] = frames[k]
        /\ g[m] = [url |-> frames[m].url, links |-> x]
    <2>1. Replaced(g, x)
      BY DEF Replaced
    <2>2. Renewed(g, x)
      BY <1>1, <2>1, LinksReplaced
    <2> QED
      BY <2>2 DEF Renewed
  <1>3. \A k \in 1..m : g[k].url = frames[k].url
    <2> SUFFICES ASSUME NEW k \in 1..m PROVE g[k].url = frames[k].url
      OBVIOUS
    <2>1. k = m \/ k \in 1..(m - 1)
      BY <1>1
    <2> QED
      BY <1>2, <2>1
  <1>4. /\ \A k \in 1..m : /\ frames'[k].url \in visited' /\ frames'[k].url \in DOMAIN site'
                          /\ \A j \in 1..(k - 1) : frames'[j].url # frames'[k].url
        /\ \A k \in 1..(m - 1) : StepRight(k)'
    <2>1. m \in 0..m
      BY <1>1
    <2> QED
      BY <1>1, <1>3, <2>1, FramesStay
  <1>5. \A k \in 1..m : FrameRight(k)'
    <2> SUFFICES ASSUME NEW k \in 1..m PROVE FrameRight(k)'
      OBVIOUS
    <2>1. CASE k = m
      <3>1. frames'[k] = [url |-> frames'[k].url, links |-> frames'[k].links]
        BY <1>2, <2>1
      <3>2. frames'[k].links = x /\ frames'[k].url = Current.url
        BY <1>1, <1>2, <2>1
      <3>3. frames'[k].links # None => k <= maxdepth' /\ ReadList(site', frames'[k].url, frames'[k].links)
        BY <2>1, <3>2
      <3> QED
        BY <1>4, <3>1, <3>3 DEF FrameRight
    <2>2. CASE k # m
      <3>1. k \in 1..(m - 1)
        BY <1>1, <2>2
      <3>2. frames'[k] = frames[k] /\ FrameRight(k)
        BY <1>1, <1>2, <3>1 DEF FramesRight
      <3> QED
        BY <1>4, <3>2 DEF FrameRight
    <2> QED
      BY <2>1, <2>2
  <1>6. FramesRight'
    BY <1>1, <1>2, <1>4, <1>5 DEF FramesRight
  <1>7. 1 \in 1..m /\ frames'[1].url = page0' /\ frames' # <<>>
    <2>1. 1 \in 1..m /\ Len(<<>>) = 0 /\ m # 0
      BY <1>1
    <2> QED
      BY <1>1, <1>2, <1>3, <2>1
  <1> QED
    BY <1>6, <1>7 DEF PhaseRight

LEMMA FindLinksKeeps ==
    ASSUME CapturesGiveLists, ScanInv, FindLinks, UNCHANGED site
    PROVE  ScanInv'
  <1>0. scphase = "follow" /\ UNCHANGED <<maxdepth, cands, iframes, steps, visited, nfetches, page0, series, picked>>
    BY DEF FindLinks
  <1>1. CandsRight' /\ Counted'
    BY <1>0, InCall, CandsStay DEF Counted
  <1>2. FramesRight' /\ PhaseRight'
    <2>1. CASE Depth >= maxdepth \/ Depth >= MaxChain - 1
      <3>1. Back
        BY <2>1 DEF FindLinks
      <3> QED
        BY <1>0, <3>1, InCall, ReturnRight
    <2>2. CASE ~(Depth >= maxdepth \/ Depth >= MaxChain - 1)
      <3>1. PICK others \in ByRelevance(OtherLinks) :
               LET links == LikelyLinks \o others
               IN  frames' = [frames EXCEPT ![Len(frames)].links = SubSeq(links, 1, Min({Len(links), MaxFollow}))]
        BY <2>2 DEF FindLinks
      <3> PICK x, url : /\ url = Current.url
                        /\ x = SubSeq(LikelyLinks \o others, 1, Min({Len(LikelyLinks \o others), MaxFollow}))
        OBVIOUS
      <3>2. frames' = [frames EXCEPT ![Len(frames)].links = x] /\ UNCHANGED scphase
        BY <2>2, <3>1 DEF FindLinks
      <3>3. url \in DOMAIN site /\ site \in Sites
        BY <1>0, InCall DEF FrameRight
      <3>4. ReadList(site, url, LikelyLinks) /\ ReadList(site, url, OtherLinks)
        BY <3>3, LikelyReads, OtherReads
      <3>5. ReadList(site, url, others)
        BY <3>4, RelevantReads
      <3>6. MaxFollow \in Nat
        BY ScanAssumption
      <3>7. ReadList(site, url, x)
        BY <3>4, <3>5, <3>6, CutReads
      <3>8. Len(frames) <= maxdepth
        <4> PICK m, d : m = Len(frames) /\ d = Depth
          OBVIOUS
        <4>1. d + 1 = m /\ m \in Nat /\ maxdepth \in Nat /\ ~(d >= maxdepth) /\ d = m - 1
          BY <1>0, <2>2, InCall DEF Depth
        <4> QED
          BY <4>1
      <3> QED
        BY <1>0, <3>2, <3>7, <3>8, CallGoesOn
    <2> QED
      BY <2>1, <2>2
  <1> QED
    BY <1>0, <1>1, <1>2 DEF ScanInv

(* The links that are left are links of the page.                             *)
LEMMA TailReads ==
    ASSUME NEW st, NEW url, NEW x, ReadList(st, url, x), x # <<>>
    PROVE  /\ ReadList(st, url, Tail(x)) /\ LinkReads(st, url, Head(x))
  <1> PICK E : E = ReadSet(x)
    OBVIOUS
  <1>1. x \in Seq(E) /\ \A l \in E : LinkReads(st, url, l)
    BY ReadListIsSeq
  <1>2. Tail(x) \in Seq(E) /\ Head(x) \in E
    BY <1>1
  <1> QED
    BY <1>1, <1>2, SeqIsReadList

(* A link that is left, and the others.                                       *)
LEMMA NextLink ==
    ASSUME ScanInv, More
    PROVE  /\ scphase = "follow" /\ Len(frames) <= maxdepth /\ nfetches < MaxFetches
           /\ LinkReads(site, Current.url, Head(Current.links))
           /\ ReadList(site, Current.url, Tail(Current.links))
           /\ Others = [frames EXCEPT ![Len(frames)].links = Tail(Current.links)]
  <1>1. scphase = "follow" /\ Current.links # None /\ Current.links # <<>> /\ nfetches < MaxFetches
    BY DEF More
  <1>2. FrameRight(Len(frames)) /\ Current = frames[Len(frames)] /\ FramesRight /\ Len(frames) \in Nat \ {0}
    BY <1>1, InCall
  <1>3. Len(frames) <= maxdepth /\ ReadList(site, Current.url, Current.links)
    BY <1>1, <1>2 DEF FrameRight
  <1>4. Others = [frames EXCEPT ![Len(frames)].links = Tail(Current.links)]
    <2> PICK m : m = Len(frames)
      OBVIOUS
    <2>1. m \in DOMAIN frames
      BY <1>2, ListIsSeq DEF FramesRight
    <2> QED
      BY <1>2, <2>1 DEF Others
  <1> QED
    BY <1>1, <1>3, <1>4, TailReads

LEMMA SkipLinkKeeps ==
    ASSUME ScanInv, SkipLink, UNCHANGED site
    PROVE  ScanInv'
  <1>0. More /\ frames' = Others /\ UNCHANGED <<scphase, maxdepth, cands, iframes, steps, visited, nfetches, page0, series, picked>>
    BY DEF SkipLink
  <1>1. scphase = "follow"
    BY <1>0, NextLink
  <1>2. CandsRight' /\ Counted'
    BY <1>0, <1>1, InCall, CandsStay DEF Counted
  <1>3. FramesRight' /\ PhaseRight'
    BY <1>0, <1>1, NextLink, CallGoesOn
  <1> QED
    BY <1>0, <1>2, <1>3 DEF ScanInv

LEMMA ReturnKeeps ==
    ASSUME ScanInv, Return, UNCHANGED site
    PROVE  ScanInv'
  <1>0. scphase = "follow" /\ Back /\ UNCHANGED <<maxdepth, cands, iframes, steps, visited, nfetches, page0, series, picked>>
    BY DEF Return
  <1>1. CandsRight' /\ Counted'
    BY <1>0, InCall, CandsStay DEF Counted
  <1>2. FramesRight' /\ PhaseRight'
    BY <1>0, InCall, ReturnRight
  <1> QED
    BY <1>0, <1>1, <1>2 DEF ScanInv

LEMMA Pushed ==
    ASSUME NEW g, IsList(g), NEW x
    PROVE  /\ IsList(Append(g, x)) /\ Len(Append(g, x)) = Len(g) + 1 /\ Len(g) \in Nat
           /\ Append(g, x)[Len(g) + 1] = x
           /\ \A k \in 1..Len(g) : Append(g, x)[k] = g[k]
  <1> PICK E, F, n : E = {g[k] : k \in 1..Len(g)} /\ F = E \cup {x} /\ n = Len(g)
    OBVIOUS
  <1>1. g \in Seq(E) /\ n \in Nat
    BY ListIsSeq
  <1>2. g \in Seq(F) /\ x \in F
    BY <1>1
  <1> PICK h : h = Append(g, x)
    OBVIOUS
  <1>3. h \in Seq(F) /\ Len(h) = n + 1 /\ h[n + 1] = x /\ \A k \in 1..n : h[k] = g[k]
    BY <1>1, <1>2
  <1>4. IsList(h)
    BY <1>3, SeqIsList
  <1> QED
    BY <1>1, <1>3, <1>4

(* A step is written to the array.                                            *)
Noted(w, m, e) == w = [steps EXCEPT ![m] = e]

LEMMA StepNoted ==
    ASSUME ScanInv, NEW m \in 1..MaxChain, NEW e, NEW w, Noted(w, m, e)
    PROVE  /\ IsList(w) /\ Len(w) = MaxChain /\ w[m] = e
           /\ \A k \in 1..MaxChain : k # m => w[k] = steps[k]
  <1>1. MaxChain \in Nat
    BY ScanAssumption
  <1>2. steps = [k \in 1..MaxChain |-> steps[k]]
    BY DEF ScanInv, IsList
  <1>3. w = [k \in 1..MaxChain |-> w[k]] /\ w[m] = e /\ \A k \in 1..MaxChain : k # m => w[k] = steps[k]
    BY <1>2 DEF Noted
  <1> QED
    BY <1>1, <1>3, IsListOf

(* A page is fetched.                                                         *)
LEMMA OneMore ==
    ASSUME Counted, nfetches < MaxFetches, NEW u, u \notin visited,
           visited' = visited \cup {u}, nfetches' = nfetches + 1
    PROVE  Counted' /\ visited \subseteq visited'
  <1>1. Cardinality(visited) \in Nat
    BY FS_CardinalityType DEF Counted
  <1>2. IsFiniteSet(visited') /\ Cardinality(visited') = Cardinality(visited) + 1
    BY FS_AddElement DEF Counted
  <1>3. MaxFetches \in Nat
    BY ScanAssumption
  <1> QED
    BY <1>1, <1>2, <1>3 DEF Counted

LEMMA FollowLinkKeeps ==
    ASSUME ScanInv, FollowLink, UNCHANGED site
    PROVE  ScanInv'
  <1> PICK link, m, u : link = Head(Current.links) /\ m = Len(frames) /\ u = Current.url
    OBVIOUS
  <1>0. More /\ UNCHANGED <<scphase, maxdepth, cands, iframes, page0, series, picked>>
    BY DEF FollowLink
  <1>1. /\ link.url \notin visited
        /\ visited' = visited \cup {link.url} /\ nfetches' = nfetches + 1
        /\ \/ frames' = Others /\ UNCHANGED steps
           \/ /\ link.url \in DOMAIN site
              /\ frames' = Append(Others, [url |-> link.url, links |-> None])
              /\ steps' = [steps EXCEPT ![Depth + 1] = [ere |-> link.ere, sample |-> link.ref]]
    BY DEF FollowLink
  <1>2. /\ scphase = "follow" /\ m <= maxdepth /\ nfetches < MaxFetches
        /\ LinkReads(site, u, link) /\ ReadList(site, u, Tail(Current.links))
        /\ Others = [frames EXCEPT ![Len(frames)].links = Tail(Current.links)]
    BY <1>0, NextLink
  <1>3. /\ FramesRight /\ CandsRight /\ Counted /\ frames # <<>> /\ frames[1].url = page0
        /\ m \in Nat \ {0} /\ Current = frames[m] /\ Depth + 1 = m /\ maxdepth \in Nat
        /\ MaxChain \in Nat /\ m <= MaxChain /\ m <= maxdepth + 1
    BY <1>2, InCall
  <1>4. Counted' /\ visited \subseteq visited'
    BY <1>1, <1>2, <1>3, OneMore
  <1>5. CandsRight'
    BY <1>0, <1>3, <1>4, CandsStay
  <1>6. CASE frames' = Others /\ UNCHANGED steps
    <2>1. FramesRight' /\ PhaseRight'
      BY <1>0, <1>2, <1>4, <1>6, CallGoesOn
    <2> QED
      BY <1>0, <1>4, <1>5, <1>6, <2>1 DEF ScanInv
  <1>7. CASE /\ link.url \in DOMAIN site
             /\ frames' = Append(Others, [url |-> link.url, links |-> None])
             /\ steps' = [steps EXCEPT ![Depth + 1] = [ere |-> link.ere, sample |-> link.ref]]
    <2> PICK g, x, f, t : /\ g = Others /\ x = Tail(Current.links) /\ f = [url |-> link.url, links |-> None]
                          /\ t = [ere |-> link.ere, sample |-> link.ref]
      OBVIOUS
    <2>1. Replaced(g, x)
      BY <1>2 DEF Replaced
    <2>2. /\ IsList(g) /\ Len(g) = m /\ \A k \in 1..(m - 1) : g[k] = frames[k]
          /\ g[m] = [url |-> frames[m].url, links |-> x]
      <3>1. FramesRight /\ frames # <<>>
        BY <1>3
      <3>2. Renewed(g, x)
        BY <2>1, <3>1, LinksReplaced
      <3> QED
        BY <3>2 DEF Renewed
    <2>3. /\ IsList(frames') /\ Len(frames') = m + 1 /\ frames'[m + 1] = f
          /\ \A k \in 1..m : frames'[k] = g[k]
      BY <1>7, <2>2, Pushed
    <2>4. Noted(steps', m, t) /\ m \in 1..MaxChain
      <3>1. m \in 1..MaxChain
        BY <1>3
      <3>2. Noted(steps', m, t)
        BY Zenon, <1>3, <1>7 DEF Noted
      <3> QED
        BY <3>1, <3>2
    <2>5. IsList(steps') /\ Len(steps') = MaxChain /\ steps'[m] = t /\ \A k \in 1..(m - 1) : steps'[k] = steps[k]
      <3>1. \A k \in 1..(m - 1) : k \in 1..MaxChain /\ k # m
        BY <1>3
      <3> QED
        BY <2>4, <3>1, StepNoted
    <2>6. \A k \in 1..(m - 1) : frames'[k] = frames[k] /\ k \in 1..m
      BY <1>3, <2>2, <2>3
    <2>7. frames'[m] = [url |-> u, links |-> x] /\ m \in 1..m
      BY <1>3, <2>2, <2>3
    <2>8. \A k \in 1..m : frames'[k].url = frames[k].url
      <3> SUFFICES ASSUME NEW k \in 1..m PROVE frames'[k].url = frames[k].url
        OBVIOUS
      <3>1. k = m \/ k \in 1..(m - 1)
        BY <1>3
      <3> QED
        BY <1>3, <2>6, <2>7, <3>1
    <2>9. /\ \A k \in 1..m : /\ frames'[k].url \in visited' /\ frames'[k].url \in DOMAIN site'
                            /\ \A j \in 1..(k - 1) : frames'[j].url # frames'[k].url
          /\ \A k \in 1..(m - 1) : StepRight(k)'
      <3>1. m \in 0..m
        BY <1>3
      <3> QED
        BY <1>0, <1>3, <1>4, <2>5, <2>8, <3>1, FramesStay
    <2>10. \A k \in 1..(m - 1) : FrameRight(k)'
      <3> SUFFICES ASSUME NEW k \in 1..(m - 1) PROVE FrameRight(k)'
        OBVIOUS
      <3>1. FrameRight(k)
        BY <1>3, <2>6 DEF FramesRight
      <3> QED
        BY <1>0, <2>6, <2>9, <3>1 DEF FrameRight
    <2>11. FrameRight(m)'
      <3>1. frames'[m] = [url |-> frames'[m].url, links |-> frames'[m].links]
        BY <2>7
      <3>2. m <= maxdepth' /\ ReadList(site', frames'[m].url, frames'[m].links)
        BY <1>0, <1>2, <2>7
      <3> QED
        BY <2>7, <2>9, <3>1, <3>2 DEF FrameRight
    <2>12. FrameRight(m + 1)'
      <3>1. \A j \in 1..((m + 1) - 1) : frames'[j].url # link.url
        <4> SUFFICES ASSUME NEW j \in 1..((m + 1) - 1) PROVE frames'[j].url # link.url
          OBVIOUS
        <4>1. j \in 1..m
          BY <1>3
        <4>2. FrameRight(j)
          BY <1>3, <4>1 DEF FramesRight
        <4> QED
          BY <1>1, <2>8, <4>1, <4>2 DEF FrameRight
      <3>2. frames'[m + 1] = [url |-> link.url, links |-> None]
        BY <2>3
      <3>3. /\ frames'[m + 1] = [url |-> frames'[m + 1].url, links |-> frames'[m + 1].links]
            /\ frames'[m + 1].url = link.url /\ frames'[m + 1].links = None
        BY <3>2
      <3>4. link.url \in visited' /\ link.url \in DOMAIN site'
        BY <1>1, <1>7
      <3> QED
        BY <3>1, <3>3, <3>4 DEF FrameRight
    <2>13. StepRight(m)'
      <3>1. frames'[m + 1].url = link.url /\ frames'[m].url = u
        BY <2>3, <2>7
      <3>2. steps'[m].sample = link.ref /\ steps'[m].ere = link.ere
        BY <2>5
      <3> QED
        BY <1>2, <3>1, <3>2 DEF StepRight, LinkReads
    <2>14. FramesRight'
      <3>1. \A k \in 1..(m + 1) : FrameRight(k)'
        <4> SUFFICES ASSUME NEW k \in 1..(m + 1) PROVE FrameRight(k)'
          OBVIOUS
        <4>1. k = m + 1 \/ k = m \/ k \in 1..(m - 1)
          BY <1>3
        <4>2. CASE k = m + 1
          BY <2>12, <4>2
        <4>3. CASE k = m
          BY <2>11, <4>3
        <4> QED
          BY <2>10, <4>1, <4>2, <4>3
      <3>2. \A k \in 1..((m + 1) - 1) : StepRight(k)'
        <4> SUFFICES ASSUME NEW k \in 1..((m + 1) - 1) PROVE StepRight(k)'
          OBVIOUS
        <4>1. k = m \/ k \in 1..(m - 1)
          BY <1>3
        <4>2. CASE k = m
          BY <2>13, <4>2
        <4> QED
          BY <2>9, <4>1, <4>2
      <3>3. m + 1 <= maxdepth' + 1
        BY <1>0, <1>2, <1>3
      <3> QED
        BY <2>3, <3>1, <3>2, <3>3 DEF FramesRight
    <2>15. PhaseRight'
      <3>1. 1 \in 1..m /\ m + 1 # 0 /\ Len(<<>>) = 0
        BY <1>3
      <3>2. frames'[1].url = page0' /\ frames' # <<>>
        BY <1>0, <1>3, <2>3, <2>8, <3>1
      <3> QED
        BY <1>0, <1>2, <3>2 DEF PhaseRight
    <2> QED
      BY <1>0, <1>4, <1>5, <2>5, <2>14, <2>15 DEF ScanInv
  <1> QED
    BY <1>1, <1>6, <1>7

(* The first steps of the array, as they are kept with a candidate.           *)
LEMMA StepsTaken ==
    ASSUME NEW w, IsList(w), NEW m \in 1..Len(w)
    PROVE  /\ Len(SubSeq(w, 1, m)) = m /\ SubSeq(w, 1, m) # <<>>
           /\ \A k \in 1..m : SubSeq(w, 1, m)[k] = w[k]
           /\ Last(SubSeq(w, 1, m)) = w[m]
  <1> PICK E, n : E = {w[k] : k \in 1..Len(w)} /\ n = Len(w)
    OBVIOUS
  <1>1. w \in Seq(E) /\ n \in Nat
    BY ListIsSeq
  <1> PICK c : c = SubSeq(w, 1, m)
    OBVIOUS
  <1>2. m \in 0..n /\ m \in 1..m /\ m # 0 /\ Len(<<>>) = 0
    BY <1>1
  <1>3. Len(c) = m
    BY <1>1, <1>2, CutShort
  <1>4. \A k \in 1..m : c[k] = w[k]
    BY <1>1
  <1> QED
    BY <1>2, <1>3, <1>4 DEF Last

(* Media on the page of the innermost call: the steps of the array lead to it. *)
LEMMA MediaLeads ==
    ASSUME ScanInv, scphase = "follow", NEW ere, NEW url, NEW w,
           Noted(w, Len(frames), [ere |-> ere, sample |-> TextOf(url)]),
           url = Resolve(Current.url, RefOf(ScanCaptures(ere, site[Current.url])[1]))
    PROVE  CandRight(Candidate(url, <<>>, SubSeq(w, 1, Len(frames))))
  <1> PICK m, c, chain, t : /\ m = Len(frames) /\ chain = SubSeq(w, 1, m)
                            /\ c = Candidate(url, <<>>, chain)
                            /\ t = [ere |-> ere, sample |-> TextOf(url)]
    OBVIOUS
  <1> DEFINE page == [k \in 1..m |-> frames[k].url]
  <1>1. /\ FramesRight /\ m \in Nat \ {0} /\ Current = frames[m] /\ frames[1].url = page0
        /\ MaxChain \in Nat /\ m <= MaxChain /\ m <= maxdepth + 1
    BY InCall
  <1>2. m \in 1..MaxChain /\ m \in 1..m /\ 1 \in 1..m
    BY <1>1
  <1>3. IsList(w) /\ Len(w) = MaxChain /\ w[m] = t /\ \A k \in 1..MaxChain : k # m => w[k] = steps[k]
    BY <1>2, StepNoted
  <1>4. Len(chain) = m /\ chain # <<>> /\ Last(chain) = t /\ \A k \in 1..m : chain[k] = w[k]
    BY <1>2, <1>3, StepsTaken
  <1>5. ASSUME NEW k \in 1..(m - 1)
        PROVE  /\ chain[k] = steps[k] /\ StepRight(k) /\ k \in 1..m /\ k + 1 \in 1..m
    <2>1. k \in 1..m /\ k \in 1..MaxChain /\ k # m /\ k + 1 \in 1..m
      BY <1>1
    <2>2. StepRight(k)
      BY <1>1 DEF FramesRight
    <2> QED
      BY <1>3, <1>4, <2>1, <2>2
  <1>6. \A k \in 1..m : Way(page0, chain)[k] = page[k]
    <2>1. GoesBy(chain, m, page)
      BY <1>5 DEF StepRight, GoesBy
    <2>2. page[1] = page0
      BY <1>1, <1>2
    <2> HIDE DEF page
    <2>3. m \in Nat \ {0} /\ Len(chain) = m
      BY <1>1, <1>4
    <2>4. WentBy(chain, m, page)
      BY <2>1, <2>3, WayGoes
    <2> QED
      BY <2>2, <2>4 DEF WentBy
  <1> PICK way : way = Way(page0, chain)
    OBVIOUS
  <1>7. \A k \in 1..m : way[k] = frames[k].url
    BY <1>6
  <1> HIDE DEF page
  <1>8. ASSUME NEW k \in 1..m
        PROVE  way[k] \in visited /\ \A j \in 1..(k - 1) : way[j] # way[k]
    <2>1. FrameRight(k) /\ \A j \in 1..(k - 1) : j \in 1..m
      BY <1>1 DEF FramesRight
    <2> QED
      BY <1>7, <2>1 DEF FrameRight
  <1>9. \A k \in 1..(m - 1) : Contains(ScanCaptures(chain[k].ere, site[way[k]]), chain[k].sample)
    BY <1>5, <1>7 DEF StepRight
  <1>10. Resolve(way[m], RefOf(ScanCaptures(Last(chain).ere, site[way[m]])[1])) = url
    BY <1>1, <1>2, <1>4, <1>7
  <1>11. c.url = url /\ c.chain = chain /\ Whole(c)
    BY DEF Candidate, Whole
  <1>12. Leads(c)
    <2>1. Len(c.chain) = m /\ Way(page0, c.chain) = way /\ Last(c.chain) = Last(chain)
      BY <1>4, <1>11
    <2>2. m <= maxdepth + 1
      BY <1>1
    <2>3. \A k \in 1..m : way[k] \in visited /\ \A j \in 1..(k - 1) : way[j] # way[k]
      BY <1>8
    <2>4. \A k \in 1..(m - 1) : Contains(ScanCaptures(c.chain[k].ere, site[way[k]]), c.chain[k].sample)
      BY <1>9, <1>11
    <2>5. Resolve(way[m], RefOf(ScanCaptures(Last(c.chain).ere, site[way[m]])[1])) = c.url
      BY <1>10, <1>11
    <2>6. Len(c.chain) <= maxdepth + 1
      BY <2>1, <2>2
    <2>7. \A k \in 1..Len(c.chain) : /\ Way(page0, c.chain)[k] \in visited
                                   /\ \A j \in 1..(k - 1) : Way(page0, c.chain)[j] # Way(page0, c.chain)[k]
      BY <2>1, <2>3
    <2>8. \A k \in 1..(Len(c.chain) - 1) :
            Contains(ScanCaptures(c.chain[k].ere, site[Way(page0, c.chain)[k]]), c.chain[k].sample)
      BY <2>1, <2>4, SMTT(30)
    <2>9. Resolve(Way(page0, c.chain)[Len(c.chain)],
                  RefOf(ScanCaptures(Last(c.chain).ere, site[Way(page0, c.chain)[Len(c.chain)]])[1])) = c.url
      BY <2>1, <2>5
    <2> QED
      BY Zenon, <2>6, <2>7, <2>8, <2>9 DEF Leads
  <1> QED
    BY <1>11, <1>12 DEF CandRight

(* What a call does that finds media.                                         *)
Finds(ere, url) ==
    /\ url = Linked(ScanCaptures(ere, Body)[1])
    /\ steps' = [steps EXCEPT ![Depth + 1] = [ere |-> ere, sample |-> TextOf(url)]]
    /\ LET found == AddCandidate(cands, Candidate(url, <<>>, SubSeq(steps', 1, Depth + 1)))
       IN  IF Handles(url) = {} THEN cands' = found
           ELSE \E t \in Handles(url) : cands' = [i \in DOMAIN found |-> WithHandle(found[i], url, t)]

LEMMA FindMediaKeeps ==
    ASSUME ScanInv, FindMedia, UNCHANGED site
    PROVE  ScanInv'
  <1> PICK m : m = Len(frames)
    OBVIOUS
  <1>0. scphase = "follow" /\ Back /\ UNCHANGED <<maxdepth, iframes, visited, nfetches, page0, series, picked>>
    BY DEF FindMedia
  <1> PICK ere, url : Finds(ere, url)
    <2> DEFINE first == MediaEres[Min(MediaHits)]
    <2>1. Finds(first, Linked(ScanCaptures(first, Body)[1]))
      BY DEF FindMedia, Finds
    <2> QED
      BY Zenon, <2>1
  <1>1. /\ url = Linked(ScanCaptures(ere, Body)[1])
        /\ steps' = [steps EXCEPT ![Depth + 1] = [ere |-> ere, sample |-> TextOf(url)]]
        /\ LET found == AddCandidate(cands, Candidate(url, <<>>, SubSeq(steps', 1, Depth + 1)))
           IN  IF Handles(url) = {} THEN cands' = found
               ELSE \E t \in Handles(url) : cands' = [i \in DOMAIN found |-> WithHandle(found[i], url, t)]
    BY DEF Finds
  <1>2. /\ FramesRight /\ CandsRight /\ Counted /\ frames # <<>> /\ frames[1].url = page0
        /\ m \in Nat \ {0} /\ Depth + 1 = m /\ maxdepth \in Nat /\ MaxChain \in Nat /\ m <= MaxChain
    BY <1>0, InCall
  <1> PICK c, found : /\ c = Candidate(url, <<>>, SubSeq(steps', 1, m))
                      /\ found = AddCandidate(cands, c)
    OBVIOUS
  <1>3. Noted(steps', m, [ere |-> ere, sample |-> TextOf(url)])
    BY <1>1, <1>2 DEF Noted
  <1>4. IsList(steps') /\ Len(steps') = MaxChain /\ \A k \in 1..(m - 1) : steps'[k] = steps[k]
    <2>1. m \in 1..MaxChain /\ \A k \in 1..(m - 1) : k \in 1..MaxChain /\ k # m
      BY <1>2
    <2> QED
      BY <1>3, <2>1, StepNoted
  <1>5. FramesRight' /\ PhaseRight'
    BY <1>0, <1>2, <1>4, ReturnRight
  <1>6. CandRight(c)
    <2>1. url = Resolve(Current.url, RefOf(ScanCaptures(ere, site[Current.url])[1]))
      BY <1>1 DEF Linked, Body
    <2> QED
      BY <1>0, <1>3, <2>1, MediaLeads
  <1>7. IsList(found) /\ \A i \in 1..Len(found) : CandRight(found[i])
    <2> PICK n : n = Len(cands)
      OBVIOUS
    <2>1. IsList(cands) /\ \A i \in 1..n : CandRight(cands[i])
      BY <1>2 DEF CandsRight
    <2>2. CASE found = cands
      BY <2>1, <2>2
    <2>3. CASE found = Append(cands, c)
      <3>1. /\ IsList(found) /\ Len(found) = n + 1 /\ n \in Nat /\ found[n + 1] = c
            /\ \A k \in 1..n : found[k] = cands[k]
        <4> PICK h : h = Append(cands, c)
          OBVIOUS
        <4>1. IsList(cands)
          BY <2>1
        <4>2. /\ IsList(Append(cands, c)) /\ Len(Append(cands, c)) = Len(cands) + 1 /\ Len(cands) \in Nat
              /\ Append(cands, c)[Len(cands) + 1] = c
              /\ \A k \in 1..Len(cands) : Append(cands, c)[k] = cands[k]
          BY <4>1, Pushed
        <4> QED
          BY <2>3, <4>2
      <3>2. \A i \in 1..Len(found) : i = n + 1 \/ i \in 1..n
        BY <3>1
      <3> QED
        BY <1>6, <2>1, <3>1, <3>2
    <2> QED
      BY <2>2, <2>3 DEF AddCandidate
  <1>8. CASE cands' = found
    <2>1. \A i \in 1..Len(found) : CandRight(found[i])'
      BY <1>0, <1>7, LeadsStill DEF CandRight, Whole
    <2>2. CandsRight'
      BY <1>7, <1>8, <2>1 DEF CandsRight
    <2> QED
      BY <1>0, <1>2, <1>4, <1>5, <2>2 DEF ScanInv, Counted
  <1>9. ASSUME NEW t, cands' = [i \in DOMAIN found |-> WithHandle(found[i], url, t)]
        PROVE  ScanInv'
    <2> PICK n : n = Len(found)
      OBVIOUS
    <2>1. n \in Nat /\ DOMAIN found = 1..n
      BY <1>7, ListIsSeq
    <2>2. IsList(cands') /\ Len(cands') = n
      <3>1. cands' = [i \in 1..n |-> cands'[i]]
        BY <1>9, <2>1
      <3> QED
        BY <2>1, <3>1, IsListOf
    <2>3. ASSUME NEW i \in 1..n PROVE CandRight(cands[i])'
      <3> PICK d, e : d = found[i] /\ e = cands'[i]
        OBVIOUS
      <3>1. e = WithHandle(d, url, t)
        BY <1>9, <2>1
      <3>2. CandRight(d)
        BY <1>7
      <3>3. e.url = d.url /\ e.chain = d.chain /\ Whole(e)
        <4>1. d = [url |-> d.url, ref |-> d.ref, chain |-> d.chain, param |-> d.param]
          BY <3>2 DEF CandRight, Whole
        <4>2. CASE e = d
          BY <4>1, <4>2 DEF Whole
        <4>3. ASSUME NEW q, e = [d EXCEPT !.param = q] PROVE e.url = d.url /\ e.chain = d.chain /\ Whole(e)
          <5>1. e = [url |-> d.url, ref |-> d.ref, chain |-> d.chain, param |-> q]
            BY <4>1, <4>3
          <5> QED
            BY <5>1 DEF Whole
        <4> QED
          BY <3>1, <4>2, <4>3 DEF WithHandle
      <3>4. e.chain # <<>> => Leads(e)
        <4>1. d.chain # <<>> => Leads(d)
          BY <3>2 DEF CandRight
        <4> QED
          BY <3>3, <4>1 DEF Leads
      <3>5. e.chain # <<>> => Leads(e)'
        BY <1>0, <3>4, LeadsStill
      <3> QED
        BY <3>3, <3>5 DEF CandRight, Whole, Leads
    <2>4. CandsRight'
      BY <2>2, <2>3 DEF CandsRight
    <2> QED
      BY <1>0, <1>2, <1>4, <1>5, <2>4 DEF ScanInv, Counted
  <1>10. cands' = found \/ \E t : cands' = [i \in DOMAIN found |-> WithHandle(found[i], url, t)]
    <2>1. found = AddCandidate(cands, Candidate(url, <<>>, SubSeq(steps', 1, Depth + 1)))
      BY <1>2
    <2>2. IF Handles(url) = {} THEN cands' = found
          ELSE \E t \in Handles(url) : cands' = [i \in DOMAIN found |-> WithHandle(found[i], url, t)]
      BY <1>1, <2>1, Zenon
    <2> QED
      BY <2>2, Zenon
  <1> QED
    BY <1>8, <1>9, <1>10

LEMMA OneAbove ==
    ASSUME NEW d \in Nat
    PROVE  0 <= d + 1 /\ 1 <= d + 1
  OBVIOUS

(* Before the calls there are none, and they begin with one.                  *)
LEMMA NoCallsYet ==
    ASSUME frames' = <<>>, maxdepth' \in Nat
    PROVE  FramesRight'
  <1>1. Len(<<>>) = 0 /\ IsList(<<>>)
    BY DEF IsList
  <1>3. 0 <= maxdepth' + 1
    BY Zenon, OneAbove
  <1>4. 1..0 = {} /\ 1..(0 - 1) = {}
    OBVIOUS
  <1> QED
    BY <1>1, <1>3, <1>4 DEF FramesRight

LEMMA CallsBegin ==
    ASSUME NEW url, StartFrom(url), url \in visited', url \in DOMAIN site', maxdepth' \in Nat
    PROVE  FramesRight' /\ PhaseRight'
  <1> PICK f, F : f = [url |-> url, links |-> None] /\ F = frames'
    OBVIOUS
  <1>1. F = <<f>> /\ Len(F) = 1 /\ F[1] = f /\ IsList(F) /\ F # <<>>
    BY DEF StartFrom, IsList
  <1>2. f = [url |-> f.url, links |-> f.links] /\ f.url = url /\ f.links = None
    OBVIOUS
  <1>3. FrameRight(1)'
    BY <1>1, <1>2 DEF FrameRight
  <1>4. 1 <= maxdepth' + 1
    BY Zenon, OneAbove
  <1>5. FramesRight'
    <2>1. \A k \in 1..1 : FrameRight(k)'
      <3>1. \A k \in 1..1 : k = 1
        OBVIOUS
      <3> QED
        BY <1>3, <3>1
    <2>2. 1..(1 - 1) = {}
      OBVIOUS
    <2> QED
      BY <1>1, <1>4, <2>1, <2>2 DEF FramesRight
  <1> QED
    BY <1>1, <1>2, <1>5 DEF StartFrom, PhaseRight

(* Steps that leave the calls and the candidates alone.                       *)
LEMMA Aside ==
    ASSUME ScanInv, UNCHANGED <<maxdepth, cands, frames, steps, visited, nfetches, page0, site>>,
           scphase' = scphase \/ scphase' \in {"rank", "choose", "saved", "failed"}
    PROVE  ScanInv'
  <1>1. CandsRight'
    BY CandsStay DEF ScanInv
  <1>2. FramesRight'
    BY DEF ScanInv, FramesRight, FrameRight, StepRight
  <1>3. Plain(cands) => Plain(cands)'
    BY DEF Plain, Whole
  <1>4. PhaseRight'
    BY <1>3 DEF ScanInv, PhaseRight
  <1>5. Counted'
    BY DEF ScanInv, Counted
  <1> QED
    BY <1>1, <1>2, <1>4, <1>5 DEF ScanInv

(* The landing page and its iframes.                                          *)
LEMMA LandingKeeps ==
    ASSUME CapturesGiveLists, ScanInv, FetchLanding \/ LandingFails \/ Iframe \/ IframesDone, UNCHANGED site
    PROVE  ScanInv'
  <1>0. maxdepth \in Nat /\ MaxFetches \in Nat /\ MaxFetches > 1
    <2>1. maxdepth \in 0..(MaxChain - 1)
      BY DEF ScanInv
    <2> QED
      BY <2>1, ScanAssumption
  <1>1. CASE FetchLanding
    <2>1. /\ scphase' = "iframes" /\ cands' = Collect(Page, <<>>) /\ visited' = {Page} /\ nfetches' = 1
          /\ Page \in DOMAIN site /\ scphase = "fetch" /\ UNCHANGED <<maxdepth, frames, steps, page0, series, picked>>
      BY <1>1 DEF FetchLanding
    <2>2. Plain(<<>>)
      BY DEF Plain, IsList
    <2>3. Plain(cands)'
      <3>1. Plain(Collect(Page, <<>>))
        BY <2>2, CollectPlain
      <3> QED
        BY <2>1, <3>1 DEF Plain, Whole
    <2>4. Counted'
      <3>1. IsFiniteSet(visited') /\ nfetches' = Cardinality(visited')
        BY <2>1, FS_Singleton
      <3>2. nfetches' <= MaxFetches
        BY <1>0, <2>1
      <3> QED
        BY <3>1, <3>2 DEF Counted
    <2>5. frames' = <<>>
      BY <2>1 DEF ScanInv, PhaseRight
    <2>6. FramesRight'
      BY <1>0, <2>1, <2>5, NoCallsYet
    <2>7. PhaseRight'
      BY <2>1, <2>3, <2>5 DEF PhaseRight
    <2> QED
      BY <2>1, <2>3, <2>4, <2>6, <2>7, PlainRight DEF ScanInv
  <1>2. CASE LandingFails
    BY <1>2, Aside DEF LandingFails
  <1>3. CASE Iframe
    <2>1. /\ scphase = "iframes" /\ UNCHANGED <<scphase, maxdepth, frames, steps, visited, nfetches, page0, series, picked>>
          /\ cands' = cands \/ \E url : cands' = Collect(url, cands)
      BY <1>3 DEF Iframe
    <2>2. CASE cands' = cands
      BY <2>1, <2>2, Aside
    <2>3. CASE \E url : cands' = Collect(url, cands)
      <3> PICK url : cands' = Collect(url, cands)
        BY <2>3
      <3>1. Plain(cands) /\ frames = <<>> /\ visited = {Page} /\ Page \in DOMAIN site
        BY <2>1 DEF ScanInv, PhaseRight
      <3>2. Plain(Collect(url, cands))
        BY <3>1, CollectPlain
      <3>3. Plain(cands)'
        BY <3>2 DEF Plain, Whole
      <3>4. FramesRight'
        BY <1>0, <2>1, <3>1, NoCallsYet
      <3>5. PhaseRight'
        BY <2>1, <3>1, <3>3 DEF PhaseRight
      <3>6. Counted'
        BY <2>1 DEF ScanInv, Counted
      <3> QED
        BY <2>1, <3>3, <3>4, <3>5, <3>6, PlainRight DEF ScanInv
    <2> QED
      BY <2>1, <2>2, <2>3
  <1>4. CASE IframesDone
    <2>1. /\ scphase = "iframes" /\ scphase' \in {"recurse", "rank"}
          /\ UNCHANGED <<maxdepth, cands, iframes, frames, steps, visited, nfetches, page0, series, picked>>
      BY <1>4 DEF IframesDone
    <2>2. Plain(cands)' /\ frames' = <<>> /\ visited' = {Page} /\ Page \in DOMAIN site'
      BY <2>1 DEF ScanInv, PhaseRight, Plain, Whole
    <2>3. FramesRight'
      BY <1>0, <2>1, <2>2, NoCallsYet
    <2>4. PhaseRight'
      BY <2>1, <2>2 DEF PhaseRight
    <2>5. Counted'
      BY <2>1 DEF ScanInv, Counted
    <2> QED
      BY <2>1, <2>2, <2>3, <2>4, <2>5, PlainRight DEF ScanInv
  <1> QED
    BY <1>1, <1>2, <1>3, <1>4

(* The first page of the chains.                                              *)
LEMMA RecurseKeeps ==
    ASSUME ScanInv, RecurseSeries \/ RecursePage, UNCHANGED site
    PROVE  ScanInv'
  <1>1. scphase = "recurse" /\ UNCHANGED <<maxdepth, cands, iframes, steps, picked>>
    BY DEF RecurseSeries, RecursePage
  <1>2. /\ Plain(cands) /\ frames = <<>> /\ visited = {Page} /\ Page \in DOMAIN site /\ Counted
        /\ maxdepth \in 0..(MaxChain - 1)
    BY <1>1 DEF ScanInv, PhaseRight
  <1>3. Plain(cands)'
    BY <1>1, <1>2 DEF Plain, Whole
  <1>4. maxdepth \in Nat /\ MaxFetches \in Nat /\ MaxFetches > 1
    BY <1>2, ScanAssumption
  <1>5. nfetches = 1
    BY <1>2, FS_Singleton DEF Counted
  <1>6. CASE RecursePage
    <2>1. StartFrom(Page) /\ UNCHANGED <<visited, nfetches>>
      BY <1>6 DEF RecursePage
    <2>2. FramesRight' /\ PhaseRight'
      BY <1>1, <1>2, <1>4, <2>1, CallsBegin
    <2> QED
      BY <1>1, <1>2, <1>3, <2>1, <2>2, PlainRight DEF ScanInv, Counted
  <1>7. CASE RecurseSeries
    <2> PICK url : /\ visited' = visited \cup {url}
                   /\ nfetches' = IF url \notin visited /\ nfetches < MaxFetches THEN nfetches + 1 ELSE nfetches
                   /\ \/ url \notin visited /\ nfetches < MaxFetches /\ url \in DOMAIN site /\ StartFrom(url)
                      \/ scphase' = "rank" /\ UNCHANGED <<page0, frames>>
      BY <1>7 DEF RecurseSeries
    <2>1. nfetches < MaxFetches
      BY <1>4, <1>5
    <2>2. Counted'
      <3>1. CASE url \in visited
        <4>1. visited' = visited /\ nfetches' = nfetches
          BY <3>1
        <4> QED
          BY <1>2, <4>1 DEF Counted
      <3>2. CASE url \notin visited
        <4>1. nfetches' = nfetches + 1 /\ visited' = visited \cup {url}
          BY <2>1, <3>2
        <4> QED
          BY <1>2, <2>1, <3>2, <4>1, OneMore
      <3> QED
        BY <3>1, <3>2
    <2>3. FramesRight' /\ PhaseRight'
      <3>1. CASE url \in DOMAIN site /\ StartFrom(url)
        <4>1. url \in visited' /\ url \in DOMAIN site'
          BY <3>1
        <4> QED
          BY <1>1, <1>4, <3>1, <4>1, CallsBegin
      <3>2. CASE scphase' = "rank" /\ UNCHANGED <<page0, frames>>
        <4>1. FramesRight'
          BY <1>1, <1>2, <1>4, <3>2, NoCallsYet
        <4> QED
          BY <3>2, <4>1 DEF PhaseRight
      <3> QED
        BY <3>1, <3>2
    <2> QED
      BY <1>1, <1>2, <1>3, <2>2, <2>3, PlainRight DEF ScanInv
  <1> QED
    BY <1>6, <1>7

LEMMA ScanInvKept ==
    ASSUME CapturesGiveLists, ScanInv, [ScanNext]_<<scvars, exvars>>
    PROVE  ScanInv'
  <1>1. CASE UNCHANGED scvars /\ UNCHANGED site
    BY <1>1, Aside DEF scvars
  <1>2. CASE Discovery /\ UNCHANGED site
    <2>1. CASE Rank
      BY <1>2, <2>1, Aside DEF Rank
    <2> QED
      BY <1>2, <2>1, LandingKeeps, RecurseKeeps, FindMediaKeeps, FindLinksKeeps, SkipLinkKeeps, FollowLinkKeeps,
         ReturnKeeps DEF Discovery
  <1>3. CASE (SaveTop \/ SaveChosen \/ SaveNothing) /\ UNCHANGED site
    <2>1. /\ UNCHANGED <<maxdepth, cands, frames, steps, visited, nfetches, page0, site>>
          /\ scphase' \in {"saved", "failed"}
      BY <1>3 DEF SaveTop, SaveChosen, SaveNothing, Save
    <2> QED
      BY <2>1, Aside
  <1>4. CASE UNCHANGED <<scvars, exvars>>
    BY <1>1, <1>4 DEF exvars
  <1> QED
    BY <1>1, <1>2, <1>3, <1>4 DEF ScanNext

LEMMA ScanInvLeads == ScanInv => ChainsLead
  BY DEF ScanInv, Counted, FramesRight, CandsRight, CandRight, ChainsLead, IsList

(* A page is fetched once, and a bounded number of them; and the steps that   *)
(* are kept with a candidate lead from the first page to it, each over a link *)
(* of the page before, although all calls of discover_chain (scan.c) write    *)
(* their steps to one array and a call may return without media.              *)
THEOREM ChainsAlwaysLead == ASSUME CapturesGiveLists PROVE ScanSpec => []ChainsLead
  <1>1. ScanInit /\ ExtractorInit => ScanInv
    BY ScanInvInit
  <1>2. ScanInv /\ [ScanNext]_<<scvars, exvars>> => ScanInv'
    BY ScanInvKept
  <1>3. ScanInv => ChainsLead
    BY ScanInvLeads
  <1> QED
    BY <1>1, <1>2, <1>3, PTL DEF ScanSpec

(* A URL as the program writes it, a text, and what is left of one's fields.  *)
Web(url) == url = Url("http", url.host, url.path) /\ IsList(url.path)

LEMMA UrlFields ==
    ASSUME NEW s, NEW h, NEW p
    PROVE  Url(s, h, p).scheme = s /\ Url(s, h, p).host = h /\ Url(s, h, p).path = p
  BY DEF Url

WithScheme(u, v) == [u EXCEPT !.scheme = v]

LEMMA SchemeGiven ==
    ASSUME NEW s, NEW h, NEW p, NEW v
    PROVE  WithScheme(Url(s, h, p), v) = Url(v, h, p)
  BY DEF Url, WithScheme

LEMMA WebUrl ==
    ASSUME NEW h, NEW S, NEW p \in Seq(S)
    PROVE  Web(Url("http", h, p))
  <1> PICK u : u = Url("http", h, p)
    OBVIOUS
  <1>1. u.host = h /\ u.path = p
    BY UrlFields
  <1>2. IsList(p)
    BY SeqIsList
  <1> QED
    BY <1>1, <1>2 DEF Web

(* What each form of a reference comes to.                                    *)
LEMMA Resolves ==
    ASSUME NEW start, Web(start), NEW u, NEW h, NEW p
    PROVE  /\ Resolve(start, Absolute(u)) = u
           /\ Resolve(start, SchemeRelative(h, p)) = Url("http", h, p)
           /\ Resolve(start, Rooted(p)) = Url("http", start.host, p)
           /\ Resolve(start, Relative(p)) =
                Url("http", start.host, (IF start.path = <<>> THEN <<>> ELSE Front(start.path)) \o p)
  <1> PICK g, q, t : g = start.host /\ q = start.path /\ t = (IF q = <<>> THEN <<>> ELSE Front(q)) \o p
    OBVIOUS
  <1>1. start = [scheme |-> "http", host |-> g, path |-> q]
    BY DEF Web, Url
  <1>2. start.scheme = "http" /\ IsAbsolute(start)
    BY <1>1 DEF IsAbsolute
  <1>3. Absolute(u).form = "absolute" /\ Absolute(u).url = u
    BY DEF Absolute
  <1>4. Resolve(start, Absolute(u)) = u
    BY <1>3 DEF Resolve
  <1>5. SchemeRelative(h, p).form = "scheme" /\ SchemeRelative(h, p).url = [scheme |-> "", host |-> h, path |-> p]
    BY DEF SchemeRelative, Url
  <1>6. Resolve(start, SchemeRelative(h, p)) = WithScheme(SchemeRelative(h, p).url, start.scheme)
    BY <1>2, <1>5 DEF Resolve, WithScheme
  <1>7. Resolve(start, SchemeRelative(h, p)) = Url("http", h, p)
    <2> PICK e : SchemeRelative(h, p).url = Url(e, h, p)
      BY <1>5 DEF Url
    <2>1. WithScheme(Url(e, h, p), "http") = Url("http", h, p)
      BY SchemeGiven
    <2> QED
      BY <1>2, <1>6, <2>1
  <1>8. Rooted(p).form = "root" /\ Rooted(p).url.path = p
    BY DEF Rooted, Url
  <1>9. Resolve(start, Rooted(p)) = [start EXCEPT !.path = p]
    BY <1>2, <1>8 DEF Resolve
  <1>10. \A v : [start EXCEPT !.path = v] = Url("http", g, v)
    BY <1>1 DEF Url
  <1>11. Relative(p).form = "relative" /\ Relative(p).url.path = p
    BY DEF Relative, Url
  <1>12. Resolve(start, Relative(p)) = [start EXCEPT !.path = (IF @ = <<>> THEN <<>> ELSE Front(@)) \o p]
    BY <1>2, <1>11 DEF Resolve
  <1>13. Resolve(start, Relative(p)) = [start EXCEPT !.path = t]
    BY <1>12
  <1> QED
    BY <1>4, <1>7, <1>9, <1>10, <1>13

LEMMA TextParts ==
    ASSUME NEW S, NEW p \in Seq(S), NEW g, NEW h, NEW t, t = <<g, h>> \o p
    PROVE  /\ t \in Seq(S \cup {g, h}) /\ Len(t) = Len(p) + 2 /\ t[1] = g /\ t[2] = h
           /\ SubSeq(t, 3, Len(t)) = p /\ t # <<>>
  <1> PICK n, T : n = Len(p) /\ T = S \cup {g, h}
    OBVIOUS
  <1>1. p \in Seq(T) /\ n \in Nat /\ <<g, h>> \in Seq(T)
    OBVIOUS
  <1>2. t \in Seq(T) /\ Len(t) = n + 2 /\ t[1] = g /\ t[2] = h /\ \A i \in 1..n : t[i + 2] = p[i]
    BY <1>1
  <1>3. SubSeq(t, 3, Len(t)) = p
    <2> PICK q : q = SubSeq(t, 3, Len(t))
      OBVIOUS
    <2>1. q = [i \in 1..n |-> t[i + 2]]
      BY <1>1, <1>2
    <2>2. p = [i \in 1..n |-> p[i]]
      BY <1>1
    <2> QED
      BY <1>2, <2>1, <2>2
  <1>4. t # <<>>
    BY <1>1, <1>2
  <1> QED
    BY <1>2, <1>3, <1>4

LEMMA TextRight ==
    ASSUME NEW url, Web(url)
    PROVE  /\ IsList(TextOf(url)) /\ TextOf(url) # <<>>
           /\ RefOf(TextOf(url)) = Absolute(url)
           /\ RefOf(TextOf(url)).url = url
  <1> PICK p, h, t : p = url.path /\ h = url.host /\ t = TextOf(url)
    OBVIOUS
  <1> PICK S : S = {p[i] : i \in 1..Len(p)}
    OBVIOUS
  <1>1. p \in Seq(S)
    BY ListIsSeq DEF Web
  <1>2. t = <<"http:", h>> \o p
    BY DEF TextOf
  <1>3. /\ t \in Seq(S \cup {"http:", h}) /\ t[1] = "http:" /\ t[2] = h
        /\ SubSeq(t, 3, Len(t)) = p /\ t # <<>>
    BY <1>1, <1>2, TextParts
  <1>4. IsList(t)
    BY <1>3, SeqIsList
  <1>5. RefOf(t) = Absolute(Url("http", h, p))
    BY <1>3 DEF RefOf
  <1>6. Url("http", h, p) = url
    BY DEF Web
  <1>7. Absolute(url).url = url
    BY DEF Absolute
  <1> QED
    BY <1>3, <1>4, <1>5, <1>6, <1>7

(* A reference in a text is made into one.                                    *)
LEMMA ResolveWeb ==
    ASSUME NEW start, Web(start), NEW ref, IsList(ref)
    PROVE  Web(Resolve(start, RefOf(ref)))
  <1> PICK p, h : p = start.path /\ h = start.host
    OBVIOUS
  <1> PICK S : S = {ref[i] : i \in 1..Len(ref)} \cup {p[i] : i \in 1..Len(p)}
    OBVIOUS
  <1>1. ref \in Seq(S) /\ Len(ref) \in Nat
    <2>1. ref \in Seq({ref[i] : i \in 1..Len(ref)}) /\ Len(ref) \in Nat
      BY ListIsSeq
    <2> QED
      BY <2>1
  <1>2. p \in Seq(S)
    <2>1. p \in Seq({p[i] : i \in 1..Len(p)})
      BY ListIsSeq DEF Web
    <2> QED
      BY <2>1
  <1>3. SubSeq(ref, 3, Len(ref)) \in Seq(S) /\ (ref # <<>> => Tail(ref) \in Seq(S))
    BY <1>1
  <1>4. (IF p = <<>> THEN <<>> ELSE Front(p)) \o ref \in Seq(S)
    <2>1. p # <<>> => Front(p) \in Seq(S)
      BY <1>2 DEF Front
    <2>2. <<>> \in Seq(S)
      OBVIOUS
    <2> QED
      BY <1>1, <2>1, <2>2
  <1> PICK f : f = RefOf(ref)
    OBVIOUS
  <1>5. \/ \E u \in Seq(S) : \E g : f = Absolute(Url("http", g, u)) \/ f = SchemeRelative(g, u)
        \/ \E u \in Seq(S) : f = Rooted(u)
        \/ f = Relative(ref)
    BY <1>3 DEF RefOf
  <1>6. \A u \in Seq(S) : \A g : Resolve(start, Absolute(Url("http", g, u))) = Url("http", g, u)
    BY Resolves
  <1>7. \A u, g : Resolve(start, SchemeRelative(g, u)) = Url("http", g, u) /\ Resolve(start, Rooted(u)) = Url("http", h, u)
    BY Resolves
  <1>8. Resolve(start, Relative(ref)) = Url("http", h, (IF p = <<>> THEN <<>> ELSE Front(p)) \o ref)
    BY Resolves
  <1>9. \E u \in Seq(S) : \E g : Resolve(start, f) = Url("http", g, u)
    <2>1. CASE \E u \in Seq(S) : \E g : f = Absolute(Url("http", g, u)) \/ f = SchemeRelative(g, u)
      <3> PICK u, g : u \in Seq(S) /\ (f = Absolute(Url("http", g, u)) \/ f = SchemeRelative(g, u))
        BY Zenon, <2>1
      <3>1. Resolve(start, f) = Url("http", g, u)
        BY Zenon, <1>6, <1>7
      <3> QED
        BY Zenon, <3>1
    <2>2. CASE \E u \in Seq(S) : f = Rooted(u)
      BY <1>7, <2>2
    <2>3. CASE f = Relative(ref)
      BY <1>4, <1>8, <2>3
    <2> QED
      BY <1>5, <2>1, <2>2, <2>3
  <1> QED
    BY <1>9, WebUrl

LEMMA FlatOne ==
    ASSUME NEW x
    PROVE  FlattenSeq(<<x>>) = x
  <1> DEFINE on == [i \in 1..1 |-> x]
             c == CHOOSE g : g = [i \in 1..1 |-> IF i = 1 THEN <<x>>[i] ELSE g[i - 1] \o <<x>>[i]]
  <1>1. on = [i \in 1..1 |-> IF i = 1 THEN <<x>>[i] ELSE on[i - 1] \o <<x>>[i]]
    BY 1 \in 1..1 /\ \A i \in 1..1 : i = 1
  <1>2. c = [i \in 1..1 |-> IF i = 1 THEN <<x>>[i] ELSE c[i - 1] \o <<x>>[i]]
    BY <1>1
  <1>3. FlattenSeq(<<x>>) = c[1]
    BY DEF FlattenSeq
  <1> HIDE DEF c
  <1>4. c[1] = x
    <2>1. \A i \in 1..1 : c[i] = IF i = 1 THEN <<x>>[i] ELSE c[i - 1] \o <<x>>[i]
      BY <1>2
    <2> QED
      BY <2>1
  <1> QED
    BY <1>3, <1>4

LEMMA FlatTwo ==
    ASSUME NEW x, NEW y
    PROVE  FlattenSeq(<<x, y>>) = x \o y
  <1> DEFINE both == <<x, y>>
             on == [i \in 1..2 |-> IF i = 1 THEN x ELSE x \o y]
             c == CHOOSE g : g = [i \in 1..2 |-> IF i = 1 THEN both[i] ELSE g[i - 1] \o both[i]]
  <1>0. Len(both) = 2 /\ both[1] = x /\ both[2] = y
    OBVIOUS
  <1>3. FlattenSeq(both) = c[2]
    BY DEF FlattenSeq
  <1> HIDE DEF both
  <1>1. on = [i \in 1..2 |-> IF i = 1 THEN both[i] ELSE on[i - 1] \o both[i]]
    <2>1. ASSUME NEW i \in 1..2 PROVE on[i] = IF i = 1 THEN both[i] ELSE on[i - 1] \o both[i]
      <3>1. i = 1 \/ i = 2
        OBVIOUS
      <3>2. on[1] = x /\ on[2] = x \o y
        BY SMTT(30)
      <3> QED
        BY <1>0, <3>1, <3>2
    <2> QED
      BY <2>1
  <1>2. c = [i \in 1..2 |-> IF i = 1 THEN both[i] ELSE c[i - 1] \o both[i]]
    BY <1>1, Zenon
  <1> HIDE DEF c
  <1>4. c[2] = x \o y
    <2>1. \A i \in 1..2 : c[i] = IF i = 1 THEN both[i] ELSE c[i - 1] \o both[i]
      BY <1>2
    <2>2. c[1] = x /\ c[2] = c[1] \o y
      BY <1>0, <2>1
    <2> QED
      BY <2>2
  <1>5. FlattenSeq(both) = x \o y
    BY <1>3, <1>4
  <1> QED
    BY <1>5 DEF both

LEMMA NoNames ==
    /\ "url" # None /\ "media" # None
    /\ \A k \in 1..3 : LinkVar[k] # None
    /\ \A t \in HandleNames : t # None
  <1>1. LinkVar[1] \in ToSet(LinkVar) /\ LinkVar[2] \in ToSet(LinkVar) /\ LinkVar[3] \in ToSet(LinkVar)
    BY DEF LinkVar, ToSet
  <1>2. \A k \in 1..3 : k = 1 \/ k = 2 \/ k = 3
    OBVIOUS
  <1> QED
    BY <1>1, <1>2, TakenAssumption

LEMMA LitText ==
    ASSUME NEW st, NEW t
    PROVE  Interpolate(<<Lit(t)>>, st) = t /\ Names(<<Lit(t)>>) = {}
  <1> DEFINE tpl == <<Lit(t)>>
  <1>1. DOMAIN tpl = 1..1 /\ tpl[1] = Lit(t) /\ Lit(t).var = None /\ Lit(t).text = t
    BY DEF Lit
  <1>2. [i \in 1..1 |-> IF tpl[i].var = None THEN tpl[i].text ELSE st[tpl[i].var]] = <<t>>
    <2>1. \A i \in 1..1 : (IF tpl[i].var = None THEN tpl[i].text ELSE st[tpl[i].var]) = t
      BY <1>1
    <2> HIDE DEF tpl
    <2>2. [i \in 1..1 |-> IF tpl[i].var = None THEN tpl[i].text ELSE st[tpl[i].var]] = [i \in 1..1 |-> t]
      BY <2>1
    <2>3. [i \in 1..1 |-> t] = <<t>>
      OBVIOUS
    <2> QED
      BY <2>2, <2>3
  <1> HIDE DEF tpl
  <1>3. Interpolate(tpl, st) = FlattenSeq(<<t>>)
    BY Zenon, <1>1, <1>2 DEF Interpolate
  <1>4. Names(tpl) = {}
    <2>1. \A i \in 1..1 : tpl[i].var = None
      BY <1>1
    <2> QED
      BY <1>1, <2>1 DEF Names
  <1> QED
    BY <1>3, <1>4, FlatOne DEF tpl

LEMMA VarText ==
    ASSUME NEW st, NEW n, n # None
    PROVE  Interpolate(<<Var(n)>>, st) = st[n] /\ Names(<<Var(n)>>) = {n}
  <1> DEFINE tpl == <<Var(n)>>
  <1> PICK t : t = st[n]
    OBVIOUS
  <1>1. DOMAIN tpl = 1..1 /\ tpl[1] = Var(n) /\ Var(n).var = n
    BY DEF Var
  <1>2. [i \in 1..1 |-> IF tpl[i].var = None THEN tpl[i].text ELSE st[tpl[i].var]] = <<t>>
    <2>1. \A i \in 1..1 : (IF tpl[i].var = None THEN tpl[i].text ELSE st[tpl[i].var]) = t
      BY <1>1
    <2> HIDE DEF tpl
    <2>2. [i \in 1..1 |-> IF tpl[i].var = None THEN tpl[i].text ELSE st[tpl[i].var]] = [i \in 1..1 |-> t]
      BY <2>1
    <2>3. [i \in 1..1 |-> t] = <<t>>
      OBVIOUS
    <2> QED
      BY <2>2, <2>3
  <1> HIDE DEF tpl
  <1>3. Interpolate(tpl, st) = FlattenSeq(<<t>>)
    BY Zenon, <1>1, <1>2 DEF Interpolate
  <1>4. Names(tpl) = {n}
    <2>1. \A i \in 1..1 : tpl[i].var = n
      BY <1>1
    <2>2. \E i \in 1..1 : tpl[i].var = n
      BY <2>1
    <2> QED
      BY <1>1, <2>1, <2>2 DEF Names
  <1> QED
    BY <1>3, <1>4, FlatOne DEF tpl

LEMMA LitVarText ==
    ASSUME NEW st, NEW t, NEW n, n # None
    PROVE  Interpolate(<<Lit(t), Var(n)>>, st) = t \o st[n] /\ Names(<<Lit(t), Var(n)>>) = {n}
  <1> DEFINE tpl == <<Lit(t), Var(n)>>
  <1> PICK u : u = st[n]
    OBVIOUS
  <1>1. /\ DOMAIN tpl = 1..2 /\ tpl[1] = Lit(t) /\ tpl[2] = Var(n) /\ Var(n).var = n
        /\ Lit(t).var = None /\ Lit(t).text = t
    BY DEF Var, Lit
  <1>0. \A i \in 1..2 : i = 1 \/ i = 2
    OBVIOUS
  <1>2. [i \in 1..2 |-> IF tpl[i].var = None THEN tpl[i].text ELSE st[tpl[i].var]] = <<t, u>>
    <2>1. \A i \in 1..2 : (IF tpl[i].var = None THEN tpl[i].text ELSE st[tpl[i].var]) = IF i = 1 THEN t ELSE u
      BY <1>0, <1>1
    <2> HIDE DEF tpl
    <2>2. [i \in 1..2 |-> IF tpl[i].var = None THEN tpl[i].text ELSE st[tpl[i].var]]
            = [i \in 1..2 |-> IF i = 1 THEN t ELSE u]
      BY <2>1
    <2>3. [i \in 1..2 |-> IF i = 1 THEN t ELSE u] = <<t, u>>
      OBVIOUS
    <2> QED
      BY <2>2, <2>3
  <1> HIDE DEF tpl
  <1>3. Interpolate(tpl, st) = FlattenSeq(<<t, u>>)
    BY Zenon, <1>1, <1>2 DEF Interpolate
  <1>4. Names(tpl) = {n}
    <2>1. tpl[1].var = None /\ tpl[2].var = n /\ 2 \in 1..2
      BY <1>1
    <2>2. {tpl[i].var : i \in 1..2} = {None, n}
      BY <1>0, <2>1
    <2>3. {None, n} \ {None} = {n}
      OBVIOUS
    <2> QED
      BY <1>1, <2>2, <2>3 DEF Names
  <1> QED
    BY <1>3, <1>4, FlatTwo DEF tpl

LEMMA TargetUrl ==
    ASSUME NEW st, NEW u, Web(u), st["url"] = TextOf(u)
    PROVE  Target(ThisUrl, st) = u /\ Names(ThisUrl) = {"url"}
  <1>1. Interpolate(ThisUrl, st) = TextOf(u) /\ Names(ThisUrl) = {"url"}
    BY NoNames, VarText DEF ThisUrl
  <1>2. RefOf(TextOf(u)) = Absolute(u) /\ RefOf(TextOf(u)).url = u
    BY TextRight
  <1>3. Resolve(u, Absolute(u)) = u
    BY Resolves
  <1> QED
    BY <1>1, <1>2, <1>3 DEF Target

LEMMA AbsoluteUrl ==
    ASSUME NEW start, NEW u
    PROVE  Resolve(start, Absolute(u)) = u
  <1>1. Absolute(u).form = "absolute" /\ Absolute(u).url = u
    BY DEF Absolute
  <1> QED
    BY <1>1 DEF Resolve

LEMMA TargetLit ==
    ASSUME NEW st, NEW u, Web(u)
    PROVE  Target(<<Lit(TextOf(u))>>, st) = u
  <1>1. Interpolate(<<Lit(TextOf(u))>>, st) = TextOf(u)
    BY LitText
  <1>2. RefOf(TextOf(u)) = Absolute(u)
    BY TextRight
  <1> QED
    BY <1>1, <1>2, AbsoluteUrl DEF Target

LEMMA TargetVar ==
    ASSUME NEW st, NEW u, Web(u), st["url"] = TextOf(u), NEW n, n # None
    PROVE  Target(<<Var(n)>>, st) = Resolve(u, RefOf(st[n])) /\ Names(<<Var(n)>>) = {n}
  <1>1. Interpolate(<<Var(n)>>, st) = st[n] /\ Names(<<Var(n)>>) = {n}
    BY VarText
  <1>2. RefOf(TextOf(u)).url = u
    BY TextRight
  <1> QED
    BY <1>1, <1>2 DEF Target

LEMMA LastAgain ==
    ASSUME NEW S, NEW p \in Seq(S), p # <<>>, NEW g, NEW h
    PROVE  (<<g, h>> \o Front(p)) \o <<Last(p)>> = <<g, h>> \o p
  <1> PICK n, f, T, l : n = Len(p) /\ f = Front(p) /\ T = S \cup {g, h} /\ l = Last(p)
    OBVIOUS
  <1>1. n \in Nat \ {0} /\ n - 1 \in 0..n /\ p \in Seq(T) /\ \A i \in 1..n : p[i] \in T
    OBVIOUS
  <1>2. f \in Seq(T) /\ Len(f) = n - 1 /\ \A i \in 1..(n - 1) : f[i] = p[i]
    <2>1. f = SubSeq(p, 1, n - 1)
      BY DEF Front
    <2> QED
      BY <1>1, <2>1
  <1>3. l = p[n] /\ l \in T
    BY <1>1 DEF Last
  <1>4. <<g, h>> \in Seq(T) /\ <<l>> \in Seq(T)
    BY <1>3
  <1> PICK x, y : x = (<<g, h>> \o f) \o <<l>> /\ y = <<g, h>> \o p
    OBVIOUS
  <1>5. y \in Seq(T) /\ Len(y) = n + 2 /\ y[1] = g /\ y[2] = h /\ \A i \in 1..n : y[i + 2] = p[i]
    BY <1>1, <1>4
  <1>6. x \in Seq(T) /\ Len(x) = n + 2 /\ x[1] = g /\ x[2] = h /\ \A i \in 1..n : x[i + 2] = p[i]
    <2> PICK z : z = <<g, h>> \o f
      OBVIOUS
    <2>1. z \in Seq(T) /\ Len(z) = n + 1 /\ z[1] = g /\ z[2] = h /\ \A i \in 1..(n - 1) : z[i + 2] = p[i]
      BY <1>1, <1>2, <1>4
    <2>2. x = z \o <<l>>
      OBVIOUS
    <2>3. x = Append(z, l)
      BY <1>3, <2>1, <2>2
    <2>4. x \in Seq(T) /\ Len(x) = n + 2 /\ x[n + 2] = l /\ \A i \in 1..(n + 1) : x[i] = z[i]
      BY <1>1, <1>3, <2>1, <2>3
    <2>5. ASSUME NEW i \in 1..n PROVE x[i + 2] = p[i]
      <3>1. CASE i = n
        BY <1>3, <2>4, <3>1
      <3>2. CASE i # n
        <4>1. i \in 1..(n - 1) /\ i + 2 \in 1..(n + 1)
          BY <1>1, <3>2
        <4> QED
          BY <2>1, <2>4, <4>1
      <3> QED
        BY <3>1, <3>2
    <2>6. 1 \in 1..(n + 1) /\ 2 \in 1..(n + 1)
      BY <1>1
    <2> QED
      BY <2>1, <2>4, <2>5, <2>6
  <1>7. ASSUME NEW i \in 1..(n + 2) PROVE x[i] = y[i]
    <2>1. i = 1 \/ i = 2 \/ (i - 2 \in 1..n /\ (i - 2) + 2 = i)
      BY <1>1
    <2> QED
      BY <1>5, <1>6, <2>1
  <1>8. x = y
    BY <1>1, <1>5, <1>6, <1>7
  <1> QED
    BY <1>8

LEMMA TargetHandle ==
    ASSUME NEW st, NEW u, Web(u), u.path # <<>>, NEW n, n # None, st[n] = <<Last(u.path)>>
    PROVE  /\ Target(<<Lit(TextOf([u EXCEPT !.path = Front(@)])), Var(n)>>, st) = u
           /\ Names(<<Lit(TextOf([u EXCEPT !.path = Front(@)])), Var(n)>>) = {n}
  <1> PICK p, h, b : p = u.path /\ h = u.host /\ b = TextOf([u EXCEPT !.path = Front(@)])
    OBVIOUS
  <1>1. u = [scheme |-> "http", host |-> h, path |-> p]
    BY DEF Web, Url
  <1>2. [u EXCEPT !.path = Front(@)].path = Front(p) /\ [u EXCEPT !.path = Front(@)].host = h
    BY <1>1
  <1>3. b = <<"http:", h>> \o Front(p)
    BY <1>2 DEF TextOf
  <1> PICK S : S = {p[i] : i \in 1..Len(p)}
    OBVIOUS
  <1>4. p \in Seq(S) /\ p # <<>>
    BY ListIsSeq DEF Web
  <1>6. b \o <<Last(p)>> = <<"http:", h>> \o p
    <2>1. (<<"http:", h>> \o Front(p)) \o <<Last(p)>> = <<"http:", h>> \o p
      BY <1>4, LastAgain, Zenon
    <2> QED
      BY <1>3, <2>1, Zenon
  <1>7. b \o <<Last(p)>> = TextOf(u)
    BY <1>6 DEF TextOf
  <1>8. Interpolate(<<Lit(b), Var(n)>>, st) = b \o st[n] /\ Names(<<Lit(b), Var(n)>>) = {n}
    BY LitVarText
  <1>9. RefOf(TextOf(u)) = Absolute(u)
    BY TextRight
  <1>10. Target(<<Lit(b), Var(n)>>, st) = u
    BY <1>7, <1>8, <1>9, AbsoluteUrl DEF Target
  <1> QED
    BY <1>8, <1>10

-----------------------------------------------------------------------------
(* What is kept of a candidate that is written down.                          *)
Ending(c) == Captures(Last(c.chain).ere, site[Way(page0, c.chain)[Len(c.chain)]])

HandleFit(c) ==
    /\ c.param.token \in HandleNames
    /\ c.param.base = TextOf([c.url EXCEPT !.path = Front(@)])
    /\ c.url.path # <<>>
    /\ Contains(Captures(HandleEre(c.param.token, ExtOf(c.url)), site[page0]), <<Last(c.url.path)>>)

ChainFit(c) ==
    /\ IsList(c.chain) /\ Len(c.chain) \in 1..MaxChain
    /\ Last(c.chain).sample = TextOf(c.url)
    /\ series = None => page0 = Page
    /\ c.param # None => HandleFit(c)

CandFit(c) ==
    /\ Web(c.url)
    /\ c.chain = <<>> => page0 = None /\ c.param = None
    /\ c.chain # <<>> => ChainFit(c)

FitInv ==
    /\ \A i \in DOMAIN cands : CandFit(cands[i])
    /\ scphase \in {"fetch", "iframes", "recurse"} => page0 = None /\ series = None
    /\ scphase = "recurse" => cands = <<>>
    /\ scphase = "follow" => (series = None => page0 = Page) /\ \A i \in DOMAIN cands : cands[i].chain # <<>>

-----------------------------------------------------------------------------
(* The directives of the configs that are written.                            *)
GiveAt(D, f, t) == Len(D) = f /\ D[f] = Directive(Give(t))

HandleAt(D, f, c) ==
    /\ Len(D) = f + 2
    /\ D[f] = Directive(Get(PageVar[1], ThisUrl))
    /\ D[f + 1] = Directive(Take("var", c.param.token, PageVar[1], HandleEre(c.param.token, ExtOf(c.url))))
    /\ D[f + 2] = Directive(Give(<<Lit(c.param.base), Var(c.param.token)>>))

ChainAt(D, f, chain) ==
    LET n == Len(chain)
    IN  /\ Len(D) = f + 2 * n
        /\ D[f] = Directive(Get(PageVar[1], ThisUrl))
        /\ \A k \in 1..(n - 1) :
             /\ D[f + 2 * k - 1] = Directive(Take("var", LinkVar[k], PageVar[k], chain[k].ere))
             /\ D[f + 2 * k] = Directive(Get(PageVar[k + 1], <<Var(LinkVar[k])>>))
        /\ D[f + 2 * n - 1] = Directive(Take("var", "media", PageVar[n], Last(chain).ere))
        /\ D[f + 2 * n] = Directive(Give(<<Var("media")>>))

PipeAt(D, f, c) == IF c.param # None THEN HandleAt(D, f, c) ELSE ChainAt(D, f, c.chain)

Listing(D, ere) ==
    /\ Len(D) >= 3
    /\ D[1] = Directive(Get("page", ThisUrl)) /\ D[2] = Directive(Take("list", "eps", "page", ere))

OneForm(D, i) ==
    /\ picked = {i} /\ i \in DOMAIN cands
    /\ \/ GiveAt(D, 1, <<Lit(TextOf(cands[i].url))>>)
       \/ series = None /\ cands[i].chain # <<>> /\ PipeAt(D, 1, cands[i])

ListForm(D, ere) ==
    /\ Listing(D, ere) /\ GiveAt(D, 3, ThisUrl)
    /\ picked # {} /\ picked \subseteq DOMAIN cands
    /\ \/ ere = series
       \/ \E o \in InOrder(picked) : ere = AnyEre([k \in DOMAIN o |-> RawRef(cands[o[k]])])
    /\ \A i \in picked : picked = {i} => cands[i].chain = <<>>

LongForm(D) ==
    /\ Listing(D, series) /\ Last(D).arg # ThisUrl
    /\ \A i \in picked : picked = {i} => i \in DOMAIN cands /\ cands[i].chain # <<>> /\ PipeAt(D, 3, cands[i])

Formed(c) ==
    /\ c # NoConfig /\ IsList(c.directives)
    /\ \/ \E i \in picked : OneForm(c.directives, i)
       \/ ListForm(c.directives, c.directives[2].arg[1].text)
       \/ LongForm(c.directives)

-----------------------------------------------------------------------------
(* The variables after q directives, on the first page of the chains.         *)
HandleStore(c, q, st) ==
    /\ q \in 0..2
    /\ q = 0 => st = OnlyUrl(page0)
    /\ q = 1 => DOMAIN st = {"url", PageVar[1]} /\ st["url"] = TextOf(page0) /\ st[PageVar[1]] = site[page0]
    /\ q = 2 => c.param.token \in DOMAIN st /\ st[c.param.token] = <<Last(c.url.path)>>

ChainStore(c, q, st) ==
    LET n == Len(c.chain)  way == Way(page0, c.chain)
    IN  /\ q \in 0..(2 * n)
        /\ IsFiniteSet(DOMAIN st) /\ Cardinality(DOMAIN st) <= q + 1
        /\ "url" \in DOMAIN st /\ st["url"] = TextOf(page0)
        /\ \A k \in 1..n : 2 * k - 1 <= q => PageVar[k] \in DOMAIN st /\ st[PageVar[k]] = site[way[k]]
        /\ \A k \in 1..(n - 1) : 2 * k <= q => /\ LinkVar[k] \in DOMAIN st
                                               /\ st[LinkVar[k]] = Captures(c.chain[k].ere, site[way[k]])[1]
        /\ 2 * n <= q => "media" \in DOMAIN st /\ st["media"] = Ending(c)[1]

PipeStore(c, q, st) == IF c.param # None THEN HandleStore(c, q, st) ELSE ChainStore(c, q, st)

Piped(f, c) == at \in Nat /\ at - f \in Nat /\ at <= Len(ex.directives) /\ PipeStore(c, at - f, store)

-----------------------------------------------------------------------------
(* One candidate; a list of media; and a list of pages, of which the first    *)
(* episode's is the one that was searched.                                    *)
OneUsed(i) ==
    LET c == cands[i]  direct == GiveAt(ex.directives, 1, <<Lit(TextOf(c.url))>>)
    IN  /\ OneForm(ex.directives, i)
        /\ exphase \in {"run", "resolved", "failed"}
        /\ exphase = "run" => /\ episodes = <<Page>> /\ medias = <<>>
                              /\ direct => at = 1
                              /\ ~direct /\ Expressible(c) => Piped(1, c)
        /\ exphase = "resolved" => (direct \/ Expressible(c) => medias = <<c.url>>)
        /\ exphase = "failed" => (direct \/ Expressible(c) => Here.kw = "get")

NotListed ==
    /\ medias = <<>> /\ at \in {1, 2}
    /\ at = 1 => store = OnlyUrl(Page)
    /\ at = 2 => DOMAIN store = {"url", "page"} /\ store["url"] = TextOf(Page) /\ store["page"] = site[Page]

Spread ==
    /\ IsList(episodes) /\ IsList(medias) /\ Len(medias) <= Len(episodes)
    /\ \A k \in 1..Len(episodes) : Web(episodes[k])

Turn == Spread /\ Len(medias) < Len(episodes)

AllListed(ere) ==
    LET found == Captures(ere, site[Page])
    IN  Len(found) <= MaxEpisodes => ToSet(episodes) = {Resolve(Page, RefOf(found[k])) : k \in 1..Len(found)}

SameMedias == \A k \in 1..Len(medias) : medias[k] = episodes[k]

ListUsed(ere) ==
    /\ ListForm(ex.directives, ere)
    /\ exphase \in {"list", "run", "resolved", "failed"}
    /\ exphase = "list" => NotListed
    /\ exphase = "run" => /\ Turn /\ AllListed(ere) /\ SameMedias
                          /\ at = 3 /\ store = OnlyUrl(episodes[Len(medias) + 1])
    /\ exphase = "resolved" => Spread /\ AllListed(ere) /\ SameMedias /\ Len(medias) = Len(episodes)
    /\ exphase = "failed" => Here.kw = "get" \/ Captures(ere, site[Page]) = <<>>

OwnMedia(c) == \A k \in 1..Len(medias) : episodes[k] = page0 /\ Expressible(c) => medias[k] \in {None, c.url}

LongUsed ==
    /\ LongForm(ex.directives)
    /\ exphase \in {"list", "run", "resolved", "failed"}
    /\ exphase = "list" => NotListed
    /\ exphase = "run" => Turn
    /\ exphase = "resolved" => Spread
    /\ \A i \in picked : picked = {i} =>
         /\ exphase \in {"run", "resolved"} => OwnMedia(cands[i])
         /\ exphase = "run" =>
              (episodes[Len(medias) + 1] = page0 /\ Expressible(cands[i]) => Piped(3, cands[i]))

UseInv ==
    /\ FitInv
    /\ scphase # "saved" => exphase = "write" /\ configs = Begun
    /\ exphase = "write" => ex = NoConfig /\ at = 1 /\ store = OnlyUrl(Page) /\ episodes = <<>> /\ medias = <<>>
    /\ scphase = "saved" /\ exphase = "write" => Formed(Discover)
    /\ Used => /\ ex # NoConfig /\ IsList(ex.directives)
               /\ \/ \E i \in picked : OneUsed(i)
                  \/ \E ere \in {ex.directives[2].arg[1].text} : ListUsed(ere)
                  \/ LongUsed

(* What a match is, and what finds one of several texts.                      *)
TextsCaptured ==
    \A p, txt : /\ \A i \in 1..Len(Captures(p, txt)) : IsList(Captures(p, txt)[i])
                /\ \A i \in 1..Len(ScanCaptures(p, txt)) : IsList(ScanCaptures(p, txt)[i])

AnyFinds == \A texts, txt : \A i \in 1..Len(Captures(AnyEre(texts), txt)) :
                Contains(texts, Captures(AnyEre(texts), txt)[i])

NoneIsNoExpression == \A template : HrefEre(template) # None

LEMMA PagesWeb ==
    ASSUME site \in Sites
    PROVE  Web(Page) /\ \A url \in DOMAIN site : Web(url)
  BY ScanAssumption DEF Web

(* Candidates of the landing page.                                            *)
FromPage(c) == Web(c.url) /\ c.chain = <<>> /\ c.param = None

LEMMA CollectFit ==
    ASSUME CapturesGiveLists, TextsCaptured, NEW fromUrl, Web(fromUrl),
           NEW list, IsList(list), \A i \in 1..Len(list) : FromPage(list[i])
    PROVE  LET all == Collect(fromUrl, list) IN IsList(all) /\ \A i \in 1..Len(all) : FromPage(all[i])
  <1> DEFINE ms == [i \in DOMAIN DirectEres |-> ScanCaptures(DirectEres[i], site[fromUrl])]
             M == UNION {{ms[i][j] : j \in 1..Len(ms[i])} : i \in DOMAIN DirectEres}
             refs == FlattenSeq(ms)
             found == [i \in 1..Len(refs) |-> Candidate(Resolve(fromUrl, RefOf(refs[i])), refs[i], <<>>)]
  <1>1. DOMAIN DirectEres = 1..Len(DirectEres) /\ Len(DirectEres) \in Nat
    BY ScanAssumption, ListIsSeq
  <1>2. \A i \in DOMAIN DirectEres : ms[i] \in Seq(M)
    <2> SUFFICES ASSUME NEW i \in DOMAIN DirectEres PROVE ms[i] \in Seq(M)
      OBVIOUS
    <2>1. IsList(ms[i])
      BY DEF CapturesGiveLists
    <2>2. ms[i] \in Seq({ms[i][j] : j \in 1..Len(ms[i])})
      BY <2>1, ListIsSeq
    <2>3. {ms[i][j] : j \in 1..Len(ms[i])} \subseteq M
      OBVIOUS
    <2> HIDE DEF ms, M
    <2> QED
      BY <2>2, <2>3
  <1>3. ms \in Seq(Seq(M))
    <2> PICK n : n = Len(DirectEres)
      OBVIOUS
    <2>1. ms = [i \in 1..n |-> ms[i]] /\ n \in Nat /\ \A i \in 1..n : ms[i] \in Seq(M)
      BY <1>1, <1>2
    <2> HIDE DEF ms, M
    <2> QED
      BY <2>1
  <1>4. \A r \in M : IsList(r)
    BY DEF TextsCaptured
  <1>5. \E fit, known, room : Collect(fromUrl, list) = list \o Kept(found, fit, known, room)
    BY DEF Collect
  <1> HIDE DEF ms, M
  <1>6. Len(refs) \in Nat /\ \A i \in 1..Len(refs) : refs[i] \in M
    <2>1. refs \in Seq(M)
      BY <1>3, FlatIsSeq
    <2> HIDE DEF refs
    <2> QED
      BY <2>1
  <1> HIDE DEF refs
  <1> DEFINE F == {found[i] : i \in 1..Len(refs)}
             L == {list[i] : i \in 1..Len(list)}
  <1>7. found \in Seq(F)
    BY <1>6
  <1>8. \A c \in F \cup L : FromPage(c)
    <2>1. ASSUME NEW i \in 1..Len(refs) PROVE FromPage(found[i])
      <3> PICK r : r = refs[i]
        OBVIOUS
      <3>1. Web(Resolve(fromUrl, RefOf(r)))
        BY <1>4, <1>6, ResolveWeb
      <3>2. found[i] = Candidate(Resolve(fromUrl, RefOf(r)), r, <<>>)
        OBVIOUS
      <3> HIDE DEF found
      <3> QED
        BY <3>1, <3>2 DEF Candidate, FromPage
    <2> HIDE DEF found
    <2> QED
      BY <2>1
  <1>9. list \in Seq(L)
    BY ListIsSeq
  <1> HIDE DEF found, F, L
  <1>10. \A fit, known, room : Kept(found, fit, known, room) \in Seq(F)
    BY <1>7, KeptIsSeq
  <1>11. Collect(fromUrl, list) \in Seq(F \cup L)
    <2> PICK k : k \in Seq(F) /\ Collect(fromUrl, list) = list \o k
      BY <1>5, <1>10
    <2>1. k \in Seq(F \cup L) /\ list \in Seq(F \cup L)
      BY <1>9
    <2> QED
      BY <2>1, Joined
  <1> PICK all : all = Collect(fromUrl, list)
    OBVIOUS
  <1>12. IsList(all) /\ \A i \in 1..Len(all) : all[i] \in F \cup L
    BY <1>11, SeqIsList
  <1> QED
    BY <1>8, <1>12

(* Where the steps of the array lead.                                         *)
LEMMA WayTaken ==
    ASSUME ScanInv, scphase = "follow", NEW w, NEW t, Noted(w, Len(frames), t)
    PROVE  LET m == Len(frames)  chain == SubSeq(w, 1, Len(frames))
           IN  /\ m \in 1..MaxChain /\ IsList(chain) /\ Len(chain) = m /\ chain # <<>> /\ Last(chain) = t
               /\ Way(page0, chain)[m] = Current.url
  <1> PICK m, chain : m = Len(frames) /\ chain = SubSeq(w, 1, m)
    OBVIOUS
  <1> DEFINE page == [k \in 1..m |-> frames[k].url]
  <1>1. /\ FramesRight /\ m \in Nat \ {0} /\ Current = frames[m] /\ frames[1].url = page0
        /\ MaxChain \in Nat /\ m <= MaxChain /\ m <= maxdepth + 1
    BY InCall
  <1>2. m \in 1..MaxChain /\ m \in 1..m /\ 1 \in 1..m
    BY <1>1
  <1>3. IsList(w) /\ Len(w) = MaxChain /\ w[m] = t /\ \A k \in 1..MaxChain : k # m => w[k] = steps[k]
    BY <1>2, StepNoted
  <1>4. Len(chain) = m /\ chain # <<>> /\ Last(chain) = t /\ \A k \in 1..m : chain[k] = w[k]
    BY <1>2, <1>3, StepsTaken
  <1>5. ASSUME NEW k \in 1..(m - 1)
        PROVE  /\ chain[k] = steps[k] /\ StepRight(k) /\ k \in 1..m /\ k + 1 \in 1..m
    <2>1. k \in 1..m /\ k \in 1..MaxChain /\ k # m /\ k + 1 \in 1..m
      BY <1>1
    <2>2. StepRight(k)
      BY <1>1 DEF FramesRight
    <2> QED
      BY <1>3, <1>4, <2>1, <2>2
  <1>6. \A k \in 1..m : Way(page0, chain)[k] = page[k]
    <2>1. GoesBy(chain, m, page)
      BY <1>5 DEF StepRight, GoesBy
    <2>2. page[1] = page0
      BY <1>1, <1>2
    <2> HIDE DEF page
    <2>3. m \in Nat \ {0} /\ Len(chain) = m
      BY <1>1, <1>4
    <2>4. WentBy(chain, m, page)
      BY <2>1, <2>3, WayGoes
    <2> QED
      BY <2>2, <2>4 DEF WentBy
  <1>7. Way(page0, chain)[m] = Current.url
    BY <1>1, <1>2, <1>6
  <1>8. IsList(chain)
    <2> PICK E : E = {w[k] : k \in 1..Len(w)}
      OBVIOUS
    <2>1. w \in Seq(E)
      BY <1>3, ListIsSeq
    <2>2. m \in 0..Len(w)
      BY <1>2, <1>3
    <2>3. chain \in Seq(E)
      BY <2>1, <2>2, CutShort
    <2> QED
      BY <2>3, SeqIsList
  <1> QED
    BY <1>2, <1>4, <1>7, <1>8

LEMMA FitBegins ==
    ASSUME ScanInit
    PROVE  FitInv
  <1>1. DOMAIN <<>> = {}
    OBVIOUS
  <1> QED
    BY <1>1 DEF ScanInit, FitInv

(* A candidate stays what it is, and so does one of the landing page.         *)
LEMMA FitStays ==
    ASSUME NEW c, CandFit(c), UNCHANGED <<page0, site>>, series' = series \/ c.chain = <<>>
    PROVE  CandFit(c)'
  <1>1. Ending(c)' = Ending(c)
    BY DEF Ending
  <1>2. HandleFit(c) => HandleFit(c)'
    BY DEF HandleFit
  <1>3. c.chain # <<>> => (ChainFit(c) => ChainFit(c)')
    BY <1>1, <1>2 DEF ChainFit
  <1> QED
    BY <1>3 DEF CandFit

LEMMA FitAside ==
    ASSUME FitInv, UNCHANGED <<cands, page0, series, site>>,
           \/ scphase' = scphase
           \/ scphase' \in {"rank", "choose", "saved", "failed"}
           \/ scphase' = "recurse" /\ scphase = "iframes" /\ cands = <<>>
    PROVE  FitInv'
  <1>1. \A i \in DOMAIN cands : CandFit(cands[i])'
    BY FitStays DEF FitInv
  <1> QED
    BY <1>1 DEF FitInv

LEMMA FromPageFit ==
    ASSUME NEW c, FromPage(c), page0 = None
    PROVE  CandFit(c)
  BY DEF FromPage, CandFit

LEMMA FitFromPage ==
    ASSUME CapturesGiveLists, TextsCaptured, ScanInv, FitInv, FetchLanding \/ Iframe, UNCHANGED site
    PROVE  FitInv'
  <1>1. /\ scphase \in {"fetch", "iframes"} /\ scphase' = "iframes" /\ UNCHANGED <<page0, series>>
        /\ page0 = None /\ series = None /\ site \in Sites
    BY DEF FetchLanding, Iframe, FitInv, ScanInv
  <1>2. ASSUME NEW url, Web(url), NEW list, IsList(list), \A i \in 1..Len(list) : FromPage(list[i]),
               cands' = Collect(url, list)
        PROVE  FitInv'
    <2> PICK all : all = Collect(url, list)
      OBVIOUS
    <2>1. IsList(all) /\ \A i \in 1..Len(all) : FromPage(all[i])
      BY <1>2, CollectFit
    <2>2. DOMAIN all = 1..Len(all)
      BY <2>1, ListIsSeq
    <2>3. \A i \in DOMAIN cands' : FromPage(cands'[i])
      BY <1>2, <2>1, <2>2
    <2>4. \A i \in DOMAIN cands' : CandFit(cands[i])'
      BY <1>1, <2>3, FromPageFit DEF FromPage, CandFit
    <2> QED
      BY <1>1, <2>4 DEF FitInv
  <1>3. CASE FetchLanding
    <2>1. cands' = Collect(Page, <<>>)
      BY <1>3 DEF FetchLanding
    <2>2. IsList(<<>>) /\ \A i \in 1..Len(<<>>) : FromPage(<<>>[i])
      BY DEF IsList
    <2> QED
      BY <1>1, <1>2, <2>1, <2>2, PagesWeb
  <1>4. CASE Iframe
    <2> PICK url : cands' = cands \/ (url \in DOMAIN site /\ cands' = Collect(url, cands))
      BY <1>4 DEF Iframe
    <2>1. CASE cands' = cands
      <3>1. scphase' = scphase
        BY <1>4 DEF Iframe
      <3> QED
        BY <1>1, <2>1, <3>1, FitAside
    <2>2. CASE url \in DOMAIN site /\ cands' = Collect(url, cands)
      <3>1. scphase = "iframes"
        BY <1>4 DEF Iframe
      <3>2. Plain(cands)
        BY <3>1 DEF ScanInv, PhaseRight
      <3>3. IsList(cands) /\ DOMAIN cands = 1..Len(cands) /\ \A i \in 1..Len(cands) : cands[i].chain = <<>>
        BY <3>2, ListIsSeq DEF Plain
      <3>4. \A i \in 1..Len(cands) : FromPage(cands[i])
        BY <3>3 DEF FitInv, CandFit, FromPage
      <3> QED
        BY <1>1, <1>2, <2>2, <3>3, <3>4, PagesWeb
    <2> QED
      BY <2>1, <2>2
  <1> QED
    BY <1>3, <1>4

LEMMA FitRecurse ==
    ASSUME NoneIsNoExpression, FitInv, RecurseSeries \/ RecursePage, UNCHANGED site
    PROVE  FitInv'
  <1>1. scphase = "recurse" /\ cands' = cands /\ cands = <<>> /\ DOMAIN <<>> = {}
    BY DEF FitInv, RecurseSeries, RecursePage
  <1>2. CASE RecurseSeries
    <2>1. series' # None
      BY <1>2 DEF RecurseSeries, NoneIsNoExpression
    <2>2. scphase' \in {"follow", "rank"}
      BY <1>2 DEF RecurseSeries, StartFrom
    <2> QED
      BY <1>1, <2>1, <2>2 DEF FitInv
  <1>3. CASE RecursePage
    <2>1. page0' = Page /\ scphase' = "follow"
      BY <1>3 DEF RecursePage, StartFrom
    <2> QED
      BY <1>1, <2>1 DEF FitInv
  <1> QED
    BY <1>2, <1>3

LEMMA FitRank ==
    ASSUME FitInv, Rank, UNCHANGED site
    PROVE  FitInv'
  <1>1. scphase' = "choose" /\ UNCHANGED <<cands, page0>>
    BY DEF Rank
  <1>2. series' = series \/ \A i \in DOMAIN cands : cands[i].chain = <<>>
    BY DEF Rank
  <1>3. \A i \in DOMAIN cands : CandFit(cands[i])'
    BY <1>1, <1>2, FitStays DEF FitInv
  <1> QED
    BY <1>1, <1>3 DEF FitInv

LEMMA FitCalls ==
    ASSUME FitInv, FindLinks \/ SkipLink \/ FollowLink \/ Return, UNCHANGED site
    PROVE  FitInv'
  <1>1. UNCHANGED <<cands, page0, series>> /\ (scphase' = scphase \/ scphase' = "rank")
    BY DEF FindLinks, SkipLink, FollowLink, Return, More, Back
  <1> QED
    BY <1>1, FitAside

(* The media that a call finds.                                               *)
LEMMA HitFound ==
    ASSUME CapturesGiveLists, TextsCaptured, ScanInv, FindMedia
    PROVE  \E ere, url : /\ Finds(ere, url) /\ Web(url) /\ url.path # <<>>
                         /\ ScanCaptures(ere, site[Current.url]) # <<>>
  <1>8. PICK h : h = Min(MediaHits)
    OBVIOUS
  <1>1. h \in MediaHits
    <2>1. MediaHits \in SUBSET Nat
      <3>1. DOMAIN MediaEres = 1..Len(MediaEres)
        BY ScanAssumption, ListIsSeq
      <3> QED
        BY <3>1 DEF MediaHits
    <2>2. MediaHits # {}
      BY DEF FindMedia
    <2> QED
      BY <1>8, <2>1, <2>2, LeastExists
  <1>9. PICK ere, found : ere = MediaEres[h] /\ found = ScanCaptures(ere, Body)
    OBVIOUS
  <1>10. PICK url : url = Linked(found[1])
    OBVIOUS
  <1>2. found # <<>> /\ Media(url)
    BY <1>1, <1>9, <1>10 DEF MediaHits
  <1>3. Finds(ere, url)
    <2> DEFINE first == MediaEres[Min(MediaHits)]
    <2>1. Finds(first, Linked(ScanCaptures(first, Body)[1]))
      BY DEF FindMedia, Finds
    <2> QED
      BY <1>8, <1>9, <1>10, <2>1, Zenon
  <1>4. Current.url \in DOMAIN site /\ site \in Sites
    <2>1. scphase = "follow"
      BY DEF FindMedia
    <2>2. FrameRight(Len(frames)) /\ Current = frames[Len(frames)] /\ site \in Sites
      BY <2>1, InCall
    <2> QED
      BY <2>2 DEF FrameRight
  <1>5. IsList(found[1])
    <2>1. IsList(found)
      BY <1>9 DEF CapturesGiveLists
    <2>2. 1 \in 1..Len(found)
      BY <1>2, <2>1 DEF IsList
    <2> QED
      BY <1>9, <2>2 DEF TextsCaptured
  <1>6. Web(url)
    BY <1>4, <1>5, <1>10, PagesWeb, ResolveWeb DEF Linked
  <1>7. url.path # <<>>
    BY <1>2 DEF Media
  <1> QED
    BY <1>2, <1>3, <1>6, <1>7, <1>9 DEF Body

LEMMA FitMedia ==
    ASSUME CapturesGiveLists, TextsCaptured, ScanInv, FitInv, FindMedia, UNCHANGED site
    PROVE  FitInv'
  <1> PICK m : m = Len(frames)
    OBVIOUS
  <1>0. /\ scphase = "follow" /\ Back /\ UNCHANGED <<page0, series>> /\ scphase' \in {"follow", "rank"}
    BY DEF FindMedia, Back
  <1>1. /\ m \in Nat \ {0} /\ Depth + 1 = m /\ MaxChain \in Nat /\ m <= MaxChain /\ CandsRight
    BY <1>0, InCall
  <1> PICK ere, url : /\ Finds(ere, url) /\ Web(url) /\ url.path # <<>>
                      /\ ScanCaptures(ere, site[Current.url]) # <<>>
    BY HitFound
  <1> PICK c, found, chain, t : /\ chain = SubSeq(steps', 1, m) /\ t = [ere |-> ere, sample |-> TextOf(url)]
                                /\ c = Candidate(url, <<>>, chain)
                                /\ found = AddCandidate(cands, c)
    OBVIOUS
  <1>2. Noted(steps', m, t)
    BY <1>1 DEF Finds, Noted
  <1>3. /\ m \in 1..MaxChain /\ IsList(chain) /\ Len(chain) = m /\ chain # <<>> /\ Last(chain) = t
        /\ Way(page0, chain)[m] = Current.url
    BY <1>0, <1>2, WayTaken
  <1>4. CandFit(c) /\ c.chain # <<>>
    <2>1. c.url = url /\ c.chain = chain /\ c.param = None
      BY DEF Candidate
    <2>2. t.ere = ere /\ t.sample = TextOf(url)
      OBVIOUS
    <2>3. series = None => page0 = Page
      BY <1>0 DEF FitInv
    <2>4. ChainFit(c)
      BY <1>3, <2>1, <2>2, <2>3 DEF ChainFit
    <2> QED
      BY <1>3, <2>1, <2>4 DEF CandFit
  <1>5. IsList(found) /\ \A i \in 1..Len(found) : CandFit(found[i]) /\ found[i].chain # <<>>
    <2> PICK n : n = Len(cands)
      OBVIOUS
    <2>1. IsList(cands) /\ DOMAIN cands = 1..n
      BY <1>1, ListIsSeq DEF CandsRight
    <2>2. \A i \in 1..n : CandFit(cands[i]) /\ cands[i].chain # <<>>
      BY <1>0, <2>1 DEF FitInv
    <2>3. CASE found = cands
      BY <2>1, <2>2, <2>3
    <2>4. CASE found = Append(cands, c)
      <3>1. /\ IsList(found) /\ Len(found) = n + 1 /\ n \in Nat /\ found[n + 1] = c
            /\ \A k \in 1..n : found[k] = cands[k]
        <4>1. IsList(cands)
          BY <2>1
        <4>2. /\ IsList(Append(cands, c)) /\ Len(Append(cands, c)) = Len(cands) + 1 /\ Len(cands) \in Nat
              /\ Append(cands, c)[Len(cands) + 1] = c
              /\ \A k \in 1..Len(cands) : Append(cands, c)[k] = cands[k]
          BY <4>1, Pushed
        <4> QED
          BY <2>4, <4>2
      <3>2. \A i \in 1..Len(found) : i = n + 1 \/ i \in 1..n
        BY <3>1
      <3> QED
        BY <1>4, <2>2, <3>1, <3>2
    <2> QED
      BY <2>3, <2>4 DEF AddCandidate
  <1>6. DOMAIN found = 1..Len(found)
    BY <1>5, ListIsSeq
  <1>7. CASE cands' = found
    <2>1. \A i \in DOMAIN cands' : CandFit(cands'[i]) /\ cands'[i].chain # <<>>
      BY <1>5, <1>6, <1>7
    <2>2. \A i \in DOMAIN cands' : CandFit(cands[i])'
      BY <1>0, <2>1, FitStays
    <2> QED
      BY <1>0, <2>1, <2>2 DEF FitInv
  <1>8. ASSUME NEW h \in Handles(url), cands' = [i \in DOMAIN found |-> WithHandle(found[i], url, h)]
        PROVE  FitInv'
    <2>1. ASSUME NEW i \in 1..Len(found) PROVE CandFit(cands[i])' /\ cands'[i].chain # <<>>
      <3> PICK d, e : d = found[i] /\ e = cands'[i]
        OBVIOUS
      <3>1. e = WithHandle(d, url, h) /\ CandFit(d) /\ d.chain # <<>>
        BY <1>5, <1>6, <1>8
      <3>2. CASE e = d
        BY <1>0, <3>1, <3>2, FitStays
      <3> PICK q : q = [token |-> h, base |-> TextOf([url EXCEPT !.path = Front(@)])]
        OBVIOUS
      <3>3. CASE d.url = url /\ e = [d EXCEPT !.param = q]
        <4>1. Whole(d)
          <5>0. i \in 1..Len(found)
            OBVIOUS
          <5>1. IsList(cands) /\ \A k \in 1..Len(cands) : Whole(cands[k])
            BY <1>1 DEF CandsRight, CandRight
          <5>2. Whole(c)
            BY DEF Candidate, Whole
          <5>3. CASE found = cands
            BY <5>1, <5>3
          <5>4. CASE found = Append(cands, c)
            <6>1. /\ Len(found) = Len(cands) + 1 /\ Len(cands) \in Nat /\ found[Len(cands) + 1] = c
                  /\ \A k \in 1..Len(cands) : found[k] = cands[k]
              BY <5>1, <5>4, Pushed
            <6>2. i = Len(cands) + 1 \/ i \in 1..Len(cands)
              BY <5>0, <6>1
            <6> QED
              BY <5>1, <5>2, <6>1, <6>2
          <5> QED
            BY <5>3, <5>4 DEF AddCandidate
        <4>2. e = [url |-> d.url, ref |-> d.ref, chain |-> d.chain, param |-> q]
          BY <3>3, <4>1 DEF Whole
        <4>3. e.url = d.url /\ e.chain = d.chain /\ e.param = q
          BY <4>2
        <4>4. q.token = h /\ q.base = TextOf([url EXCEPT !.path = Front(@)])
          OBVIOUS
        <4>5. /\ h \in HandleNames
              /\ Contains(Captures(HandleEre(h, ExtOf(url)), site[page0]), <<Last(url.path)>>)
          BY <1>8 DEF Handles
        <4>6. HandleFit(e)
          BY <3>3, <4>3, <4>4, <4>5 DEF HandleFit
        <4>7. ChainFit(e)
          <5>1. ChainFit(d)
            BY <3>1 DEF CandFit
          <5>2. Ending(e) = Ending(d)
            BY <4>3 DEF Ending
          <5> QED
            BY <4>3, <4>6, <5>1, <5>2 DEF ChainFit
        <4>8. CandFit(e)
          BY <3>1, <4>3, <4>7 DEF CandFit
        <4> QED
          BY <1>0, <3>1, <4>3, <4>8, FitStays
      <3> QED
        BY <3>1, <3>2, <3>3 DEF WithHandle
    <2>2. DOMAIN cands' = 1..Len(found)
      BY <1>6, <1>8
    <2> QED
      BY <1>0, <2>1, <2>2 DEF FitInv
  <1>9. cands' = found \/ \E h \in Handles(url) : cands' = [i \in DOMAIN found |-> WithHandle(found[i], url, h)]
    <2>1. found = AddCandidate(cands, Candidate(url, <<>>, SubSeq(steps', 1, Depth + 1)))
      BY <1>1
    <2>2. IF Handles(url) = {} THEN cands' = found
          ELSE \E h \in Handles(url) : cands' = [i \in DOMAIN found |-> WithHandle(found[i], url, h)]
      BY <2>1, Zenon DEF Finds
    <2> QED
      BY <2>2, Zenon
  <1> QED
    BY <1>7, <1>8, <1>9

LEMMA FitKept ==
    ASSUME CapturesGiveLists, TextsCaptured, NoneIsNoExpression, ScanInv, FitInv, [ScanNext]_<<scvars, exvars>>
    PROVE  FitInv'
  <1>1. CASE UNCHANGED scvars /\ UNCHANGED site
    BY <1>1, FitAside DEF scvars
  <1>2. CASE Discovery /\ UNCHANGED site
    <2>1. CASE LandingFails \/ IframesDone
      <3>1. /\ UNCHANGED <<cands, page0, series>>
            /\ \/ scphase' \in {"rank", "failed"}
               \/ scphase' = "recurse" /\ scphase = "iframes" /\ cands = <<>>
        BY <2>1 DEF LandingFails, IframesDone
      <3> QED
        BY <1>2, <3>1, FitAside
    <2> QED
      BY <1>2, <2>1, FitFromPage, FitRecurse, FitRank, FitCalls, FitMedia DEF Discovery
  <1>3. CASE (SaveTop \/ SaveChosen \/ SaveNothing) /\ UNCHANGED site
    <2>1. UNCHANGED <<cands, page0, series, site>> /\ scphase' \in {"saved", "failed"}
      BY <1>3 DEF SaveTop, SaveChosen, SaveNothing, Save
    <2> QED
      BY <2>1, FitAside
  <1>4. CASE UNCHANGED <<scvars, exvars>>
    BY <1>1, <1>4 DEF exvars
  <1> QED
    BY <1>1, <1>2, <1>3, <1>4 DEF ScanNext

(* Two lists have a common set of members.                                    *)
LEMMA BothSeqs ==
    ASSUME NEW s, IsList(s), NEW t, IsList(t)
    PROVE  \E S : s \in Seq(S) /\ t \in Seq(S)
  <1>1. PICK S : S = {s[i] : i \in 1..Len(s)} \cup {t[i] : i \in 1..Len(t)}
    OBVIOUS
  <1>2. s \in Seq({s[i] : i \in 1..Len(s)}) /\ t \in Seq({t[i] : i \in 1..Len(t)})
    BY ListIsSeq
  <1>3. {s[i] : i \in 1..Len(s)} \subseteq S /\ {t[i] : i \in 1..Len(t)} \subseteq S
    BY <1>1
  <1>4. \A A, x : A \subseteq S /\ x \in Seq(A) => x \in Seq(S)
    OBVIOUS
  <1>5. s \in Seq(S) /\ t \in Seq(S)
    BY <1>2, <1>3, <1>4
  <1> QED
    BY <1>5, Zenon

(* What is joined first comes first.                                          *)
LEMMA JoinedFirst ==
    ASSUME NEW s, IsList(s), NEW t, IsList(t), NEW i \in 1..Len(s)
    PROVE  (s \o t)[i] = s[i]
  <1>1. PICK S : s \in Seq(S) /\ t \in Seq(S)
    BY BothSeqs, Zenon
  <1> QED
    BY <1>1

(* What is joined second comes after the first.                               *)
LEMMA JoinedThen ==
    ASSUME NEW s, IsList(s), NEW t, IsList(t), NEW i \in 1..Len(t)
    PROVE  (s \o t)[Len(s) + i] = t[i]
  <1>1. PICK S : s \in Seq(S) /\ t \in Seq(S)
    BY BothSeqs, Zenon
  <1> QED
    BY <1>1

(* What is joined to a list comes after it.                                   *)
LEMMA JoinedAt ==
    ASSUME NEW s, IsList(s), NEW t, IsList(t)
    PROVE  /\ IsList(s \o t) /\ Len(s \o t) = Len(s) + Len(t) /\ Len(s) \in Nat /\ Len(t) \in Nat
           /\ \A i \in 1..Len(s) : (s \o t)[i] = s[i]
           /\ \A i \in 1..Len(t) : (s \o t)[Len(s) + i] = t[i]
  <1>1. PICK S : s \in Seq(S) /\ t \in Seq(S)
    BY BothSeqs, Zenon
  <1>2. IsList(s \o t)
    <2>1. s \o t \in Seq(S)
      BY <1>1
    <2> QED
      BY <2>1, SeqIsList
  <1>3. Len(s \o t) = Len(s) + Len(t) /\ Len(s) \in Nat /\ Len(t) \in Nat
    BY <1>1
  <1>4. ASSUME NEW i \in 1..Len(s) PROVE (s \o t)[i] = s[i]
    BY JoinedFirst, Zenon
  <1>5. ASSUME NEW i \in 1..Len(t) PROVE (s \o t)[Len(s) + i] = t[i]
    BY JoinedThen, Zenon
  <1> QED
    BY <1>2, <1>3, <1>4, <1>5, Zenon

(* The lists that FlattenSeq puts together, one after the other.              *)
LEMMA FlatSteps ==
    ASSUME NEW E, NEW seqs \in Seq(Seq(E)), Len(seqs) # 0
    PROVE  \E c : /\ FlattenSeq(seqs) = c[Len(seqs)]
                  /\ \A i \in 1..Len(seqs) : c[i] = IF i = 1 THEN seqs[i] ELSE c[i - 1] \o seqs[i]
  <1> PICK n : n = Len(seqs)
    OBVIOUS
  <1>1. n \in Nat /\ \A i \in 1..n : seqs[i] \in Seq(E)
    OBVIOUS
  <1> DEFINE next == [p \in (1..n) \X Seq(E) |-> IF p[1] = 1 THEN seqs[1] ELSE p[2] \o seqs[p[1]]]
             On(h) == [i \in 1..n |-> IF i = 1 THEN seqs[i] ELSE h[i - 1] \o seqs[i]]
             c == CHOOSE h : h = On(h)
  <1>2. 1 \in 1..n /\ n \in 1..n
    BY <1>1
  <1>3. next \in [(1..n) \X Seq(E) -> Seq(E)]
    BY <1>1, <1>2
  <1>4. \A i \in 1..n, b \in Seq(E) : next[<<i, b>>] = IF i = 1 THEN seqs[1] ELSE b \o seqs[i]
    OBVIOUS
  <1>5. PICK g : Runs(g, n, Seq(E), <<>>, next)
    <2> HIDE DEF next
    <2>1. <<>> \in Seq(E)
      OBVIOUS
    <2> QED
      BY <1>1, <1>3, <2>1, LoopRuns
  <1> HIDE DEF next
  <1>6. \A i \in 1..n : g[i] = IF i = 1 THEN seqs[1] ELSE g[i - 1] \o seqs[i]
    <2>1. g \in [0..n -> Seq(E)] /\ \A i \in 1..n : g[i] = next[<<i, g[i - 1]>>]
      BY <1>5 DEF Runs
    <2>2. \A i \in 1..n : g[i - 1] \in Seq(E)
      <3>1. \A i \in 1..n : i - 1 \in 0..n
        BY <1>1
      <3> QED
        BY <2>1, <3>1
    <2> QED
      BY <1>4, <2>1, <2>2
  <1> DEFINE f == [i \in 1..n |-> g[i]]
  <1>7. f = On(f)
    <2>1. ASSUME NEW i \in 1..n PROVE f[i] = On(f)[i]
      <3>1. i = 1 \/ i - 1 \in 1..n
        BY <1>1
      <3> QED
        BY <1>6, <3>1
    <2> QED
      BY <2>1
  <1>8. c = On(c)
    BY <1>7, Zenon
  <1>9. FlattenSeq(seqs) = c[n]
    BY DEF FlattenSeq
  <1> HIDE DEF c
  <1>10. \A i \in 1..n : c[i] = IF i = 1 THEN seqs[i] ELSE c[i - 1] \o seqs[i]
    BY <1>8
  <1> QED
    BY <1>9, <1>10

LEMMA PairJoined ==
    ASSUME NEW s, IsList(s), NEW x, NEW y
    PROVE  /\ IsList(s \o <<x, y>>) /\ Len(s \o <<x, y>>) = Len(s) + 2
           /\ \A i \in 1..Len(s) : (s \o <<x, y>>)[i] = s[i]
           /\ (s \o <<x, y>>)[Len(s) + 1] = x /\ (s \o <<x, y>>)[Len(s) + 2] = y
  <1>1. IsList(<<x, y>>) /\ Len(<<x, y>>) = 2 /\ <<x, y>>[1] = x /\ <<x, y>>[2] = y
    BY DEF IsList
  <1> PICK t : t = <<x, y>>
    OBVIOUS
  <1>2. IsList(t) /\ Len(t) = 2 /\ t[1] = x /\ t[2] = y
    BY <1>1
  <1>3. IsList(s \o t) /\ Len(s \o t) = Len(s) + Len(t)
    BY <1>2, JoinedAt
  <1>5. \A i \in 1..Len(s) : (s \o t)[i] = s[i]
    BY <1>2, JoinedAt
  <1>6. \A i \in 1..Len(t) : (s \o t)[Len(s) + i] = t[i]
    BY <1>2, JoinedAt
  <1>4. (s \o t)[Len(s) + 1] = x /\ (s \o t)[Len(s) + 2] = y
    BY <1>2, <1>6
  <1> QED
    BY <1>2, <1>3, <1>4, <1>5

(* Pairs in a row.                                                            *)
ArePairs(seqs, m, a, b) ==
    /\ IsList(seqs) /\ Len(seqs) = m /\ m \in Nat
    /\ \A i \in 1..m : seqs[i] = <<a[i], b[i]>>

LEMMA FlatPairs ==
    ASSUME NEW m, NEW seqs, NEW a, NEW b, ArePairs(seqs, m, a, b)
    PROVE  LET all == FlattenSeq(seqs)
           IN  /\ IsList(all) /\ Len(all) = 2 * m
               /\ \A i \in 1..m : all[2 * i - 1] = a[i] /\ all[2 * i] = b[i]
  <1> PICK E : E = {a[i] : i \in 1..m} \cup {b[i] : i \in 1..m}
    OBVIOUS
  <1>0. m \in Nat /\ IsList(seqs) /\ Len(seqs) = m /\ \A i \in 1..m : seqs[i] = <<a[i], b[i]>>
    BY DEF ArePairs
  <1>1. Len(seqs) = m /\ DOMAIN seqs = 1..m
    BY <1>0, ListIsSeq
  <1>2. seqs \in Seq(Seq(E))
    <2>1. \A i \in 1..m : a[i] \in E /\ b[i] \in E
      OBVIOUS
    <2>2. \A x, y \in E : <<x, y>> \in Seq(E)
      OBVIOUS
    <2> PICK T : T = Seq(E)
      OBVIOUS
    <2>3. ASSUME NEW i \in 1..m PROVE seqs[i] \in T
      <3>1. <<a[i], b[i]>> \in T
        BY <2>1, <2>2
      <3> QED
        BY <1>0, <3>1
    <2>4. seqs \in Seq({seqs[i] : i \in 1..Len(seqs)})
      BY <1>0, ListIsSeq
    <2>5. {seqs[i] : i \in 1..Len(seqs)} \subseteq T
      BY <1>1, <2>3
    <2>6. \A A, x : A \subseteq T /\ x \in Seq(A) => x \in Seq(T)
      OBVIOUS
    <2>7. seqs \in Seq(T)
      BY <2>4, <2>5, <2>6
    <2> QED
      BY <2>7
  <1>3. CASE m = 0
    <2>1. FlattenSeq(seqs) = seqs
      BY <1>1, <1>3 DEF FlattenSeq
    <2>2. seqs = <<>>
      BY <1>1, <1>2, <1>3, Joined
    <2> PICK e : e = FlattenSeq(seqs)
      OBVIOUS
    <2>3. IsList(<<>>) /\ Len(<<>>) = 0
      BY DEF IsList
    <2>4. IsList(e) /\ Len(e) = 2 * m
      BY <1>3, <2>1, <2>2, <2>3
    <2> QED
      BY <1>3, <2>4
  <1>4. CASE m # 0
    <2>1. PICK c : /\ FlattenSeq(seqs) = c[m]
                   /\ \A i \in 1..m : c[i] = IF i = 1 THEN seqs[i] ELSE c[i - 1] \o seqs[i]
      <3>1. m = Len(seqs) /\ Len(seqs) # 0
        BY <1>1, <1>4
      <3>2. \E c : /\ FlattenSeq(seqs) = c[Len(seqs)]
                   /\ \A i \in 1..Len(seqs) : c[i] = IF i = 1 THEN seqs[i] ELSE c[i - 1] \o seqs[i]
        BY <1>2, <3>1, FlatSteps
      <3> QED
        BY <3>1, <3>2
    <2> DEFINE Q(i) == /\ IsList(c[i]) /\ Len(c[i]) = 2 * i
                       /\ \A j \in 1..i : c[i][2 * j - 1] = a[j] /\ c[i][2 * j] = b[j]
               P == {0} \cup {i \in 1..m : Q(i)}
    <2>2. ASSUME NEW i \in 1..m, i - 1 \in P PROVE i \in P
      <3> PICK t : t = seqs[i]
        OBVIOUS
      <3>1. t = <<a[i], b[i]>> /\ IsList(t) /\ Len(t) = 2 /\ t[1] = a[i] /\ t[2] = b[i]
        <4>1. t = <<a[i], b[i]>>
          BY <1>0
        <4>2. IsList(<<a[i], b[i]>>)
          BY DEF IsList
        <4> QED
          BY <4>1, <4>2
      <3>2. CASE i = 1
        <4>1. c[1] = t
          BY <1>0, <2>1, <3>2
        <4>2. Q(1)
          BY <3>1, <3>2, <4>1
        <4> QED
          BY <3>2, <4>2
      <3>3. CASE i # 1
        <4> PICK s : s = c[i - 1]
          OBVIOUS
        <4>1. /\ i - 1 \in 1..m /\ IsList(s) /\ Len(s) = 2 * (i - 1)
              /\ \A j \in 1..(i - 1) : s[2 * j - 1] = a[j] /\ s[2 * j] = b[j]
          BY <2>2, <3>3
        <4>2. c[i] = s \o t
          BY <2>1, <3>3
        <4> PICK r : r = s \o t
          OBVIOUS
        <4>3. /\ IsList(r) /\ Len(r) = Len(s) + 2
              /\ \A k \in 1..Len(s) : r[k] = s[k]
              /\ r[Len(s) + 1] = t[1] /\ r[Len(s) + 2] = t[2]
          <5> PICK x, y : x = a[i] /\ y = b[i]
            OBVIOUS
          <5>1. t = <<x, y>> /\ IsList(s) /\ t[1] = x /\ t[2] = y
            BY <3>1, <4>1
          <5>2. IsList(s \o <<x, y>>) /\ Len(s \o <<x, y>>) = Len(s) + 2
            BY <5>1, PairJoined
          <5>3. \A k \in 1..Len(s) : (s \o <<x, y>>)[k] = s[k]
            BY <5>1, PairJoined
          <5>4. (s \o <<x, y>>)[Len(s) + 1] = x /\ (s \o <<x, y>>)[Len(s) + 2] = y
            BY <5>1, PairJoined
          <5>5. r = s \o <<x, y>>
            BY <5>1
          <5> QED
            BY <5>1, <5>2, <5>3, <5>4, <5>5
        <4>4. \A j \in 1..(i - 1) : 2 * j - 1 \in 1..Len(s) /\ 2 * j \in 1..Len(s)
          BY <4>1
        <4>5. r[2 * i - 1] = a[i] /\ r[2 * i] = b[i]
          <5>1. Len(s) + 1 = 2 * i - 1 /\ Len(s) + 2 = 2 * i
            BY <4>1
          <5> QED
            BY <3>1, <4>3, <5>1
        <4>6. \A j \in 1..i : j = i \/ j \in 1..(i - 1)
          OBVIOUS
        <4>7. \A j \in 1..i : r[2 * j - 1] = a[j] /\ r[2 * j] = b[j]
          BY <4>1, <4>3, <4>4, <4>5, <4>6
        <4>8. Len(r) = 2 * i
          BY <4>1, <4>3
        <4>9. Q(i)
          BY <4>2, <4>3, <4>7, <4>8
        <4> QED
          BY <4>9
      <3> QED
        BY <3>2, <3>3
    <2>3. \A i \in 0..m : i \in P
      <3>1. 0 \in P
        OBVIOUS
      <3> HIDE DEF P
      <3> QED
        BY <1>0, <2>2, <3>1, AfterEveryStep
    <2>4. m \in P
      BY <1>0, <2>3
    <2>5. Q(m)
      BY <1>4, <2>4
    <2> QED
      BY <2>1, <2>5
  <1> QED
    BY <1>3, <1>4

(* The lines of the config, after its name and its match.                     *)
LEMMA LineShapes ==
    ASSUME NEW n, NEW s, NEW a, NEW kw
    PROVE  /\ Get(n, a).kw = "get" /\ Get(n, a).arg = a /\ Get(n, a).name = n
           /\ Take(kw, n, s, a).kw = kw /\ Take(kw, n, s, a).name = n /\ Take(kw, n, s, a).source = s
           /\ Take(kw, n, s, a).arg = <<Lit(a)>>
           /\ Give(a).kw = "output" /\ Give(a).arg = a
  BY DEF Get, Take, Give

ChainBody(b, chain) ==
    LET n == Len(chain)
    IN  /\ IsList(b) /\ Len(b) = 2 * n + 1
        /\ b[1] = Get(PageVar[1], ThisUrl)
        /\ \A k \in 1..(n - 1) : /\ b[2 * k] = Take("var", LinkVar[k], PageVar[k], chain[k].ere)
                                 /\ b[2 * k + 1] = Get(PageVar[k + 1], <<Var(LinkVar[k])>>)
        /\ b[2 * n] = Take("var", "media", PageVar[n], Last(chain).ere)
        /\ b[2 * n + 1] = Give(<<Var("media")>>)

LEMMA ChainWritten ==
    ASSUME NEW chain, IsList(chain), Len(chain) \in Nat \ {0}
    PROVE  ChainBody(ChainLines(chain), chain)
  <1> PICK n, m : n = Len(chain) /\ m = n - 1
    OBVIOUS
  <1>1. n \in Nat \ {0} /\ m \in Nat
    OBVIOUS
  <1> PICK f, x, y : f = Get(PageVar[1], ThisUrl) /\ x = Take("var", "media", PageVar[n], Last(chain).ere)
                     /\ y = Give(<<Var("media")>>)
    OBVIOUS
  <1> DEFINE a == [k \in 1..m |-> Take("var", LinkVar[k], PageVar[k], chain[k].ere)]
             b == [k \in 1..m |-> Get(PageVar[k + 1], <<Var(LinkVar[k])>>)]
             seqs == [k \in 1..m |-> LinkLines(k, chain[k].ere)]
  <1>2. \A k \in 1..m : seqs[k] = <<a[k], b[k]>>
    BY DEF LinkLines
  <1>3. IsList(seqs) /\ Len(seqs) = m
    <2>1. m \in Nat /\ seqs = [k \in 1..m |-> seqs[k]]
      BY <1>1
    <2> HIDE DEF seqs
    <2> QED
      BY <2>1, IsListOf
  <1>4. ChainLines(chain) = (<<f>> \o FlattenSeq(seqs)) \o <<x, y>>
    BY DEF ChainLines
  <1>5. /\ \A k \in 1..m : a[k] = Take("var", LinkVar[k], PageVar[k], chain[k].ere)
        /\ \A k \in 1..m : b[k] = Get(PageVar[k + 1], <<Var(LinkVar[k])>>)
    OBVIOUS
  <1> HIDE DEF a, b, seqs
  <1>0. ArePairs(seqs, m, a, b)
    BY <1>1, <1>2, <1>3 DEF ArePairs
  <1>6. IsList(FlattenSeq(seqs)) /\ Len(FlattenSeq(seqs)) = 2 * m
    BY <1>0, FlatPairs
  <1>7. \A k \in 1..m : FlattenSeq(seqs)[2 * k - 1] = a[k] /\ FlattenSeq(seqs)[2 * k] = b[k]
    BY <1>0, FlatPairs
  <1> PICK all : all = FlattenSeq(seqs)
    OBVIOUS
  <1> PICK o, q : o = <<f>> /\ q = o \o all
    OBVIOUS
  <1>8. IsList(o) /\ Len(o) = 1 /\ o[1] = f
    <2>1. IsList(<<f>>) /\ Len(<<f>>) = 1 /\ <<f>>[1] = f
      BY DEF IsList
    <2> QED
      BY <2>1
  <1>9. IsList(o \o all) /\ Len(o \o all) = Len(o) + Len(all)
    BY <1>6, <1>8, JoinedAt
  <1>10. \A i \in 1..Len(o) : (o \o all)[i] = o[i]
    BY <1>6, <1>8, JoinedAt
  <1>11. \A i \in 1..Len(all) : (o \o all)[Len(o) + i] = all[i]
    BY <1>6, <1>8, JoinedAt
  <1>12. /\ IsList(q) /\ Len(q) = 2 * m + 1 /\ q[1] = f
         /\ \A i \in 1..(2 * m) : q[i + 1] = all[i]
    <2>1. q[1] = f
      BY <1>8, <1>10
    <2>2. ASSUME NEW i \in 1..(2 * m) PROVE q[i + 1] = all[i]
      <3>1. i \in 1..Len(all) /\ Len(o) + i = i + 1
        BY <1>6, <1>8
      <3> QED
        BY <1>11, <3>1
    <2> QED
      BY <1>1, <1>6, <1>8, <1>9, <2>1, <2>2
  <1>13. IsList(q \o <<x, y>>) /\ Len(q \o <<x, y>>) = Len(q) + 2
    BY <1>12, PairJoined
  <1>14. \A i \in 1..Len(q) : (q \o <<x, y>>)[i] = q[i]
    BY <1>12, PairJoined
  <1>15. (q \o <<x, y>>)[Len(q) + 1] = x /\ (q \o <<x, y>>)[Len(q) + 2] = y
    BY <1>12, PairJoined
  <1> PICK r : r = q \o <<x, y>>
    OBVIOUS
  <1>16. r = ChainLines(chain)
    BY <1>4
  <1>17. IsList(r) /\ Len(r) = 2 * n + 1 /\ r[2 * n] = x /\ r[2 * n + 1] = y
    <2>1. Len(q) + 1 = 2 * n /\ Len(q) + 2 = 2 * n + 1
      BY <1>1, <1>12
    <2> QED
      BY <1>13, <1>15, <2>1
  <1>18. r[1] = f
    <2>1. 1 \in 1..Len(q)
      BY <1>1, <1>12
    <2> QED
      BY <1>12, <1>14, <2>1
  <1>19. ASSUME NEW k \in 1..m PROVE r[2 * k] = a[k] /\ r[2 * k + 1] = b[k]
    <2>1. /\ 2 * k - 1 \in 1..(2 * m) /\ 2 * k \in 1..(2 * m) /\ (2 * k - 1) + 1 = 2 * k
          /\ 2 * k \in 1..Len(q) /\ 2 * k + 1 \in 1..Len(q)
      BY <1>1, <1>12
    <2>2. q[2 * k] = all[2 * k - 1] /\ q[2 * k + 1] = all[2 * k]
      BY <1>12, <2>1
    <2>3. r[2 * k] = q[2 * k] /\ r[2 * k + 1] = q[2 * k + 1]
      BY <1>14, <2>1
    <2> QED
      BY <1>7, <2>2, <2>3
  <1>20. \A k \in 1..(n - 1) : /\ r[2 * k] = Take("var", LinkVar[k], PageVar[k], chain[k].ere)
                               /\ r[2 * k + 1] = Get(PageVar[k + 1], <<Var(LinkVar[k])>>)
    BY <1>5, <1>19, ZenonT(30)
  <1> QED
    BY <1>16, <1>17, <1>18, <1>20 DEF ChainBody

HandleBody(b, c) ==
    /\ IsList(b) /\ Len(b) = 3
    /\ b[1] = Get(PageVar[1], ThisUrl)
    /\ b[2] = Take("var", c.param.token, PageVar[1], HandleEre(c.param.token, ExtOf(c.url)))
    /\ b[3] = Give(<<Lit(c.param.base), Var(c.param.token)>>)

LEMMA HandleWritten ==
    ASSUME NEW c
    PROVE  HandleBody(HandleLines(c), c)
  <1> PICK x, y, z : /\ x = Get(PageVar[1], ThisUrl)
                     /\ y = Take("var", c.param.token, PageVar[1], HandleEre(c.param.token, ExtOf(c.url)))
                     /\ z = Give(<<Lit(c.param.base), Var(c.param.token)>>)
    OBVIOUS
  <1>1. HandleLines(c) = <<x, y, z>>
    BY DEF HandleLines
  <1>2. IsList(<<x, y, z>>) /\ Len(<<x, y, z>>) = 3
    BY DEF IsList
  <1>3. <<x, y, z>>[1] = x /\ <<x, y, z>>[2] = y /\ <<x, y, z>>[3] = z
    OBVIOUS
  <1> QED
    BY <1>1, <1>2, <1>3 DEF HandleBody

(* Two lines for the list, and what is run on each episode.                   *)
LEMMA ListWritten ==
    ASSUME NEW ere, NEW b, IsList(b)
    PROVE  LET l == ListLines(ere) \o b
           IN  /\ IsList(l) /\ Len(l) = Len(b) + 2
               /\ l[1] = Get("page", ThisUrl) /\ l[2] = Take("list", "eps", "page", ere)
               /\ \A i \in 1..Len(b) : l[i + 2] = b[i]
  <1>10. PICK x, y : x = Get("page", ThisUrl) /\ y = Take("list", "eps", "page", ere)
    OBVIOUS
  <1>11. PICK o : o = ListLines(ere)
    OBVIOUS
  <1>1. o = <<x, y>>
    BY <1>10, <1>11 DEF ListLines
  <1>2. IsList(<<x, y>>) /\ Len(<<x, y>>) = 2 /\ <<x, y>>[1] = x /\ <<x, y>>[2] = y
    BY DEF IsList
  <1>3. IsList(o) /\ Len(o) = 2 /\ o[1] = x /\ o[2] = y
    BY <1>1, <1>2
  <1>4. IsList(o \o b) /\ Len(o \o b) = Len(o) + Len(b) /\ Len(b) \in Nat
    BY <1>3, JoinedAt
  <1>0. IsList(o)
    BY <1>3
  <1>5. ASSUME NEW i \in 1..Len(o) PROVE (o \o b)[i] = o[i]
    BY <1>0, JoinedFirst, Zenon
  <1>6. ASSUME NEW i \in 1..Len(b) PROVE (o \o b)[Len(o) + i] = b[i]
    BY <1>0, JoinedThen, Zenon
  <1>12. PICK l : l = o \o b
    OBVIOUS
  <1>7. l[1] = x /\ l[2] = y
    <2>1. 1 \in 1..Len(o) /\ 2 \in 1..Len(o)
      BY <1>3
    <2> QED
      BY <1>3, <1>5, <1>12, <2>1
  <1>8. ASSUME NEW i \in 1..Len(b) PROVE l[i + 2] = b[i]
    <2>1. Len(o) + i = i + 2
      BY <1>3, <1>4
    <2> QED
      BY <1>6, <1>12, <2>1
  <1>9. IsList(l) /\ Len(l) = Len(b) + 2
    BY <1>3, <1>4, <1>12
  <1> QED
    BY <1>7, <1>8, <1>9, <1>10, <1>11, <1>12

(* A name, a match and directives are read as they are.                       *)
AsWritten(p, g, pat, body) ==
    /\ p.error = FALSE /\ p.name = g /\ p.matches = <<pat>>
    /\ IsList(p.directives) /\ Len(p.directives) = Len(body)
    /\ \A k \in 1..Len(body) : p.directives[k] = Directive(body[k])

DirectiveLines(body) ==
    /\ IsList(body) /\ Len(body) <= MaxDirectives
    /\ \A k \in 1..Len(body) : body[k].kw \in Kinds
    /\ \E k \in 1..Len(body) : body[k].kw = "output"

ReadTo(c, k, g, pat, body) ==
    /\ c.error = FALSE /\ c.name = g /\ c.matches = <<pat>>
    /\ IsList(c.directives) /\ Len(c.directives) = k
    /\ \A j \in 1..k : c.directives[j] = Directive(body[j])

LEMMA HeadRead ==
    ASSUME NEW S, NEW c, NEW d, NEW l1, NEW l2, NEW g, NEW pat, NEW body,
           l1 = Name(g), l2 = Match(pat),
           c.name = None, c.matches = <<>>, c.directives = <<>>, c.lastget = 0, c.error = FALSE,
           Takes(d, c, l1), NEW e, Takes(e, d, l2)
    PROVE  ReadTo(e, 0, g, pat, body)
  <1>1. l1.kw = "name" /\ l1.arg = g /\ l2.kw = "match" /\ l2.arg = pat
    BY DEF Name, Match
  <1>2. MaxMatches \in Nat \ {0}
    BY ExtractorAssumption
  <1>3. ~Bad(c, l1)
    BY <1>1 DEF Bad, Kinds
  <1>4. Holds(d, g, <<>>, <<>>, 0, FALSE)
    <2>1. Holds(d, l1.arg, c.matches, c.directives, 0, c.error)
      BY <1>1, <1>3 DEF Takes
    <2> QED
      BY <1>1, <2>1
  <1>5. ~Bad(d, l2)
    <2>1. ~(Len(d.matches) >= MaxMatches)
      BY <1>2, <1>4 DEF Holds
    <2> QED
      BY <1>1, <2>1 DEF Bad, Kinds
  <1>6. Holds(e, d.name, Append(d.matches, pat), d.directives, 0, d.error)
    <2>1. d.error = FALSE
      BY <1>4 DEF Holds
    <2> QED
      BY <1>1, <1>5, <2>1 DEF Takes
  <1>7. Append(<<>>, pat) = <<pat>>
    OBVIOUS
  <1>8. e.name = g /\ e.matches = <<pat>> /\ e.directives = <<>> /\ e.error = FALSE
    BY <1>4, <1>6, <1>7 DEF Holds
  <1>9. IsList(<<>>) /\ Len(<<>>) = 0 /\ \A j \in 1..0 : FALSE
    BY DEF IsList
  <1> QED
    BY <1>8, <1>9 DEF ReadTo

LEMMA DirectiveRead ==
    ASSUME NEW c, NEW d, NEW k, NEW g, NEW pat, NEW body, DirectiveLines(body), k \in 1..Len(body),
           ReadTo(c, k - 1, g, pat, body), Takes(d, c, body[k])
    PROVE  ReadTo(d, k, g, pat, body)
  <1>1. /\ Len(body) \in Nat /\ Len(body) <= MaxDirectives /\ MaxDirectives \in Nat /\ body[k].kw \in Kinds
        /\ k \in Nat \ {0} /\ k <= Len(body)
    BY ExtractorAssumption, ListIsSeq DEF DirectiveLines
  <1>2. /\ c.error = FALSE /\ c.name = g /\ c.matches = <<pat>> /\ IsList(c.directives)
        /\ Len(c.directives) = k - 1 /\ \A j \in 1..(k - 1) : c.directives[j] = Directive(body[j])
    BY DEF ReadTo
  <1>3. ~Bad(c, body[k])
    <2>1. ~(Len(c.directives) >= MaxDirectives)
      BY <1>1, <1>2
    <2>2. body[k].kw \notin {"match", "header"}
      BY <1>1 DEF Kinds
    <2> QED
      BY <1>1, <2>1, <2>2 DEF Bad
  <1> PICK x : x = Directive(body[k])
    OBVIOUS
  <1>4. d.error = FALSE /\ d.name = g /\ d.matches = <<pat>> /\ d.directives = Append(c.directives, x)
    <2>1. Holds(d, c.name, c.matches, Append(c.directives, Directive(body[k])),
                IF body[k].kw = "get" THEN Len(c.directives) + 1 ELSE 0, c.error)
      BY <1>1, <1>2, <1>3 DEF Takes
    <2> QED
      BY <1>2, <2>1 DEF Holds
  <1>5. IsList(d.directives) /\ Len(d.directives) = k /\ d.directives[k] = x
    BY <1>1, <1>2, <1>4, Pushed
  <1>6. \A j \in 1..(k - 1) : d.directives[j] = c.directives[j]
    BY <1>1, <1>2, <1>4, Pushed
  <1>7. \A j \in 1..k : d.directives[j] = Directive(body[j])
    <2>1. \A j \in 1..k : j = k \/ j \in 1..(k - 1)
      BY <1>1
    <2> QED
      BY <1>2, <1>5, <1>6, <2>1
  <1> QED
    BY <1>4, <1>5, <1>7 DEF ReadTo

LEMMA ParseBody ==
    ASSUME NEW g, g # None, NEW pat, NEW body, DirectiveLines(body), NEW lines,
           IsList(lines), Len(lines) = Len(body) + 2, lines[1] = Name(g), lines[2] = Match(pat),
           \A k \in 1..Len(body) : lines[k + 2] = body[k]
    PROVE  AsWritten(Parse(lines), g, pat, body)
  <1> PICK m, S, V : m = Len(body) /\ S = Written(lines) /\ V = ConfigSet(S)
    OBVIOUS
  <1>1. m \in Nat /\ Len(lines) = m + 2
    BY ListIsSeq DEF DirectiveLines
  <1>2. PICK c : After(lines, c)
    BY <1>1, ParseRuns
  <1>3. /\ c[0] = NoConfig /\ \A i \in 1..(m + 2) : c[i] = ParseLine(c[i - 1], lines[i])
        /\ \A i \in 0..(m + 2) : c[i] \in ConfigSet(S)
        /\ Parse(lines) = [c[m + 2] EXCEPT !.error = @ \/ c[m + 2].name = None \/ ~Has(c[m + 2], "output")]
    BY <1>1, <1>2 DEF After
  <1>4. ASSUME NEW i \in 1..(m + 2) PROVE Takes(c[i], c[i - 1], lines[i])
    <2>1. i - 1 \in 0..(m + 2)
      BY <1>1
    <2>2. lines[i].kw \in S /\ lines[i].name \in S /\ lines[i].source \in S /\ lines[i].arg \in S
      BY <1>1 DEF Written
    <2>3. c[i - 1] \in ConfigSet(S) /\ c[i] = ParseLine(c[i - 1], lines[i])
      BY <1>3, <2>1
    <2> QED
      BY <2>2, <2>3, LineDoes
  <1>5. ReadTo(c[2], 0, g, pat, body)
    <2> PICK b, d, e, l1, l2 : b = c[0] /\ d = c[1] /\ e = c[2] /\ l1 = lines[1] /\ l2 = lines[2]
      OBVIOUS
    <2>1. b.name = None /\ b.matches = <<>> /\ b.directives = <<>> /\ b.lastget = 0 /\ b.error = FALSE
      BY <1>3 DEF NoConfig
    <2>2. Takes(d, b, l1)
      <3>1. 1 \in 1..(m + 2) /\ 1 - 1 = 0
        BY <1>1
      <3> QED
        BY <1>4, <3>1
    <2>3. Takes(e, d, l2)
      <3>1. 2 \in 1..(m + 2) /\ 2 - 1 = 1
        BY <1>1
      <3> QED
        BY <1>4, <3>1
    <2>4. l1 = Name(g) /\ l2 = Match(pat)
      OBVIOUS
    <2>5. ReadTo(e, 0, g, pat, body)
      BY <2>1, <2>2, <2>3, <2>4, HeadRead
    <2> QED
      BY <2>5
  <1>6. ReadTo(c[m + 2], m, g, pat, body)
    <2> DEFINE P == {k \in 0..m : ReadTo(c[k + 2], k, g, pat, body)}
    <2>1. 0 \in P
      BY <1>1, <1>5
    <2>2. ASSUME NEW k \in 1..m, k - 1 \in P PROVE k \in P
      <3>1. k + 2 \in 1..(m + 2) /\ (k + 2) - 1 = (k - 1) + 2 /\ k \in 0..m
        BY <1>1
      <3> PICK x, y : x = c[(k - 1) + 2] /\ y = c[k + 2]
        OBVIOUS
      <3>2. ReadTo(x, k - 1, g, pat, body)
        BY <2>2
      <3>3. Takes(y, x, body[k])
        <4>1. Takes(c[k + 2], c[(k + 2) - 1], lines[k + 2])
          BY <1>4, <3>1
        <4> QED
          BY <3>1, <4>1
      <3>4. ReadTo(y, k, g, pat, body)
        BY <3>1, <3>2, <3>3, DirectiveRead, ZenonT(30)
      <3> QED
        BY <3>1, <3>4
    <2>3. \A k \in 0..m : k \in P
      <3> HIDE DEF P
      <3> QED
        BY <1>1, <2>1, <2>2, AfterEveryStep
    <2> QED
      BY <1>1, <2>3
  <1> PICK e, p, err : /\ e = c[m + 2] /\ p = Parse(lines)
                       /\ err = (e.error \/ e.name = None \/ ~Has(e, "output"))
    OBVIOUS
  <1>7. e \in ConfigSet(S) /\ p = [e EXCEPT !.error = err]
    BY <1>1, <1>3
  <1>8. p.matches = e.matches /\ p.name = e.name /\ p.directives = e.directives /\ p.error = err
    BY <1>7 DEF ConfigSet
  <1>9. /\ e.error = FALSE /\ e.name = g /\ e.matches = <<pat>> /\ IsList(e.directives)
        /\ Len(e.directives) = m /\ \A j \in 1..m : e.directives[j] = Directive(body[j])
    BY <1>6 DEF ReadTo
  <1>10. Has(e, "output")
    <2>1. PICK k \in 1..m : body[k].kw = "output"
      BY DEF DirectiveLines
    <2>2. Directive(body[k]).kw = body[k].kw
      BY DEF Directive
    <2>3. DOMAIN e.directives = 1..m
      BY <1>9, ListIsSeq
    <2> QED
      BY <1>9, <2>1, <2>2, <2>3 DEF Has
  <1>11. err = FALSE
    BY <1>9, <1>10
  <1> QED
    BY <1>8, <1>9, <1>11 DEF AsWritten

(* The config that was saved is the one that the extractor takes.             *)
LEMMA SavedTaken ==
    ASSUME NEW lines, configs' = [Begun EXCEPT ![ScanFile] = lines], Keep(lines)
    PROVE  Discover' = Parse(lines)
  <1> DEFINE kept == {i \in DOMAIN Path : Keep(configs'[Path[i]])}
  <1>1. /\ DOMAIN Path = 1..Len(Path) /\ Len(Path) \in Nat /\ ScanFile \in DOMAIN Begun
        /\ \A i \in DOMAIN Path : Path[i] \in DOMAIN Begun
    <2>1. Path \in Seq(DOMAIN Begun)
      BY ExtractorAssumption
    <2>2. DOMAIN Path = 1..Len(Path) /\ Len(Path) \in Nat /\ \A i \in DOMAIN Path : Path[i] \in DOMAIN Begun
      BY <2>1
    <2>3. ScanFile \in ToSet(Path)
      BY ScanAssumption
    <2>4. \E i \in DOMAIN Path : Path[i] = ScanFile
      BY <2>3 DEF ToSet
    <2> QED
      BY <2>2, <2>4
  <1>2. configs'[ScanFile] = lines /\ \A f \in DOMAIN Begun : f # ScanFile => configs'[f] = Begun[f]
    BY <1>1
  <1>3. PICK s \in DOMAIN Path : Path[s] = ScanFile
    BY ScanAssumption DEF ToSet
  <1>4. s \in kept /\ kept \in SUBSET Nat
    BY <1>1, <1>2, <1>3
  <1> PICK m : m = Min(kept)
    OBVIOUS
  <1>5. m \in kept /\ \A i \in kept : m <= i
    BY <1>4, LeastExists
  <1>6. Path[m] = ScanFile
    <2>1. m \in DOMAIN Path /\ Keep(configs'[Path[m]])
      BY <1>5
    <2>2. CASE \E j \in 1..(m - 1) : Path[j] = ScanFile
      <3> PICK j \in 1..(m - 1) : Path[j] = ScanFile
        BY <2>2
      <3>1. j \in DOMAIN Path /\ ~(m <= j)
        BY <1>1, <2>1
      <3>2. j \in kept
        BY <1>2, <3>1
      <3> QED
        BY <1>5, <3>1, <3>2
    <2>3. CASE ~Keep(Begun[Path[m]])
      BY <1>1, <1>2, <2>1, <2>3
    <2> QED
      BY <2>1, <2>2, <2>3, TakenAssumption
  <1>7. Discover' = Parse(configs'[Path[m]])
    BY <1>5 DEF Discover
  <1> QED
    BY <1>2, <1>6, <1>7

LEMMA SavedRead ==
    ASSUME NEW dir \in BOOLEAN, NEW body, DirectiveLines(body),
           configs' = [Begun EXCEPT ![ScanFile] = HeadLines(dir) \o body]
    PROVE  AsWritten(Discover', Page.host, HeadLines(dir)[2].arg, body)
  <1> PICK g, pat, lines : g = Page.host /\ pat = HeadLines(dir)[2].arg /\ lines = HeadLines(dir) \o body
    OBVIOUS
  <1> PICK x, y, o : x = Name(g) /\ y = Match(pat) /\ o = HeadLines(dir)
    OBVIOUS
  <1>1. o = <<x, y>> /\ IsList(o) /\ Len(o) = 2 /\ o[1] = x /\ o[2] = y
    <2>1. o = <<x, y>>
      BY DEF HeadLines, Match
    <2>2. IsList(<<x, y>>) /\ Len(<<x, y>>) = 2 /\ <<x, y>>[1] = x /\ <<x, y>>[2] = y
      BY DEF IsList
    <2> QED
      BY <2>1, <2>2
  <1>0. IsList(body) /\ IsList(o)
    BY <1>1 DEF DirectiveLines
  <1>2. IsList(o \o body) /\ Len(o \o body) = Len(o) + Len(body) /\ Len(body) \in Nat
    BY <1>0, JoinedAt
  <1>3. \A i \in 1..Len(o) : (o \o body)[i] = o[i]
    BY <1>0, JoinedAt
  <1>4. \A i \in 1..Len(body) : (o \o body)[Len(o) + i] = body[i]
    BY <1>0, JoinedAt
  <1>5. lines = o \o body
    OBVIOUS
  <1>6. IsList(lines) /\ Len(lines) = Len(body) + 2 /\ lines[1] = x /\ lines[2] = y
    <2>1. 1 \in 1..Len(o) /\ 2 \in 1..Len(o)
      BY <1>1
    <2> QED
      BY <1>1, <1>2, <1>3, <1>5, <2>1
  <1>7. ASSUME NEW k \in 1..Len(body) PROVE lines[k + 2] = body[k]
    <2>1. Len(o) + k = k + 2
      BY <1>1, <1>2
    <2> QED
      BY <1>4, <1>5, <2>1
  <1>8. g # None
    BY ScanAssumption
  <1>9. AsWritten(Parse(lines), g, pat, body)
    BY <1>6, <1>7, <1>8, ParseBody
  <1>10. Keep(lines)
    <2> PICK p : p = Parse(lines)
      OBVIOUS
    <2>1. p.error = FALSE /\ p.name = g /\ p.matches = <<pat>>
      BY <1>9 DEF AsWritten
    <2>2. Forced # None => p.name = Forced
      BY <2>1, TakenAssumption
    <2>3. <<pat, Page>> \in Wanted_
      BY TakenAssumption
    <2>4. Matches(p)
      <3>1. 1 \in DOMAIN <<pat>> /\ <<pat>>[1] = pat
        OBVIOUS
      <3>2. 1 \in DOMAIN p.matches /\ p.matches[1] = pat
        BY <2>1, <3>1
      <3> QED
        BY <2>3, <3>2 DEF Matches
    <2> QED
      BY <2>1, <2>2, <2>4 DEF Keep
  <1> QED
    BY <1>9, <1>10, SavedTaken

(* The lines of a body are directives from the f-th on.                       *)
ShownAt(D, f, b) == f \in {1, 3} /\ Len(D) = Len(b) + f - 1 /\ \A k \in 1..Len(b) : D[k + f - 1] = Directive(b[k])

LEMMA ChainShown ==
    ASSUME NEW D, NEW f, NEW b, NEW chain, Len(chain) \in Nat \ {0}, ChainBody(b, chain), ShownAt(D, f, b)
    PROVE  ChainAt(D, f, chain)
  <1> PICK n : n = Len(chain)
    OBVIOUS
  <1>1. /\ n \in Nat \ {0} /\ Len(b) = 2 * n + 1 /\ f \in {1, 3} /\ Len(D) = f + 2 * n
        /\ \A k \in 1..(2 * n + 1) : D[k + f - 1] = Directive(b[k])
    BY DEF ChainBody, ShownAt
  <1>2. D[f] = Directive(Get(PageVar[1], ThisUrl))
    <2>1. 1 \in 1..(2 * n + 1) /\ 1 + f - 1 = f
      BY <1>1
    <2>2. D[1 + f - 1] = Directive(b[1])
      BY <1>1, <2>1
    <2> QED
      BY <2>1, <2>2 DEF ChainBody
  <1>3. ASSUME NEW k \in 1..(n - 1)
        PROVE  /\ D[f + 2 * k - 1] = Directive(Take("var", LinkVar[k], PageVar[k], chain[k].ere))
               /\ D[f + 2 * k] = Directive(Get(PageVar[k + 1], <<Var(LinkVar[k])>>))
    <2>1. /\ 2 * k \in 1..(2 * n + 1) /\ 2 * k + f - 1 = f + 2 * k - 1
          /\ 2 * k + 1 \in 1..(2 * n + 1) /\ (2 * k + 1) + f - 1 = f + 2 * k
      BY <1>1
    <2>2. D[2 * k + f - 1] = Directive(b[2 * k]) /\ D[(2 * k + 1) + f - 1] = Directive(b[2 * k + 1])
      BY <1>1, <2>1
    <2>3. b[2 * k] = Take("var", LinkVar[k], PageVar[k], chain[k].ere) /\ b[2 * k + 1] = Get(PageVar[k + 1], <<Var(LinkVar[k])>>)
      BY DEF ChainBody
    <2> QED
      BY <2>1, <2>2, <2>3
  <1>4. /\ D[f + 2 * n - 1] = Directive(Take("var", "media", PageVar[n], Last(chain).ere))
        /\ D[f + 2 * n] = Directive(Give(<<Var("media")>>))
    <2>1. /\ 2 * n \in 1..(2 * n + 1) /\ 2 * n + f - 1 = f + 2 * n - 1
          /\ 2 * n + 1 \in 1..(2 * n + 1) /\ (2 * n + 1) + f - 1 = f + 2 * n
      BY <1>1
    <2>2. D[2 * n + f - 1] = Directive(b[2 * n]) /\ D[(2 * n + 1) + f - 1] = Directive(b[2 * n + 1])
      BY <1>1, <2>1
    <2>3. b[2 * n] = Take("var", "media", PageVar[n], Last(chain).ere) /\ b[2 * n + 1] = Give(<<Var("media")>>)
      BY DEF ChainBody
    <2> QED
      BY <2>1, <2>2, <2>3
  <1> QED
    BY <1>1, <1>2, <1>3, <1>4 DEF ChainAt

LEMMA HandleShown ==
    ASSUME NEW D, NEW f, NEW b, NEW c, HandleBody(b, c), ShownAt(D, f, b)
    PROVE  HandleAt(D, f, c)
  <1>1. /\ f \in {1, 3} /\ Len(b) = 3 /\ Len(D) = f + 2
        /\ \A k \in 1..3 : D[k + f - 1] = Directive(b[k])
    BY DEF HandleBody, ShownAt
  <1>2. 1 \in 1..3 /\ 2 \in 1..3 /\ 3 \in 1..3 /\ 1 + f - 1 = f /\ 2 + f - 1 = f + 1 /\ 3 + f - 1 = f + 2
    BY <1>1
  <1>3. D[f] = Directive(b[1]) /\ D[f + 1] = Directive(b[2]) /\ D[f + 2] = Directive(b[3])
    <2>1. D[1 + f - 1] = Directive(b[1]) /\ D[2 + f - 1] = Directive(b[2]) /\ D[3 + f - 1] = Directive(b[3])
      BY <1>1, <1>2
    <2> QED
      BY <1>2, <2>1
  <1> QED
    BY <1>1, <1>3 DEF HandleAt, HandleBody

(* A body that can be read, and that does not end with the page's own URL.    *)
Short(b, n) ==
    /\ IsList(b) /\ Len(b) \in 1..n
    /\ \A k \in 1..Len(b) : b[k].kw \in Kinds
    /\ b[Len(b)].kw = "output"

LEMMA ChainShort ==
    ASSUME NEW b, NEW chain, Len(chain) \in 1..MaxChain, ChainBody(b, chain)
    PROVE  Short(b, 2 * MaxChain + 1) /\ b[Len(b)].arg # ThisUrl
  <1> PICK n : n = Len(chain)
    OBVIOUS
  <1>1. MaxChain \in Nat /\ n \in Nat \ {0} /\ n <= MaxChain
    BY ScanAssumption
  <1>2. IsList(b) /\ Len(b) = 2 * n + 1 /\ Len(b) \in 1..(2 * MaxChain + 1)
    BY <1>1 DEF ChainBody
  <1>3. b[Len(b)] = Give(<<Var("media")>>)
    BY <1>2 DEF ChainBody
  <1>4. ASSUME NEW k \in 1..Len(b) PROVE b[k].kw \in Kinds
    <2>1. \/ k = 1 \/ k = 2 * n \/ k = 2 * n + 1
          \/ \E j \in 1..(n - 1) : k = 2 * j \/ k = 2 * j + 1
      <3>1. k \in 1..(2 * n + 1)
        BY <1>2
      <3>2. \E j \in 0..n : k = 2 * j \/ k = 2 * j + 1
        <4> PICK j : j = k \div 2
          OBVIOUS
        <4>1. j \in 0..n /\ (k = 2 * j \/ k = 2 * j + 1)
          BY <1>1, <3>1
        <4> QED
          BY <4>1
      <3> PICK j \in 0..n : k = 2 * j \/ k = 2 * j + 1
        BY <3>2
      <3>3. j = 0 \/ j = n \/ j \in 1..(n - 1)
        BY <1>1
      <3> QED
        BY <3>1, <3>3
    <2>2. b[k].kw \in {"get", "var", "output"}
      <3>1. \A j \in 1..(n - 1) : b[2 * j].kw = "var" /\ b[2 * j + 1].kw = "get"
        <4> SUFFICES ASSUME NEW j \in 1..(n - 1) PROVE b[2 * j].kw = "var" /\ b[2 * j + 1].kw = "get"
          OBVIOUS
        <4>1. /\ b[2 * j] = Take("var", LinkVar[j], PageVar[j], chain[j].ere)
              /\ b[2 * j + 1] = Get(PageVar[j + 1], <<Var(LinkVar[j])>>)
          BY DEF ChainBody
        <4> QED
          BY <4>1 DEF Get, Take
      <3>2. b[1].kw = "get" /\ b[2 * n].kw = "var" /\ b[2 * n + 1].kw = "output"
        BY DEF ChainBody, Get, Take, Give
      <3> QED
        BY <2>1, <3>1, <3>2
    <2> QED
      BY <2>2 DEF Kinds
  <1>5. Give(<<Var("media")>>).kw = "output" /\ Give(<<Var("media")>>).arg # ThisUrl
    <2>1. Var("media").var = "media" /\ Var("url").var = "url"
      BY DEF Var
    <2>2. Var("media") # Var("url")
      BY <2>1
    <2>3. <<Var("media")>> # <<Var("url")>>
      BY <2>2
    <2> QED
      BY <2>3, LineShapes DEF ThisUrl
  <1> QED
    BY <1>2, <1>3, <1>4, <1>5 DEF Short

LEMMA HandleShort ==
    ASSUME NEW b, NEW c, HandleBody(b, c)
    PROVE  Short(b, 2 * MaxChain + 1) /\ b[Len(b)].arg # ThisUrl
  <1>1. MaxChain \in Nat \ {0}
    BY ScanAssumption
  <1>2. IsList(b) /\ Len(b) = 3 /\ Len(b) \in 1..(2 * MaxChain + 1)
    BY <1>1 DEF HandleBody
  <1>3. b[1].kw = "get" /\ b[2].kw = "var" /\ b[3].kw = "output"
    BY DEF HandleBody, Get, Take, Give
  <1>4. \A k \in 1..Len(b) : k = 1 \/ k = 2 \/ k = 3
    BY <1>2
  <1>5. \A k \in 1..Len(b) : b[k].kw \in Kinds
    BY <1>3, <1>4 DEF Kinds
  <1>6. b[Len(b)].arg # ThisUrl
    <2>1. b[3].arg = <<Lit(c.param.base), Var(c.param.token)>>
      BY LineShapes DEF HandleBody
    <2> PICK x, y, z : x = Lit(c.param.base) /\ y = Var(c.param.token) /\ z = Var("url")
      OBVIOUS
    <2>2. <<x, y>> # <<z>>
      <3>1. Len(<<x, y>>) = 2 /\ Len(<<z>>) = 1
        OBVIOUS
      <3> QED
        BY <3>1
    <2> QED
      BY <1>2, <2>1, <2>2 DEF ThisUrl
  <1> QED
    BY <1>2, <1>3, <1>5, <1>6 DEF Short

(* The pipeline of a candidate.                                               *)
LEMMA PipeWritten ==
    ASSUME NEW c, IsList(c.chain), Len(c.chain) \in 1..MaxChain
    PROVE  /\ Short(Pipeline(c), 2 * MaxChain + 1) /\ Pipeline(c)[Len(Pipeline(c))].arg # ThisUrl
           /\ \A D, f : ShownAt(D, f, Pipeline(c)) => PipeAt(D, f, c)
  <1>0. Len(c.chain) \in Nat \ {0}
    BY ScanAssumption
  <1>1. CASE c.param # None
    <2>1. Pipeline(c) = HandleLines(c)
      BY <1>1 DEF Pipeline
    <2>2. HandleBody(Pipeline(c), c)
      BY <2>1, HandleWritten
    <2>3. ASSUME NEW D, NEW f, ShownAt(D, f, Pipeline(c)) PROVE PipeAt(D, f, c)
      <3>1. HandleAt(D, f, c)
        BY <2>2, <2>3, HandleShown
      <3> QED
        BY <1>1, <3>1 DEF PipeAt
    <2> QED
      BY <2>2, <2>3, HandleShort
  <1>2. CASE c.param = None
    <2>1. Pipeline(c) = ChainLines(c.chain)
      BY <1>2 DEF Pipeline
    <2>2. ChainBody(Pipeline(c), c.chain)
      BY <1>0, <2>1, ChainWritten
    <2>3. ASSUME NEW D, NEW f, ShownAt(D, f, Pipeline(c)) PROVE PipeAt(D, f, c)
      <3>1. ChainAt(D, f, c.chain)
        BY <1>0, <2>2, <2>3, ChainShown
      <3> QED
        BY <1>2, <3>1 DEF PipeAt
    <2> QED
      BY <2>2, <2>3, ChainShort
  <1> QED
    BY <1>1, <1>2

LEMMA ShortRead ==
    ASSUME NEW b, Short(b, MaxDirectives)
    PROVE  DirectiveLines(b)
  <1>1. /\ IsList(b) /\ Len(b) \in 1..MaxDirectives /\ b[Len(b)].kw = "output"
        /\ \A k \in 1..Len(b) : b[k].kw \in Kinds
    BY DEF Short
  <1>2. MaxDirectives \in Nat
    BY ExtractorAssumption
  <1>3. Len(b) \in 1..Len(b) /\ Len(b) <= MaxDirectives
    BY <1>1, <1>2
  <1> QED
    BY <1>1, <1>3 DEF DirectiveLines

LEMMA PlainSaved ==
    ASSUME NEW dir \in BOOLEAN, NEW b, Short(b, 2 * MaxChain + 1),
           configs' = [Begun EXCEPT ![ScanFile] = HeadLines(dir) \o b]
    PROVE  /\ Discover' # NoConfig /\ IsList((Discover').directives)
           /\ ShownAt((Discover').directives, 1, b)
  <1>1. MaxDirectives \in Nat /\ MaxChain \in Nat /\ MaxDirectives >= 2 * MaxChain + 3
    BY ExtractorAssumption, ScanAssumption
  <1>2. DirectiveLines(b)
    <2>1. Len(b) \in 1..(2 * MaxChain + 1)
      BY DEF Short
    <2>2. Len(b) \in 1..MaxDirectives
      BY <1>1, <2>1
    <2>3. Short(b, MaxDirectives)
      BY <2>2 DEF Short
    <2> QED
      BY <2>3, ShortRead
  <1> PICK p : p = Discover'
    OBVIOUS
  <1> PICK D : D = p.directives
    OBVIOUS
  <1>3. IsList(D) /\ Len(D) = Len(b) /\ \A k \in 1..Len(b) : D[k] = Directive(b[k])
    BY <1>2, SavedRead DEF AsWritten
  <1>4. Len(b) \in Nat \ {0}
    BY DEF Short
  <1>5. p # NoConfig
    <2>1. NoConfig.directives = <<>> /\ Len(<<>>) = 0
      BY DEF NoConfig
    <2> QED
      BY <1>3, <1>4, <2>1
  <1>6. ShownAt(D, 1, b)
    <2>1. \A k \in 1..Len(b) : k + 1 - 1 = k
      BY <1>4
    <2>2. Len(D) = Len(b) + 1 - 1
      BY <1>3, <1>4
    <2> QED
      BY <1>3, <2>1, <2>2 DEF ShownAt
  <1> QED
    BY <1>3, <1>5, <1>6

LEMMA ListSaved ==
    ASSUME NEW dir \in BOOLEAN, NEW ere, NEW b, Short(b, 2 * MaxChain + 1),
           configs' = [Begun EXCEPT ![ScanFile] = HeadLines(dir) \o (ListLines(ere) \o b)]
    PROVE  LET D == (Discover').directives
           IN  /\ Discover' # NoConfig /\ IsList(D) /\ Listing(D, ere) /\ D[2].arg[1].text = ere
               /\ ShownAt(D, 3, b) /\ Last(D).arg = b[Len(b)].arg
  <1>1. MaxDirectives \in Nat /\ MaxChain \in Nat /\ MaxDirectives >= 2 * MaxChain + 3
    BY ExtractorAssumption, ScanAssumption
  <1> PICK l, x, y : l = ListLines(ere) \o b /\ x = Get("page", ThisUrl) /\ y = Take("list", "eps", "page", ere)
    OBVIOUS
  <1>2. IsList(b) /\ Len(b) \in 1..(2 * MaxChain + 1) /\ (\A k \in 1..Len(b) : b[k].kw \in Kinds) /\ b[Len(b)].kw = "output"
    BY DEF Short
  <1>3. IsList(l) /\ Len(l) = Len(b) + 2 /\ l[1] = x /\ l[2] = y /\ \A i \in 1..Len(b) : l[i + 2] = b[i]
    BY <1>2, ListWritten
  <1>4. \A k \in 1..Len(l) : k = 1 \/ k = 2 \/ (k - 2 \in 1..Len(b) /\ (k - 2) + 2 = k)
    BY <1>1, <1>2, <1>3
  <1>5. x.kw = "get" /\ y.kw = "list"
    BY DEF Get, Take
  <1>6. Short(l, MaxDirectives)
    <2>1. \A k \in 1..Len(l) : l[k].kw \in Kinds
      <3>1. x.kw \in Kinds /\ y.kw \in Kinds
        BY <1>5 DEF Kinds
      <3> QED
        BY <1>2, <1>3, <1>4, <3>1
    <2>2. Len(l) \in 1..MaxDirectives /\ Len(b) \in 1..Len(b)
      BY <1>1, <1>2, <1>3
    <2>3. l[Len(l)] = b[Len(b)]
      BY <1>3, <2>2
    <2> QED
      BY <1>2, <1>3, <2>1, <2>2, <2>3 DEF Short
  <1>7. DirectiveLines(l)
    BY <1>6, ShortRead
  <1> PICK p : p = Discover'
    OBVIOUS
  <1> PICK D : D = p.directives
    OBVIOUS
  <1>8. IsList(D) /\ Len(D) = Len(l) /\ \A k \in 1..Len(l) : D[k] = Directive(l[k])
    BY <1>7, SavedRead DEF AsWritten
  <1>9. p # NoConfig
    <2>1. NoConfig.directives = <<>> /\ Len(<<>>) = 0
      BY DEF NoConfig
    <2>2. Len(l) # 0
      BY <1>1, <1>2, <1>3
    <2> QED
      BY <1>8, <2>1, <2>2
  <1>10. 1 \in 1..Len(l) /\ 2 \in 1..Len(l) /\ Len(D) >= 3 /\ Len(b) \in 1..Len(b)
    BY <1>1, <1>2, <1>3, <1>8
  <1>11. D[1] = Directive(x) /\ D[2] = Directive(y)
    BY <1>3, <1>8, <1>10
  <1>12. Listing(D, ere)
    BY <1>10, <1>11 DEF Listing
  <1>13. ASSUME NEW k \in 1..Len(b) PROVE D[k + 2] = Directive(b[k])
    <2>1. k + 2 \in 1..Len(l)
      BY <1>2, <1>3
    <2> QED
      BY <1>3, <1>8, <2>1
  <1>14. ShownAt(D, 3, b)
    <2>1. \A k \in 1..Len(b) : k + 3 - 1 = k + 2
      BY <1>2
    <2>2. Len(D) = Len(b) + 3 - 1
      BY <1>2, <1>3, <1>8
    <2> QED
      BY <1>13, <2>1, <2>2 DEF ShownAt
  <1>15. Last(D).arg = b[Len(b)].arg
    <2>1. Len(D) = Len(b) + 2
      BY <1>3, <1>8
    <2>2. Last(D) = D[Len(b) + 2]
      BY <2>1 DEF Last
    <2>3. D[Len(b) + 2] = Directive(b[Len(b)])
      BY <1>10, <1>13
    <2> QED
      BY <2>2, <2>3 DEF Directive
  <1>16. D[2].arg[1].text = ere
    BY <1>11 DEF Directive, Take, Lit
  <1> QED
    BY <1>8, <1>9, <1>12, <1>14, <1>15, <1>16

(* A body of one line.                                                        *)
LEMMA GiveBody ==
    ASSUME NEW t
    PROVE  /\ Short(<<Give(t)>>, 2 * MaxChain + 1) /\ Len(<<Give(t)>>) = 1 /\ <<Give(t)>>[1] = Give(t)
           /\ \A D, f : ShownAt(D, f, <<Give(t)>>) => GiveAt(D, f, t)
  <1> PICK g, b : g = Give(t) /\ b = <<g>>
    OBVIOUS
  <1>1. Len(b) = 1 /\ b[1] = g
    OBVIOUS
  <1>2. IsList(b)
    <2>1. IsList(<<g>>)
      BY DEF IsList
    <2> QED
      BY <2>1
  <1>3. g.kw = "output" /\ MaxChain \in Nat
    BY ScanAssumption DEF Give
  <1>4. Short(b, 2 * MaxChain + 1)
    <2>1. Len(b) \in 1..(2 * MaxChain + 1) /\ \A k \in 1..Len(b) : k = 1
      BY <1>1, <1>3
    <2> QED
      BY <1>1, <1>2, <1>3, <2>1 DEF Short, Kinds
  <1>5. ASSUME NEW D, NEW f, ShownAt(D, f, b) PROVE GiveAt(D, f, t)
    <2>1. f \in {1, 3} /\ Len(D) = 1 + f - 1 /\ \A k \in 1..1 : D[k + f - 1] = Directive(b[k])
      BY <1>1, <1>5 DEF ShownAt
    <2>2. 1 \in 1..1 /\ 1 + f - 1 = f
      BY <2>1
    <2>3. D[1 + f - 1] = Directive(b[1])
      BY <2>1, <2>2
    <2> QED
      BY <1>1, <2>1, <2>2, <2>3 DEF GiveAt
  <1> QED
    BY <1>1, <1>4, <1>5

(* The config of one candidate, or of a list of which it is the first.        *)
LEMMA CandSaved ==
    ASSUME ScanInv, FitInv, configs = Begun, NEW i \in DOMAIN cands, NEW picks, i \in picks, picks \subseteq DOMAIN cands,
           picks # {i} => series # None,
           Save(Config(cands[i]), picks)
    PROVE  Formed(Discover)'
  <1> PICK c, p : c = cands[i] /\ p = Discover'
    OBVIOUS
  <1> PICK D : D = p.directives
    OBVIOUS
  <1>1. /\ picked' = picks /\ cands' = cands /\ series' = series
        /\ configs' = [Begun EXCEPT ![ScanFile] = Config(c)]
    BY DEF Save
  <1>2. cands # <<>>
    <2>1. DOMAIN <<>> = {}
      OBVIOUS
    <2> QED
      BY <2>1
  <1>3. CandFit(c) /\ (c.chain # <<>> => IsList(c.chain) /\ Len(c.chain) \in 1..MaxChain)
    BY DEF FitInv, CandFit, ChainFit
  <1>4. Formed(Discover)' <=>
          /\ p # NoConfig /\ IsList(D)
          /\ \/ \E k \in picks : OneForm(D, k)'
             \/ ListForm(D, D[2].arg[1].text)'
             \/ LongForm(D)'
    BY <1>1 DEF Formed
  <1>5. CASE series # None
    <2>1. CASE c.chain = <<>>
      <3> PICK b : b = <<Give(ThisUrl)>>
        OBVIOUS
      <3>1. Config(c) = HeadLines(TRUE) \o (ListLines(series) \o b)
        BY <1>2, <1>5, <2>1 DEF Config
      <3>2. Short(b, 2 * MaxChain + 1) /\ \A E, f : ShownAt(E, f, b) => GiveAt(E, f, ThisUrl)
        BY GiveBody
      <3>3. configs' = [Begun EXCEPT ![ScanFile] = HeadLines(TRUE) \o (ListLines(series) \o b)]
        BY <1>1, <3>1
      <3>4. p # NoConfig /\ IsList(D) /\ Listing(D, series) /\ D[2].arg[1].text = series /\ ShownAt(D, 3, b)
        BY <3>2, <3>3, ListSaved
      <3>5. GiveAt(D, 3, ThisUrl)
        BY <3>2, <3>4
      <3>6. \A k \in picks : picks = {k} => cands'[k].chain = <<>>
        <4>1. \A k : picks = {k} => k = i
          OBVIOUS
        <4> QED
          BY <1>1, <2>1, <4>1
      <3>7. ListForm(D, series)'
        BY <1>1, <3>4, <3>5, <3>6 DEF ListForm
      <3> QED
        BY <1>1, <1>4, <3>4, <3>7
    <2>2. CASE c.chain # <<>>
      <3> PICK b : b = Pipeline(c)
        OBVIOUS
      <3>1. Config(c) = HeadLines(TRUE) \o (ListLines(series) \o b)
        BY <1>2, <1>5, <2>2 DEF Config
      <3>2. /\ Short(b, 2 * MaxChain + 1) /\ b[Len(b)].arg # ThisUrl
            /\ \A E, f : ShownAt(E, f, b) => PipeAt(E, f, c)
        BY <1>3, <2>2, PipeWritten
      <3>3. configs' = [Begun EXCEPT ![ScanFile] = HeadLines(TRUE) \o (ListLines(series) \o b)]
        BY <1>1, <3>1
      <3>4. p # NoConfig /\ IsList(D) /\ Listing(D, series) /\ ShownAt(D, 3, b) /\ Last(D).arg # ThisUrl
        BY <3>2, <3>3, ListSaved
      <3>5. PipeAt(D, 3, c)
        BY <3>2, <3>4
      <3>6. \A k \in picks : picks = {k} => k \in DOMAIN cands' /\ cands'[k].chain # <<>> /\ PipeAt(D, 3, cands'[k])
        <4>1. \A k : picks = {k} => k = i
          OBVIOUS
        <4> QED
          BY <1>1, <2>2, <3>5, <4>1
      <3>7. LongForm(D)'
        BY <1>1, <3>4, <3>6 DEF LongForm
      <3> QED
        BY <1>4, <3>4, <3>7
    <2> QED
      BY <2>1, <2>2
  <1>6. CASE series = None
    <2>0. picks = {i}
      BY <1>6
    <2>1. CASE Len(c.chain) >= 2
      <3> PICK b : b = Pipeline(c)
        OBVIOUS
      <3>1. Config(c) = HeadLines(FALSE) \o b
        BY <1>6, <2>1 DEF Config
      <3>0. c.chain # <<>>
        BY <2>1
      <3>2. Short(b, 2 * MaxChain + 1) /\ \A E, f : ShownAt(E, f, b) => PipeAt(E, f, c)
        BY <1>3, <3>0, PipeWritten
      <3>3. p # NoConfig /\ IsList(D) /\ ShownAt(D, 1, b)
        BY <1>1, <3>1, <3>2, PlainSaved
      <3>4. PipeAt(D, 1, c)
        BY <3>2, <3>3
      <3>5. OneForm(D, i)'
        BY <1>1, <1>6, <2>0, <3>0, <3>4 DEF OneForm
      <3> QED
        BY <1>4, <3>3, <3>5
    <2>2. CASE ~(Len(c.chain) >= 2)
      <3> PICK t : t = <<Lit(TextOf(c.url))>>
        OBVIOUS
      <3> PICK b : b = <<Give(t)>>
        OBVIOUS
      <3>1. Config(c) = HeadLines(FALSE) \o b
        BY <1>6, <2>2 DEF Config
      <3>2. Short(b, 2 * MaxChain + 1) /\ \A E, f : ShownAt(E, f, b) => GiveAt(E, f, t)
        BY GiveBody
      <3>3. p # NoConfig /\ IsList(D) /\ ShownAt(D, 1, b)
        BY <1>1, <3>1, <3>2, PlainSaved
      <3>4. GiveAt(D, 1, <<Lit(TextOf(c.url))>>)
        BY <3>2, <3>3
      <3>5. OneForm(D, i)'
        BY <1>1, <2>0, <3>4 DEF OneForm
      <3> QED
        BY <1>4, <3>3, <3>5
    <2> QED
      BY <2>1, <2>2
  <1> QED
    BY <1>5, <1>6

(* The skeleton.                                                              *)
LEMMA StubSaved ==
    ASSUME configs = Begun, cands = <<>>, series # None, Save(Config(None), {})
    PROVE  Formed(Discover)'
  <1> PICK p : p = Discover'
    OBVIOUS
  <1> PICK D : D = p.directives
    OBVIOUS
  <1> PICK ch : ch = <<[ere |-> <<"src=">>, sample |-> None]>>
    OBVIOUS
  <1>1. IsList(ch) /\ Len(ch) = 1 /\ Len(ch) \in Nat \ {0} /\ Len(ch) \in 1..MaxChain
    <2> PICK x : x = [ere |-> <<"src=">>, sample |-> None]
      OBVIOUS
    <2>1. IsList(<<x>>) /\ Len(<<x>>) = 1
      BY DEF IsList
    <2>2. MaxChain \in Nat \ {0}
      BY ScanAssumption
    <2> QED
      BY <2>1, <2>2
  <1> PICK b : b = Stub
    OBVIOUS
  <1>2. ChainBody(b, ch)
    BY <1>1, ChainWritten DEF Stub
  <1>3. Short(b, 2 * MaxChain + 1) /\ b[Len(b)].arg # ThisUrl
    BY <1>1, <1>2, ChainShort
  <1>4. Config(None) = HeadLines(TRUE) \o (ListLines(series) \o b)
    BY DEF Config
  <1>5. picked' = {} /\ configs' = [Begun EXCEPT ![ScanFile] = Config(None)] /\ series' = series
    BY DEF Save
  <1>6. p # NoConfig /\ IsList(D) /\ Listing(D, series) /\ Last(D).arg # ThisUrl
    BY <1>3, <1>4, <1>5, ListSaved
  <1>7. LongForm(D)'
    BY <1>5, <1>6 DEF LongForm
  <1> QED
    BY <1>6, <1>7 DEF Formed

(* Those that were chosen.                                                    *)
LEMMA ChosenSaved ==
    ASSUME ScanInv, configs = Begun, NEW picks \in SUBSET DOMAIN cands, picks # {}, NEW o \in InOrder(picks),
           Save(ConfigOf(o), picks)
    PROVE  Formed(Discover)'
  <1> PICK p : p = Discover'
    OBVIOUS
  <1> PICK D : D = p.directives
    OBVIOUS
  <1>1. /\ picked' = picks /\ cands' = cands /\ series' = series
        /\ configs' = [Begun EXCEPT ![ScanFile] = ConfigOf(o)]
    BY DEF Save
  <1> PICK m : m = Cardinality(picks)
    OBVIOUS
  <1>2. IsFiniteSet(picks) /\ m \in Nat /\ m # 0
    <2>1. DOMAIN cands = 1..Len(cands) /\ Len(cands) \in Nat
      BY ListIsSeq DEF ScanInv, CandsRight
    <2>2. IsFiniteSet(1..Len(cands))
      BY <2>1, FS_Interval
    <2>3. IsFiniteSet(picks)
      BY <2>1, <2>2, FS_Subset
    <2> QED
      BY <2>3, FS_CardinalityType, FS_EmptySet
  <1>3. o \in [1..m -> picks] /\ Len(o) = m /\ DOMAIN o = 1..m
    BY <1>2 DEF InOrder
  <1>4. CASE m = 1
    <2> PICK i : i = o[1]
      OBVIOUS
    <2>1. picks = {i}
      <3>1. i \in picks
        BY <1>3, <1>4
      <3>2. PICK x : picks = {x}
        BY <1>2, <1>4, FS_Singleton
      <3> QED
        BY <3>1, <3>2
    <2> PICK t : t = <<Lit(TextOf(cands[i].url))>>
      OBVIOUS
    <2> PICK b : b = <<Give(t)>>
      OBVIOUS
    <2>2. ConfigOf(o) = HeadLines(TRUE) \o b
      BY <1>3, <1>4 DEF ConfigOf
    <2>3. Short(b, 2 * MaxChain + 1) /\ \A E, f : ShownAt(E, f, b) => GiveAt(E, f, t)
      BY GiveBody
    <2>4. p # NoConfig /\ IsList(D) /\ ShownAt(D, 1, b)
      BY <1>1, <2>2, <2>3, PlainSaved
    <2>5. GiveAt(D, 1, <<Lit(TextOf(cands[i].url))>>)
      BY <2>3, <2>4
    <2>6. OneForm(D, i)'
      BY <1>1, <2>1, <2>5 DEF OneForm
    <2> QED
      BY <1>1, <2>1, <2>4, <2>6 DEF Formed
  <1>5. CASE m # 1
    <2> PICK b, ere : b = <<Give(ThisUrl)>> /\ ere = AnyEre([k \in DOMAIN o |-> RawRef(cands[o[k]])])
      OBVIOUS
    <2>1. ConfigOf(o) = HeadLines(TRUE) \o (ListLines(ere) \o b)
      BY <1>3, <1>5 DEF ConfigOf
    <2>2. Short(b, 2 * MaxChain + 1) /\ \A E, f : ShownAt(E, f, b) => GiveAt(E, f, ThisUrl)
      BY GiveBody
    <2>3. configs' = [Begun EXCEPT ![ScanFile] = HeadLines(TRUE) \o (ListLines(ere) \o b)]
      BY <1>1, <2>1
    <2>4. p # NoConfig /\ IsList(D) /\ Listing(D, ere) /\ D[2].arg[1].text = ere /\ ShownAt(D, 3, b)
      BY <2>2, <2>3, ListSaved
    <2>5. GiveAt(D, 3, ThisUrl)
      BY <2>2, <2>4
    <2>6. \A k \in picks : picks # {k}
      <3>1. \A k : Cardinality({k}) = 1
        BY FS_Singleton
      <3> QED
        BY <1>5, <3>1
    <2>7. ListForm(D, ere)'
      <3>1. \E r \in InOrder(picks) : ere = AnyEre([k \in DOMAIN r |-> RawRef(cands[r[k]])])
        OBVIOUS
      <3>2. (\E r \in InOrder(picked) : ere = AnyEre([k \in DOMAIN r |-> RawRef(cands[r[k]])]))'
        BY <1>1, <3>1 DEF RawRef
      <3> QED
        BY <1>1, <2>4, <2>5, <2>6, <3>2 DEF ListForm
    <2> QED
      BY <1>1, <2>4, <2>7 DEF Formed
  <1> QED
    BY <1>4, <1>5

LEMMA SavedFormed ==
    ASSUME ScanInv, FitInv, configs = Begun, SaveTop \/ SaveChosen
    PROVE  Formed(Discover)'
  <1>1. CASE SaveTop
    <2>1. CASE \E i \in DOMAIN cands : Save(Config(cands[i]), {i})
      <3> PICK i \in DOMAIN cands : Save(Config(cands[i]), {i})
        BY <2>1
      <3> PICK s : s = {i}
        OBVIOUS
      <3>1. i \in s /\ s \subseteq DOMAIN cands /\ Save(Config(cands[i]), s)
        OBVIOUS
      <3> QED
        BY <3>1, CandSaved
    <2> QED
      BY <1>1, <2>1, StubSaved DEF SaveTop
  <1>2. CASE SaveChosen
    <2>1. PICK s \in (SUBSET DOMAIN cands) \ {{}} :
               IF s = DOMAIN cands /\ series # None THEN \E i \in s : Save(Config(cands[i]), s)
               ELSE \E o \in InOrder(s) : Save(ConfigOf(o), s)
      BY <1>2 DEF SaveChosen
    <2>2. CASE s = DOMAIN cands /\ series # None
      <3> PICK i \in s : Save(Config(cands[i]), s)
        BY <2>1, <2>2
      <3>1. i \in DOMAIN cands /\ i \in s /\ s \subseteq DOMAIN cands
        OBVIOUS
      <3> QED
        BY <2>2, <3>1, CandSaved
    <2>3. CASE ~(s = DOMAIN cands /\ series # None)
      <3> PICK o \in InOrder(s) : Save(ConfigOf(o), s)
        BY <2>1, <2>3
      <3> QED
        <4>1. s \in SUBSET DOMAIN cands /\ s # {} /\ o \in InOrder(s) /\ Save(ConfigOf(o), s)
          OBVIOUS
        <4> QED
          BY <4>1, ChosenSaved
    <2> QED
      BY <2>2, <2>3
  <1> QED
    BY <1>1, <1>2

(* A variable more.                                                           *)
Gains(st, st2, name, v) ==
    /\ DOMAIN st2 = DOMAIN st \cup {name} /\ st2[name] = v
    /\ \A x \in DOMAIN st : x # name => st2[x] = st[x]

LEMMA SetGains ==
    ASSUME NEW name, NEW v, Set(name, v)
    PROVE  Gains(store, store', name, v)
  BY DEF Set, Gains

(* The names in a pipeline are different.                                     *)
LEMMA NamesApart ==
    /\ \A k, j \in 1..4 : PageVar[k] = PageVar[j] => k = j
    /\ \A k, j \in 1..3 : LinkVar[k] = LinkVar[j] => k = j
    /\ \A k \in 1..4, j \in 1..3 : PageVar[k] # LinkVar[j]
    /\ \A k \in 1..4 : PageVar[k] \notin {"url", "media"}
    /\ \A k \in 1..3 : LinkVar[k] \notin {"url", "media"}
  <1>1. /\ PageVar[1] = "page0" /\ PageVar[2] = "page1" /\ PageVar[3] = "page2" /\ PageVar[4] = "page3"
        /\ LinkVar[1] = "link0" /\ LinkVar[2] = "link1" /\ LinkVar[3] = "link2"
    BY DEF PageVar, LinkVar
  <1>2. \A k \in 1..4 : k = 1 \/ k = 2 \/ k = 3 \/ k = 4
    OBVIOUS
  <1>3. \A k \in 1..3 : k = 1 \/ k = 2 \/ k = 3
    OBVIOUS
  <1>4. \A k, j \in 1..4 : PageVar[k] = PageVar[j] => k = j
    BY <1>1, <1>2
  <1>5. \A k, j \in 1..3 : LinkVar[k] = LinkVar[j] => k = j
    BY <1>1, <1>3
  <1>6. \A k \in 1..4, j \in 1..3 : PageVar[k] # LinkVar[j]
    BY <1>1, <1>2, <1>3
  <1>7. \A k \in 1..4 : PageVar[k] \notin {"url", "media"}
    BY <1>1, <1>2
  <1>8. \A k \in 1..3 : LinkVar[k] \notin {"url", "media"}
    BY <1>1, <1>3
  <1> QED
    BY <1>4, <1>5, <1>6, <1>7, <1>8

LEMMA UpToFour ==
    ASSUME NEW n \in 1..4
    PROVE  (\A k \in 1..n : k \in 1..4) /\ (\A k \in 1..(n - 1) : k \in 1..3)
  OBVIOUS

LEMMA OddOrEven ==
    ASSUME NEW n \in 1..4, NEW p \in 1..(2 * n)
    PROVE  \E k \in 1..n : p = 2 * k - 1 \/ p = 2 * k
  <1>1. n = 1 \/ n = 2 \/ n = 3 \/ n = 4
    OBVIOUS
  <1> PICK k : k = (p + 1) \div 2
    OBVIOUS
  <1>2. k \in 1..n /\ (p = 2 * k - 1 \/ p = 2 * k)
    BY <1>1
  <1> QED
    BY <1>2

(* What the q-th directive of a chain sets.                                   *)
Sets(c, q, name, v) ==
    LET n == Len(c.chain)  way == Way(page0, c.chain)
    IN  /\ \A k \in 1..n : 2 * k - 1 = q => name = PageVar[k] /\ v = site[way[k]]
        /\ \A k \in 1..(n - 1) : 2 * k = q => name = LinkVar[k] /\ v = Captures(c.chain[k].ere, site[way[k]])[1]
        /\ 2 * n = q => name = "media" /\ v = Ending(c)[1]

LEMMA ChainGains ==
    ASSUME NEW c, Len(c.chain) \in 1..4, NEW q, NEW st, NEW st2, NEW name, NEW v,
           ChainStore(c, q, st), q < 2 * Len(c.chain), Gains(st, st2, name, v), Sets(c, q + 1, name, v)
    PROVE  ChainStore(c, q + 1, st2)
  <1> PICK n, way, p : n = Len(c.chain) /\ way = Way(page0, c.chain) /\ p = q + 1
    OBVIOUS
  <1>1. /\ n \in 1..4 /\ q \in 0..(2 * n) /\ p \in 1..(2 * n) /\ q = p - 1
        /\ IsFiniteSet(DOMAIN st) /\ Cardinality(DOMAIN st) <= p
        /\ "url" \in DOMAIN st /\ st["url"] = TextOf(page0)
    BY DEF ChainStore
  <1>16. n \in 1..4
    BY <1>1
  <1>17. \A k \in 1..n : k \in 1..4
    BY <1>16, UpToFour
  <1>18. \A k \in 1..(n - 1) : k \in 1..3
    BY <1>16, UpToFour
  <1>19. \A k \in 1..n : PageVar[k] # "url" /\ PageVar[k] # "media"
    BY <1>17, NamesApart
  <1>20. \A k \in 1..(n - 1) : LinkVar[k] # "url" /\ LinkVar[k] # "media"
    BY <1>18, NamesApart
  <1>21. \A k \in 1..n, j \in 1..(n - 1) : PageVar[k] # LinkVar[j]
    BY <1>17, <1>18, NamesApart
  <1>22. \A k, j \in 1..n : PageVar[k] = PageVar[j] => k = j
    BY <1>17, NamesApart
  <1>23. \A k, j \in 1..(n - 1) : LinkVar[k] = LinkVar[j] => k = j
    BY <1>18, NamesApart
  <1>2. \A k \in 1..n : 2 * k - 1 <= q => PageVar[k] \in DOMAIN st /\ st[PageVar[k]] = site[way[k]]
    BY DEF ChainStore
  <1>3. \A k \in 1..(n - 1) : 2 * k <= q => LinkVar[k] \in DOMAIN st /\ st[LinkVar[k]] = Captures(c.chain[k].ere, site[way[k]])[1]
    BY DEF ChainStore
  <1>4. DOMAIN st2 = DOMAIN st \cup {name} /\ st2[name] = v /\ \A x \in DOMAIN st : x # name => st2[x] = st[x]
    BY DEF Gains
  <1>5. \A k \in 1..n : 2 * k - 1 = p => name = PageVar[k] /\ v = site[way[k]]
    BY DEF Sets
  <1>6. \A k \in 1..(n - 1) : 2 * k = p => name = LinkVar[k] /\ v = Captures(c.chain[k].ere, site[way[k]])[1]
    BY DEF Sets
  <1>7. 2 * n = p => name = "media" /\ v = Ending(c)[1]
    BY DEF Sets
  <1>8. (\E k \in 1..n : 2 * k - 1 = p) \/ (\E k \in 1..(n - 1) : 2 * k = p) \/ 2 * n = p
    <2>1. \E k \in 1..n : p = 2 * k - 1 \/ p = 2 * k
      <3>1. p \in 1..(2 * n)
        BY <1>1
      <3> QED
        BY Zenon, <1>16, <3>1, OddOrEven
    <2> PICK k \in 1..n : p = 2 * k - 1 \/ p = 2 * k
      BY <2>1
    <2>2. k = n \/ k \in 1..(n - 1)
      BY <1>1
    <2> QED
      BY <2>2
  <1>9. name # "url"
    BY <1>5, <1>6, <1>7, <1>8, <1>19, <1>20
  <1>10. ASSUME NEW k \in 1..n, 2 * k - 1 <= p PROVE PageVar[k] \in DOMAIN st2 /\ st2[PageVar[k]] = site[way[k]]
    <2>1. CASE 2 * k - 1 = p
      BY <1>4, <1>5, <2>1
    <2>2. CASE 2 * k - 1 # p
      <3>1. 2 * k - 1 <= q
        BY <1>1, <1>10, <2>2
      <3>2. PageVar[k] # name
        <4>1. \A j \in 1..n : 2 * j - 1 = p => PageVar[j] # PageVar[k]
          BY <2>2, <1>22
        <4>2. CASE \E j \in 1..n : 2 * j - 1 = p
          BY <1>5, <4>1, <4>2, Zenon
        <4>3. CASE \E j \in 1..(n - 1) : 2 * j = p
          BY <1>6, <1>21, <4>3, Zenon
        <4>4. CASE 2 * n = p
          BY <1>7, <1>19, <4>4, Zenon
        <4> QED
          BY <1>8, <4>2, <4>3, <4>4, Zenon
      <3> QED
        BY <1>2, <1>4, <3>1, <3>2
    <2> QED
      BY <2>1, <2>2
  <1>11. ASSUME NEW k \in 1..(n - 1), 2 * k <= p
         PROVE  LinkVar[k] \in DOMAIN st2 /\ st2[LinkVar[k]] = Captures(c.chain[k].ere, site[way[k]])[1]
    <2>1. CASE 2 * k = p
      BY <1>4, <1>6, <2>1
    <2>2. CASE 2 * k # p
      <3>1. 2 * k <= q
        BY <1>1, <1>11, <2>2
      <3>2. LinkVar[k] # name
        <4>1. \A j \in 1..(n - 1) : 2 * j = p => LinkVar[j] # LinkVar[k]
          BY <2>2, <1>23
        <4>2. \A j \in 1..n : PageVar[j] # LinkVar[k]
          BY <1>21
        <4>3. LinkVar[k] # "media"
          BY <1>20
        <4> QED
          BY <1>5, <1>6, <1>7, <1>8, <4>1, <4>2, <4>3
      <3> QED
        BY <1>3, <1>4, <3>1, <3>2
    <2> QED
      BY <2>1, <2>2
  <1>12. 2 * n <= p => "media" \in DOMAIN st2 /\ st2["media"] = Ending(c)[1]
    BY <1>1, <1>4, <1>7
  <1>13. IsFiniteSet(DOMAIN st2) /\ Cardinality(DOMAIN st2) <= p + 1
    <2>1. IsFiniteSet(DOMAIN st \cup {name})
      BY <1>1, FS_AddElement
    <2>2. \/ Cardinality(DOMAIN st \cup {name}) = Cardinality(DOMAIN st) + 1
          \/ Cardinality(DOMAIN st \cup {name}) = Cardinality(DOMAIN st)
      BY <1>1, FS_AddElement
    <2>3. Cardinality(DOMAIN st) \in Nat /\ p \in Nat
      BY <1>1, FS_CardinalityType
    <2> QED
      BY <1>1, <1>4, <2>1, <2>2, <2>3
  <1>14. "url" \in DOMAIN st2 /\ st2["url"] = TextOf(page0)
    BY <1>1, <1>4, <1>9
  <1>15. p \in 0..(2 * n)
    BY <1>1
  <1> QED
    BY <1>10, <1>11, <1>12, <1>13, <1>14, <1>15 DEF ChainStore

(* What a directive has.                                                      *)
LEMMA GetHas ==
    ASSUME NEW n, NEW u
    PROVE  LET d == Directive(Get(n, u)) IN d.kw = "get" /\ d.name = n /\ d.arg = u
  BY DEF Directive, Get

LEMMA TakeHas ==
    ASSUME NEW kw, NEW n, NEW from, NEW p
    PROVE  LET d == Directive(Take(kw, n, from, p))
           IN  d.kw = kw /\ d.name = n /\ d.source = from /\ d.arg = <<Lit(p)>>
  BY DEF Directive, Take

LEMMA GiveHas ==
    ASSUME NEW t
    PROVE  LET d == Directive(Give(t)) IN d.kw = "output" /\ d.arg = t
  BY DEF Directive, Give

(* A get of a page, a var that finds something, and an output.                *)
LEMMA GetGains ==
    ASSUME NEW n, NEW u, Here = Directive(Get(n, u)), Evaluate
    PROVE  Gains(store, store', n, site[Target(u, store)])
  <1>1. Here.kw = "get" /\ Here.name = n /\ Here.arg = u
    BY GetHas
  <1>2. Set(n, site[Target(u, store)])
    BY <1>1 DEF Evaluate
  <1> QED
    BY <1>2, SetGains

LEMMA TakeGains ==
    ASSUME NEW n, NEW from, NEW p, Here = Directive(Take("var", n, from, p)), Evaluate
    PROVE  Gains(store, store', n, Captures(p, store[from])[1])
  <1>1. Here.kw = "var" /\ Here.name = n /\ Here.source = from /\ Here.arg = <<Lit(p)>>
    BY TakeHas
  <1>2. Interpolate(<<Lit(p)>>, store) = p
    BY LitText
  <1>3. Set(n, Captures(p, store[from])[1])
    BY <1>1, <1>2 DEF Evaluate
  <1> QED
    BY <1>3, SetGains

LEMMA TakeWorks ==
    ASSUME NEW n, NEW from, NEW p, Here = Directive(Take("var", n, from, p)),
           from \in DOMAIN store, Captures(p, store[from]) # <<>>,
           Cardinality(DOMAIN store) \in Nat, Cardinality(DOMAIN store) < MaxVars
    PROVE  VarWorks
  <1>1. Here.kw = "var" /\ Here.name = n /\ Here.source = from /\ Here.arg = <<Lit(p)>>
    BY TakeHas
  <1>2. Interpolate(<<Lit(p)>>, store) = p /\ Names(<<Lit(p)>>) = {}
    BY LitText
  <1>3. ~Undefined(Here.arg)
    BY <1>1, <1>2 DEF Undefined
  <1>4. ~Full(n)
    BY ScanAssumption, ExtractorAssumption DEF Full
  <1> QED
    BY <1>1, <1>2, <1>3, <1>4 DEF VarWorks

LEMMA SomeFound ==
    ASSUME NEW s, NEW x, Contains(s, x)
    PROVE  s # <<>>
  BY DEF Contains

(* Where the next directive of a pipeline leads.                              *)
Proceeds(f, c) ==
    /\ Here.kw \in {"get", "var", "output"}
    /\ Here.kw = "var" => VarWorks
    /\ Here.kw = "output" => ~Undefined(Here.arg) /\ Target(Here.arg, store) = c.url
    /\ Here.kw # "output" /\ Evaluate => at + 1 <= Len(ex.directives) /\ PipeStore(c, at - f + 1, store')

LEMMA HandleProceeds ==
    ASSUME NEW f \in Nat, NEW c, HandleAt(ex.directives, f, c), HandleFit(c), c.param # None,
           Web(page0), Web(c.url), Expressible(c), c.chain # <<>>, Piped(f, c)
    PROVE  Proceeds(f, c)
  <1> PICK q, t, ere, last : /\ q = at - f /\ t = c.param.token
                             /\ ere = HandleEre(c.param.token, ExtOf(c.url)) /\ last = <<Last(c.url.path)>>
    OBVIOUS
  <1>1. q \in 0..2 /\ at = f + q /\ HandleStore(c, q, store)
    <2>1. at - f \in Nat /\ HandleStore(c, at - f, store)
      BY DEF Piped, PipeStore
    <2>2. HandleStore(c, q, store) /\ q \in 0..2
      BY <2>1 DEF HandleStore
    <2>3. at = f + q
      BY DEF Piped
    <2> QED
      BY <2>2, <2>3
  <1>2. Captures(ere, site[page0])[1] = last /\ Captures(ere, site[page0]) # <<>>
    <2>1. Contains(Captures(ere, site[page0]), last)
      BY DEF HandleFit
    <2>2. Captures(ere, site[page0])[1] = last
      BY DEF Expressible
    <2> QED
      BY <2>1, <2>2, SomeFound
  <1>3. PageVar[1] = "page0" /\ t # None
    BY NoNames DEF PageVar, HandleFit
  <1>4. Len(ex.directives) = f + 2
    BY DEF HandleAt
  <1>5. CASE q = 0
    <2>1. Here = Directive(Get("page0", ThisUrl))
      BY <1>1, <1>3, <1>5 DEF Here, HandleAt
    <2>2. Here.kw = "get"
      BY <2>1, GetHas
    <2>3. store = OnlyUrl(page0)
      BY <1>1, <1>5 DEF HandleStore
    <2>4. DOMAIN store = {"url"} /\ store["url"] = TextOf(page0)
      BY <2>3 DEF OnlyUrl
    <2>5. Target(ThisUrl, store) = page0
      BY <2>4, TargetUrl
    <2>6. ASSUME Evaluate PROVE HandleStore(c, 1, store')
      <3>1. Gains(store, store', "page0", site[page0])
        BY <2>1, <2>5, <2>6, GetGains
      <3> QED
        BY <1>3, <2>4, <3>1 DEF HandleStore, Gains
    <2>7. at + 1 <= Len(ex.directives) /\ at - f + 1 = 1
      BY <1>1, <1>4, <1>5
    <2> QED
      BY <2>2, <2>6, <2>7 DEF Proceeds, PipeStore
  <1>6. CASE q = 1
    <2>1. Here = Directive(Take("var", t, "page0", ere))
      <3>1. at = f + 1
        BY <1>1, <1>6
      <3> QED
        BY <1>3, <3>1 DEF Here, HandleAt
    <2>2. Here.kw = "var"
      BY <2>1, TakeHas
    <2>3. DOMAIN store = {"url", "page0"} /\ store["page0"] = site[page0]
      BY <1>1, <1>3, <1>6 DEF HandleStore
    <2>4. Cardinality(DOMAIN store) \in Nat /\ Cardinality(DOMAIN store) < MaxVars
      <3>1. Cardinality({"url", "page0"}) = 2
        <4>1. IsFiniteSet({"url"}) /\ Cardinality({"url"}) = 1
          BY FS_Singleton
        <4>2. "page0" \notin {"url"}
          OBVIOUS
        <4>3. Cardinality({"url"} \cup {"page0"}) = Cardinality({"url"}) + 1
          BY <4>1, <4>2, FS_AddElement
        <4>4. {"url"} \cup {"page0"} = {"url", "page0"}
          OBVIOUS
        <4> QED
          BY <4>1, <4>3, <4>4
      <3>2. MaxChain \in Nat \ {0} /\ MaxVars \in Nat /\ MaxVars >= 2 * MaxChain + 1
        BY ScanAssumption, ExtractorAssumption
      <3> QED
        BY <2>3, <3>1, <3>2
    <2>5. VarWorks
      BY <1>2, <2>1, <2>3, <2>4, TakeWorks
    <2>6. ASSUME Evaluate PROVE HandleStore(c, 2, store')
      <3>1. Gains(store, store', t, last)
        BY <1>2, <2>1, <2>3, <2>6, TakeGains
      <3> QED
        BY <3>1 DEF HandleStore, Gains
    <2>7. at + 1 <= Len(ex.directives) /\ at - f + 1 = 2
      BY <1>1, <1>4, <1>6
    <2> QED
      BY <2>2, <2>5, <2>6, <2>7 DEF Proceeds, PipeStore
  <1>7. CASE q = 2
    <2>1. Here = Directive(Give(<<Lit(c.param.base), Var(t)>>))
      <3>1. at = f + 2
        BY <1>1, <1>7
      <3> QED
        BY <3>1 DEF Here, HandleAt
    <2>2. Here.kw = "output" /\ Here.arg = <<Lit(c.param.base), Var(t)>>
      BY <2>1, GiveHas
    <2>3. t \in DOMAIN store /\ store[t] = <<Last(c.url.path)>>
      BY <1>1, <1>7 DEF HandleStore
    <2>4. c.param.base = TextOf([c.url EXCEPT !.path = Front(@)]) /\ c.url.path # <<>>
      BY DEF HandleFit
    <2> PICK u, b : u = c.url /\ b = c.param.base
      OBVIOUS
    <2>5. Target(<<Lit(b), Var(t)>>, store) = u /\ Names(<<Lit(b), Var(t)>>) = {t}
      BY <1>3, <2>3, <2>4, TargetHandle
    <2> QED
      BY <2>2, <2>3, <2>5 DEF Proceeds, Undefined
  <1> QED
    BY <1>1, <1>5, <1>6, <1>7

(* A chain that is short enough leads somewhere.                              *)
LEMMA WayRuns ==
    ASSUME NEW start, NEW chain, Len(chain) \in 1..4
    PROVE  /\ Way(start, chain)[1] = start
           /\ \A k \in 1..Len(chain) : Way(start, chain)[k + 1] = Resolve(Way(start, chain)[k], RefOf(chain[k].sample))
  <1> DEFINE next(k, u) == Resolve(u, RefOf(chain[k].sample))
             n == Len(chain)
             On(h) == [k \in 1..(n + 1) |-> IF k = 1 THEN start ELSE next(k - 1, h[k - 1])]
             c == CHOOSE h : h = On(h)
  <1>1. Way(start, chain) = c
    BY DEF Way
  <1> HIDE DEF next
  <1> PICK m : m = n
    OBVIOUS
  <1>2. \E h : h = On(h)
    <2> PICK b, d, e, f : b = next(1, start) /\ d = next(2, b) /\ e = next(3, d) /\ f = next(4, e)
      OBVIOUS
    <2> DEFINE all == <<start, b, d, e, f>>
               h == [k \in 1..(m + 1) |-> all[k]]
    <2>1. ASSUME NEW k \in 1..(m + 1) PROVE h[k] = IF k = 1 THEN start ELSE next(k - 1, h[k - 1])
      <3>1. k = 1 \/ (k \in {2, 3, 4, 5} /\ k - 1 \in 1..(m + 1))
        OBVIOUS
      <3>2. h[k] = all[k] /\ (k # 1 => h[k - 1] = all[k - 1])
        BY <3>1
      <3>3. all[1] = start /\ all[2] = next(1, all[1]) /\ all[3] = next(2, all[2]) /\ all[4] = next(3, all[3])
            /\ all[5] = next(4, all[4])
        OBVIOUS
      <3> HIDE DEF all, h
      <3> QED
        BY <3>1, <3>2, <3>3
    <2>2. h = [k \in 1..(m + 1) |-> h[k]]
      OBVIOUS
    <2> HIDE DEF h
    <2>3. h = [k \in 1..(m + 1) |-> IF k = 1 THEN start ELSE next(k - 1, h[k - 1])]
      BY <2>1, <2>2
    <2> QED
      BY <2>3
  <1>3. c = On(c)
    BY <1>2
  <1> HIDE DEF c
  <1>4. \A k \in 1..(m + 1) : c[k] = IF k = 1 THEN start ELSE next(k - 1, c[k - 1])
    BY <1>3
  <1>5. c[1] = start
    BY <1>4
  <1>6. \A k \in 1..m : c[k + 1] = next(k, c[k])
    BY <1>4
  <1> QED
    BY <1>1, <1>5, <1>6 DEF next

(* What is known of a chain that can be written down.                         *)
ChainGood(c, n, way) ==
    /\ n \in 1..4 /\ MaxVars \in Nat /\ 2 * n < MaxVars
    /\ way[1] = page0 /\ way[n + 1] = c.url
    /\ \A k \in 1..n : Captures(c.chain[k].ere, site[way[k]]) # <<>>
    /\ \A k \in 1..n : Resolve(page0, RefOf(Captures(c.chain[k].ere, site[way[k]])[1])) = way[k + 1]
    /\ Last(c.chain).ere = c.chain[n].ere
    /\ Ending(c) = Captures(c.chain[n].ere, site[way[n]])

LEMMA RoomLeft ==
    ASSUME NEW m \in Nat, m <= 4, NEW n \in 1..m, NEW v \in Nat, v >= 2 * m + 1
    PROVE  n \in 1..4 /\ 2 * n < v
  <1>1. n <= m /\ 2 * n <= 2 * m
    OBVIOUS
  <1> QED
    BY <1>1

LEMMA ChainIsGood ==
    ASSUME NEW c, ChainFit(c), Leads(c), Straight(c), Web(c.url)
    PROVE  ChainGood(c, Len(c.chain), Way(page0, c.chain))
  <1> PICK n, way, s : n = Len(c.chain) /\ way = Way(page0, c.chain) /\ s = Last(c.chain)
    OBVIOUS
  <1>1. IsList(c.chain) /\ n \in 1..MaxChain /\ MaxChain \in Nat /\ MaxChain <= 4 /\ MaxVars \in Nat
        /\ MaxVars >= 2 * MaxChain + 1
    BY ScanAssumption, ExtractorAssumption DEF ChainFit
  <1>2. n \in 1..4 /\ 2 * n < MaxVars
    BY Zenon, <1>1, RoomLeft
  <1>3. s = c.chain[n]
    BY DEF Last
  <1>4. /\ way[1] = page0
        /\ \A k \in 1..n : way[k + 1] = Resolve(way[k], RefOf(c.chain[k].sample))
    <2>1. Len(c.chain) \in 1..4
      BY <1>2
    <2> QED
      BY <2>1, WayRuns
  <1>5. way[n + 1] = c.url
    <2>1. way[n + 1] = Resolve(way[n], RefOf(s.sample))
      <3>1. n \in 1..n
        BY <1>2
      <3> QED
        BY <3>1, <1>3, <1>4
    <2>2. s.sample = TextOf(c.url)
      BY DEF ChainFit
    <2>3. RefOf(TextOf(c.url)) = Absolute(c.url)
      BY TextRight
    <2> QED
      BY <2>1, <2>2, <2>3, AbsoluteUrl
  <1>6. Ending(c) = Captures(s.ere, site[way[n]])
    BY DEF Ending
  <1>7. \A k \in 1..n : Captures(c.chain[k].ere, site[way[k]]) # <<>>
    BY DEF Straight
  <1>8. \A k \in 1..n : Resolve(page0, RefOf(Captures(c.chain[k].ere, site[way[k]])[1])) = way[k + 1]
    BY DEF Straight
  <1> QED
    BY <1>1, <1>2, <1>3, <1>4, <1>5, <1>6, <1>7, <1>8 DEF ChainGood

LEMMA Halves ==
    ASSUME NEW n \in Nat, NEW k \in 1..n
    PROVE  /\ \A j \in 1..n : (2 * j - 1 = 2 * k - 1 => j = k) /\ 2 * j - 1 # 2 * k
           /\ \A j \in 1..(n - 1) : (2 * j = 2 * k => j = k) /\ 2 * j # 2 * k - 1 /\ 2 * j # 2 * n
           /\ 2 * n # 2 * k - 1
           /\ k \in 1..(n - 1) => 2 * n # 2 * k
  OBVIOUS

LEMMA SetsOf ==
    ASSUME NEW c, Len(c.chain) \in Nat, NEW k \in 1..Len(c.chain)
    PROVE  LET n == Len(c.chain)  way == Way(page0, c.chain)
           IN  /\ Sets(c, 2 * k - 1, PageVar[k], site[way[k]])
               /\ k \in 1..(n - 1) => Sets(c, 2 * k, LinkVar[k], Captures(c.chain[k].ere, site[way[k]])[1])
               /\ Sets(c, 2 * n, "media", Ending(c)[1])
  <1> PICK n, way : n = Len(c.chain) /\ way = Way(page0, c.chain)
    OBVIOUS
  <1>1. n \in Nat /\ k \in 1..n /\ n \in 1..n
    OBVIOUS
  <1>2. Sets(c, 2 * k - 1, PageVar[k], site[way[k]])
    BY <1>1, Halves DEF Sets
  <1>3. k \in 1..(n - 1) => Sets(c, 2 * k, LinkVar[k], Captures(c.chain[k].ere, site[way[k]])[1])
    BY <1>1, Halves DEF Sets
  <1>4. Sets(c, 2 * n, "media", Ending(c)[1])
    BY <1>1, Halves DEF Sets
  <1> QED
    BY <1>2, <1>3, <1>4

(* What comes next in a chain.                                                *)
GetStage(c, q, n, way) ==
    \E k \in 1..n :
        /\ q = 2 * k - 2
        /\ \E u : Here = Directive(Get(PageVar[k], u)) /\ Target(u, store) = way[k]

TakeStage(c, q, n, way) ==
    \E k \in 1..n :
        /\ q = 2 * k - 1
        /\ \/ k = n /\ Here = Directive(Take("var", "media", PageVar[n], c.chain[n].ere))
           \/ k \in 1..(n - 1) /\ Here = Directive(Take("var", LinkVar[k], PageVar[k], c.chain[k].ere))

GiveStage(q, n) == q = 2 * n /\ Here = Directive(Give(<<Var("media")>>))

LEMMA StageParts ==
    ASSUME NEW n \in 1..4, NEW q \in 0..(2 * n)
    PROVE  \/ q = 0 \/ q = 2 * n
           \/ \E k \in 1..n : q = 2 * k - 1
           \/ \E k \in 1..(n - 1) : q = 2 * k
  <1>1. n = 1 \/ n = 2 \/ n = 3 \/ n = 4
    OBVIOUS
  <1>2. CASE q # 0
    <2>1. q \in 1..(2 * n)
      BY <1>2
    <2>2. \E k \in 1..n : q = 2 * k - 1 \/ q = 2 * k
      BY <2>1, OddOrEven
    <2> QED
      BY <2>2
  <1> QED
    BY <1>2

LEMMA NextPlace ==
    ASSUME NEW n \in 1..4
    PROVE  /\ 1 \in 1..n /\ 0 = 2 * 1 - 2
           /\ \A k \in 1..(n - 1) : k \in 1..n /\ k \in 1..3 /\ k + 1 \in 1..n /\ 2 * k = 2 * (k + 1) - 2
  OBVIOUS

LEMMA ChainStage ==
    ASSUME NEW f \in Nat, NEW c, ChainAt(ex.directives, f, c.chain), at \in Nat,
           NEW q, q = at - f, NEW n, n = Len(c.chain), NEW way, way = Way(page0, c.chain),
           ChainGood(c, n, way), ChainStore(c, q, store), Web(page0)
    PROVE  GetStage(c, q, n, way) \/ TakeStage(c, q, n, way) \/ GiveStage(q, n)
  <1>1. n \in 1..4 /\ q \in 0..(2 * n) /\ at = f + q /\ way[1] = page0
    BY DEF ChainGood, ChainStore
  <1>2. store["url"] = TextOf(page0)
    BY DEF ChainStore
  <1>3. CASE q = 0
    <2>1. at = f
      BY <1>1, <1>3
    <2>2. Here = Directive(Get(PageVar[1], ThisUrl))
      BY <2>1 DEF Here, ChainAt
    <2>3. Target(ThisUrl, store) = way[1]
      BY <1>1, <1>2, TargetUrl
    <2>4. 1 \in 1..n /\ q = 2 * 1 - 2
      BY Zenon, <1>1, <1>3, NextPlace
    <2>5. GetStage(c, q, n, way)
      BY <2>2, <2>3, <2>4 DEF GetStage
    <2> QED
      BY <2>5
  <1>4. CASE q = 2 * n
    <2>1. at = f + 2 * n
      BY <1>1, <1>4
    <2>2. Here = Directive(Give(<<Var("media")>>))
      BY <2>1 DEF Here, ChainAt
    <2> QED
      BY <1>4, <2>2 DEF GiveStage
  <1>5. CASE \E k \in 1..n : q = 2 * k - 1
    <2> PICK k \in 1..n : q = 2 * k - 1
      BY <1>5
    <2>1. at = f + 2 * k - 1
      BY <1>1
    <2>2. CASE k = n
      <3>1. Here = Directive(Take("var", "media", PageVar[n], c.chain[n].ere))
        BY <2>1, <2>2 DEF Here, ChainAt, ChainGood
      <3> QED
        BY <2>2, <3>1 DEF TakeStage
    <2>3. CASE k # n
      <3>1. k \in 1..(n - 1)
        BY <1>1, <2>3
      <3>2. Here = Directive(Take("var", LinkVar[k], PageVar[k], c.chain[k].ere))
        BY <2>1, <3>1 DEF Here, ChainAt
      <3> QED
        BY <3>1, <3>2 DEF TakeStage
    <2> QED
      BY <2>2, <2>3
  <1>6. CASE \E k \in 1..(n - 1) : q = 2 * k
    <2> PICK k \in 1..(n - 1) : q = 2 * k
      BY <1>6
    <2>1. at = f + 2 * k
      BY <1>1
    <2>2. Here = Directive(Get(PageVar[k + 1], <<Var(LinkVar[k])>>))
      BY <2>1 DEF Here, ChainAt
    <2>3. store[LinkVar[k]] = Captures(c.chain[k].ere, site[way[k]])[1]
      <3>1. 2 * k <= q
        OBVIOUS
      <3> QED
        BY <3>1 DEF ChainStore
    <2>4. k \in 1..n /\ k \in 1..3 /\ k + 1 \in 1..n /\ q = 2 * (k + 1) - 2
      BY Zenon, <1>1, NextPlace
    <2>5. LinkVar[k] # None
      BY <2>4, NoNames
    <2>6. Resolve(page0, RefOf(Captures(c.chain[k].ere, site[way[k]])[1])) = way[k + 1]
      BY <2>4 DEF ChainGood
    <2>7. Target(<<Var(LinkVar[k])>>, store) = way[k + 1]
      <3>1. Target(<<Var(LinkVar[k])>>, store) = Resolve(page0, RefOf(store[LinkVar[k]]))
        BY ZenonT(40), <1>2, <2>5, TargetVar
      <3> QED
        BY <2>3, <2>6, <3>1
    <2>8. GetStage(c, q, n, way)
      BY <2>2, <2>4, <2>7 DEF GetStage
    <2> QED
      BY <2>8
  <1> QED
    BY <1>1, <1>3, <1>4, <1>5, <1>6, StageParts

LEMMA StageSizes ==
    ASSUME NEW n \in 1..4, NEW k \in 1..n, NEW q
    PROVE  /\ q = 2 * k - 2 => q < 2 * n /\ q + 1 = 2 * k - 1
           /\ q = 2 * k - 1 => q < 2 * n /\ q + 1 = 2 * k
           /\ 2 * k <= 2 * n
  OBVIOUS

LEMMA ChainKeeps ==
    ASSUME NEW c, NEW q, NEW n, n = Len(c.chain), NEW way, way = Way(page0, c.chain),
           ChainGood(c, n, way), ChainStore(c, q, store), GetStage(c, q, n, way) \/ TakeStage(c, q, n, way), Evaluate
    PROVE  q < 2 * n /\ ChainStore(c, q + 1, store')
  <1>1. n \in 1..4 /\ Len(c.chain) \in Nat /\ Len(c.chain) \in 1..4
    BY DEF ChainGood
  <1>2. CASE GetStage(c, q, n, way)
    <2> PICK k \in 1..n : q = 2 * k - 2 /\ \E u : Here = Directive(Get(PageVar[k], u)) /\ Target(u, store) = way[k]
      BY <1>2 DEF GetStage
    <2>1. Gains(store, store', PageVar[k], site[way[k]])
      BY GetGains
    <2>2. q < 2 * n /\ q + 1 = 2 * k - 1
      BY <1>1, StageSizes
    <2>3. Sets(c, q + 1, PageVar[k], site[way[k]])
      <3>1. k \in 1..Len(c.chain)
        OBVIOUS
      <3> QED
        BY Zenon, <1>1, <2>2, <3>1, SetsOf
    <2> QED
      BY <1>1, <2>1, <2>2, <2>3, ChainGains
  <1>3. CASE TakeStage(c, q, n, way)
    <2> PICK k \in 1..n : /\ q = 2 * k - 1
                          /\ \/ k = n /\ Here = Directive(Take("var", "media", PageVar[n], c.chain[n].ere))
                             \/ k \in 1..(n - 1) /\ Here = Directive(Take("var", LinkVar[k], PageVar[k], c.chain[k].ere))
      BY <1>3 DEF TakeStage
    <2>1. q < 2 * n /\ q + 1 = 2 * k
      BY <1>1, StageSizes
    <2>2. store[PageVar[k]] = site[way[k]]
      <3>1. 2 * k - 1 <= q
        OBVIOUS
      <3> QED
        BY <3>1 DEF ChainStore
    <2>3. k \in 1..Len(c.chain)
      OBVIOUS
    <2>4. CASE k = n /\ Here = Directive(Take("var", "media", PageVar[n], c.chain[n].ere))
      <3>1. Gains(store, store', "media", Captures(c.chain[n].ere, site[way[n]])[1])
        BY <2>2, <2>4, TakeGains
      <3>2. Captures(c.chain[n].ere, site[way[n]])[1] = Ending(c)[1]
        BY DEF ChainGood
      <3>3. Sets(c, q + 1, "media", Ending(c)[1])
        <4>1. Sets(c, 2 * Len(c.chain), "media", Ending(c)[1])
          BY Zenon, <1>1, <2>3, SetsOf
        <4>2. q + 1 = 2 * Len(c.chain)
          BY <2>1, <2>4
        <4> QED
          BY Zenon, <4>1, <4>2
      <3> QED
        BY <1>1, <2>1, <3>1, <3>2, <3>3, ChainGains
    <2>5. CASE k \in 1..(n - 1) /\ Here = Directive(Take("var", LinkVar[k], PageVar[k], c.chain[k].ere))
      <3>1. Gains(store, store', LinkVar[k], Captures(c.chain[k].ere, site[way[k]])[1])
        BY <2>2, <2>5, TakeGains
      <3>2. k \in 1..(Len(c.chain) - 1)
        BY <2>5
      <3>3. Sets(c, q + 1, LinkVar[k], Captures(c.chain[k].ere, site[way[k]])[1])
        BY Zenon, <1>1, <2>1, <2>3, <3>2, SetsOf
      <3> QED
        BY <1>1, <2>1, <3>1, <3>3, ChainGains
    <2> QED
      BY <2>4, <2>5
  <1> QED
    BY <1>2, <1>3

LEMMA StageWorks ==
    ASSUME NEW c, NEW q, NEW n, n = Len(c.chain), NEW way, way = Way(page0, c.chain),
           ChainGood(c, n, way), ChainStore(c, q, store), TakeStage(c, q, n, way)
    PROVE  Here.kw = "var" /\ VarWorks
  <1>1. n \in 1..4 /\ MaxVars \in Nat /\ 2 * n < MaxVars
    BY DEF ChainGood
  <1> PICK k \in 1..n : /\ q = 2 * k - 1
                        /\ \/ k = n /\ Here = Directive(Take("var", "media", PageVar[n], c.chain[n].ere))
                           \/ k \in 1..(n - 1) /\ Here = Directive(Take("var", LinkVar[k], PageVar[k], c.chain[k].ere))
    BY DEF TakeStage
  <1>2. PageVar[k] \in DOMAIN store /\ store[PageVar[k]] = site[way[k]]
    <2>1. 2 * k - 1 <= q
      OBVIOUS
    <2> QED
      BY <2>1 DEF ChainStore
  <1>3. \E name : Here = Directive(Take("var", name, PageVar[k], c.chain[k].ere))
    OBVIOUS
  <1>4. Captures(c.chain[k].ere, site[way[k]]) # <<>>
    BY DEF ChainGood
  <1>5. Cardinality(DOMAIN store) \in Nat /\ Cardinality(DOMAIN store) < MaxVars
    <2>1. IsFiniteSet(DOMAIN store) /\ Cardinality(DOMAIN store) <= q + 1
      BY DEF ChainStore
    <2>2. Cardinality(DOMAIN store) \in Nat
      BY <2>1, FS_CardinalityType
    <2>3. q + 1 = 2 * k /\ 2 * k <= 2 * n
      BY Zenon, <1>1, StageSizes
    <2> PICK m : m = Cardinality(DOMAIN store)
      OBVIOUS
    <2> QED
      BY <1>1, <2>1, <2>2, <2>3
  <1> PICK name : Here = Directive(Take("var", name, PageVar[k], c.chain[k].ere))
    BY <1>3
  <1>6. Here.kw = "var"
    BY TakeHas
  <1>7. VarWorks
    BY <1>2, <1>4, <1>5, TakeWorks
  <1> QED
    BY <1>6, <1>7

LEMMA ChainProceeds ==
    ASSUME NEW f \in Nat, NEW c, ChainAt(ex.directives, f, c.chain), ChainFit(c), c.param = None, Leads(c),
           Web(page0), Web(c.url), Expressible(c), c.chain # <<>>, Piped(f, c)
    PROVE  Proceeds(f, c)
  <1> PICK q, n, way : q = at - f /\ n = Len(c.chain) /\ way = Way(page0, c.chain)
    OBVIOUS
  <1>1. at \in Nat /\ ChainStore(c, q, store)
    BY DEF Piped, PipeStore
  <1>2. Straight(c)
    BY DEF Expressible
  <1>3. ChainGood(c, n, way)
    BY <1>2, ChainIsGood
  <1>4. Len(ex.directives) = f + 2 * n /\ at = f + q /\ n \in 1..4
    <2>1. Len(ex.directives) = f + 2 * n
      BY DEF ChainAt
    <2>2. n \in 1..4 /\ q \in 0..(2 * n)
      BY <1>1, <1>3 DEF ChainStore, ChainGood
    <2> QED
      BY <1>1, <2>1, <2>2
  <1>5. ASSUME GetStage(c, q, n, way) \/ TakeStage(c, q, n, way), Evaluate
        PROVE  at + 1 <= Len(ex.directives) /\ PipeStore(c, at - f + 1, store')
    <2>1. q < 2 * n /\ ChainStore(c, q + 1, store')
      BY <1>1, <1>3, <1>5, ChainKeeps
    <2>2. q \in 0..(2 * n) /\ at - f + 1 = q + 1
      BY <1>1 DEF ChainStore
    <2> QED
      BY <1>4, <2>1, <2>2 DEF PipeStore
  <1>6. CASE GetStage(c, q, n, way)
    <2>1. Here.kw = "get"
      BY <1>6, GetHas DEF GetStage
    <2> QED
      BY <1>5, <1>6, <2>1 DEF Proceeds
  <1>7. CASE TakeStage(c, q, n, way)
    <2>1. Here.kw = "var" /\ VarWorks
      BY <1>1, <1>3, <1>7, StageWorks
    <2> QED
      BY <1>5, <1>7, <2>1 DEF Proceeds
  <1>8. CASE GiveStage(q, n)
    <2>1. q = 2 * n /\ Here.kw = "output" /\ Here.arg = <<Var("media")>>
      BY <1>8, GiveHas DEF GiveStage
    <2>2. /\ "media" \in DOMAIN store /\ store["media"] = Ending(c)[1]
          /\ store["url"] = TextOf(page0)
      <3>1. 2 * n <= q
        BY <1>4, <2>1
      <3> QED
        BY <1>1, <3>1 DEF ChainStore
    <2>3. Resolve(page0, RefOf(Ending(c)[1])) = c.url
      <3>1. n \in 1..n
        BY <1>4
      <3> QED
        BY <1>3, <3>1 DEF ChainGood
    <2>4. "media" # None
      BY NoNames
    <2>5. Target(<<Var("media")>>, store) = c.url /\ Names(<<Var("media")>>) = {"media"}
      BY <2>2, <2>3, <2>4, TargetVar
    <2> QED
      BY <2>1, <2>2, <2>5 DEF Proceeds, Undefined
  <1> QED
    BY <1>1, <1>3, <1>6, <1>7, <1>8, ChainStage

(* What a pipeline that can be written down does next.                        *)
LEMMA PipeProceeds ==
    ASSUME NEW f \in Nat, NEW c, PipeAt(ex.directives, f, c), ChainFit(c), Leads(c),
           Web(page0), Web(c.url), Expressible(c), c.chain # <<>>, Piped(f, c)
    PROVE  Proceeds(f, c)
  <1>1. CASE c.param # None
    <2>1. HandleFit(c) /\ HandleAt(ex.directives, f, c)
      BY <1>1 DEF ChainFit, PipeAt
    <2> QED
      BY <1>1, <2>1, HandleProceeds
  <1>2. CASE c.param = None
    <2>1. ChainAt(ex.directives, f, c.chain)
      BY <1>2 DEF PipeAt
    <2> QED
      BY <1>2, <2>1, ChainProceeds
  <1> QED
    BY <1>1, <1>2

LEMMA PipeBegins ==
    ASSUME NEW c, ChainFit(c)
    PROVE  PipeStore(c, 0, OnlyUrl(page0))
  <1>1. HandleStore(c, 0, OnlyUrl(page0))
    BY DEF HandleStore
  <1> PICK n, st : n = Len(c.chain) /\ st = OnlyUrl(page0)
    OBVIOUS
  <1>2. DOMAIN st = {"url"} /\ st["url"] = TextOf(page0)
    BY DEF OnlyUrl
  <1>3. IsFiniteSet(DOMAIN st) /\ Cardinality(DOMAIN st) <= 0 + 1
    <2>1. IsFiniteSet({"url"}) /\ Cardinality({"url"}) = 1
      BY FS_Singleton
    <2> QED
      BY <1>2, <2>1
  <1>4. n \in Nat \ {0}
    BY ScanAssumption DEF ChainFit
  <1>5. /\ 0 \in 0..(2 * n) /\ ~(2 * n <= 0)
        /\ \A k \in 1..n : ~(2 * k - 1 <= 0)
        /\ \A k \in 1..(n - 1) : ~(2 * k <= 0)
    BY <1>4
  <1>6. ChainStore(c, 0, st)
    BY <1>2, <1>3, <1>5 DEF ChainStore
  <1> QED
    BY <1>1, <1>6 DEF PipeStore

(* Which configs have a list, and where.                                      *)
LEMMA SmallPlace ==
    ASSUME NEW n \in 1..4, NEW j \in 1..(1 + 2 * n)
    PROVE  \/ j = 1 \/ j = 1 + 2 * n
           \/ \E k \in 1..n : j = 1 + 2 * k - 1
           \/ \E k \in 1..(n - 1) : j = 1 + 2 * k
  <1>1. j - 1 \in 0..(2 * n)
    OBVIOUS
  <1>2. \/ j - 1 = 0 \/ j - 1 = 2 * n
        \/ \E k \in 1..n : j - 1 = 2 * k - 1
        \/ \E k \in 1..(n - 1) : j - 1 = 2 * k
    BY <1>1, StageParts
  <1> QED
    BY <1>2

LEMMA ChainNoList ==
    ASSUME NEW D, NEW chain, ChainAt(D, 1, chain), Len(chain) \in 1..4, NEW j \in 1..Len(D)
    PROVE  D[j].kw # "list"
  <1> PICK n : n = Len(chain)
    OBVIOUS
  <1>1. n \in 1..4 /\ j \in 1..(1 + 2 * n)
    BY DEF ChainAt
  <1>2. \A k \in 1..n : k = n \/ k \in 1..(n - 1)
    BY <1>1
  <1>3. D[1].kw = "get"
    BY GetHas DEF ChainAt
  <1>4. D[1 + 2 * n].kw = "output" /\ D[1 + 2 * n - 1].kw = "var"
    BY GiveHas, TakeHas DEF ChainAt
  <1>5. ASSUME NEW k \in 1..(n - 1) PROVE D[1 + 2 * k - 1].kw = "var" /\ D[1 + 2 * k].kw = "get"
    <2>1. /\ D[1 + 2 * k - 1] = Directive(Take("var", LinkVar[k], PageVar[k], chain[k].ere))
          /\ D[1 + 2 * k] = Directive(Get(PageVar[k + 1], <<Var(LinkVar[k])>>))
      BY DEF ChainAt
    <2> QED
      BY <2>1, GetHas, TakeHas
  <1>6. \A k \in 1..n : D[1 + 2 * k - 1].kw = "var"
    BY <1>2, <1>4, <1>5
  <1> QED
    BY <1>1, <1>3, <1>4, <1>5, <1>6, SmallPlace

LEMMA GiveNoList ==
    ASSUME NEW D, NEW t, GiveAt(D, 1, t)
    PROVE  Len(D) = 1 /\ D[1].kw = "output" /\ D[1].arg = t
  BY GiveHas DEF GiveAt

LEMMA HandleNoList ==
    ASSUME NEW D, NEW c, HandleAt(D, 1, c), NEW j \in 1..Len(D)
    PROVE  D[j].kw # "list"
  <1>1. Len(D) = 3 /\ D[1].kw = "get" /\ D[2].kw = "var" /\ D[3].kw = "output"
    BY GetHas, TakeHas, GiveHas DEF HandleAt
  <1>2. j = 1 \/ j = 2 \/ j = 3
    BY <1>1
  <1> QED
    BY <1>1, <1>2

LEMMA OneNoList ==
    ASSUME FitInv, NEW c, IsList(c.directives), NEW i, OneForm(c.directives, i)
    PROVE  ~Has(c, "list")
  <1> PICK D, d : D = c.directives /\ d = cands[i]
    OBVIOUS
  <1>1. DOMAIN D = 1..Len(D)
    BY ListIsSeq
  <1>2. CASE GiveAt(D, 1, <<Lit(TextOf(d.url))>>)
    <2>1. Len(D) = 1 /\ D[1].kw = "output"
      BY <1>2, GiveNoList
    <2>2. \A j \in 1..1 : D[j].kw # "list"
      BY <2>1
    <2> QED
      BY <1>1, <2>1, <2>2 DEF Has
  <1>3. CASE d.chain # <<>> /\ PipeAt(D, 1, d)
    <2>1. i \in DOMAIN cands
      BY DEF OneForm
    <2>2. Len(d.chain) \in 1..MaxChain
      BY <1>3, <2>1 DEF FitInv, CandFit, ChainFit
    <2>3. Len(d.chain) \in 1..4
      <3>1. MaxChain \in Nat /\ MaxChain <= 4 /\ MaxVars \in Nat /\ MaxVars >= 2 * MaxChain + 1
        BY ScanAssumption, ExtractorAssumption
      <3> QED
        BY Zenon, <2>2, <3>1, RoomLeft
    <2>4. \A j \in 1..Len(D) : D[j].kw # "list"
      BY <1>3, <2>3, HandleNoList, ChainNoList DEF PipeAt
    <2> QED
      BY <1>1, <2>4 DEF Has
  <1> QED
    BY <1>2, <1>3 DEF OneForm

LEMMA ListingHas ==
    ASSUME NEW c, IsList(c.directives), NEW ere, Listing(c.directives, ere)
    PROVE  /\ Has(c, "list") /\ ListAt(c) = 2 /\ FirstToRun(c) = 3
           /\ c.directives[2].arg[1].text = ere
  <1> PICK D, A : D = c.directives /\ A = {i \in DOMAIN c.directives : c.directives[i].kw = "list"}
    OBVIOUS
  <1>1. DOMAIN D = 1..Len(D) /\ Len(D) \in Nat
    BY ListIsSeq
  <1>2. D[1].kw = "get" /\ D[2].kw = "list" /\ D[2].arg = <<Lit(ere)>> /\ Len(D) >= 3
    BY GetHas, TakeHas DEF Listing
  <1>3. A \in SUBSET Nat /\ 2 \in A /\ 1 \notin A /\ 0 \notin A
    BY <1>1, <1>2
  <1>4. Min(A) \in A /\ Min(A) <= 2
    BY <1>3, LeastExists
  <1>5. Min(A) = 2
    <2> PICK m : m = Min(A)
      OBVIOUS
    <2>1. m \in Nat /\ m # 0 /\ m # 1 /\ m <= 2
      BY <1>3, <1>4
    <2> QED
      BY <2>1
  <1>6. Has(c, "list") /\ ListAt(c) = 2
    BY <1>3, <1>5 DEF Has, ListAt
  <1>7. D[2].arg[1].text = ere
    BY <1>2 DEF Lit
  <1> QED
    BY <1>6, <1>7 DEF FirstToRun

(* While a config is used, nothing of the scan changes.                       *)
Still == UNCHANGED <<cands, series, page0, picked, scphase, site>>

LEMMA StillForms ==
    ASSUME Still, NEW D, NEW j, NEW ere
    PROVE  /\ OneForm(D, j)' <=> OneForm(D, j)
           /\ ListForm(D, ere)' <=> ListForm(D, ere)
           /\ LongForm(D)' <=> LongForm(D)
  <1>1. OneForm(D, j)' <=> OneForm(D, j)
    BY DEF Still, OneForm
  <1>2. ListForm(D, ere)' <=> ListForm(D, ere)
    BY DEF Still, ListForm, InOrder, RawRef
  <1>3. LongForm(D)' <=> LongForm(D)
    BY DEF Still, LongForm
  <1> QED
    BY <1>1, <1>2, <1>3

LEMMA StillFits ==
    ASSUME Still, NEW c
    PROVE  /\ Expressible(c)' <=> Expressible(c)
           /\ FitInv' <=> FitInv
           /\ \A f, q, st : PipeStore(c, q, st)' <=> PipeStore(c, q, st)
  <1>1. Straight(c)' <=> Straight(c)
    BY DEF Still, Straight
  <1>2. Expressible(c)' <=> Expressible(c)
    BY <1>1 DEF Still, Expressible
  <1>3. \A q, st : PipeStore(c, q, st)' <=> PipeStore(c, q, st)
    <2> TAKE q, st
    <2>1. HandleStore(c, q, st)' <=> HandleStore(c, q, st)
      BY DEF Still, HandleStore
    <2>2. ChainStore(c, q, st)' <=> ChainStore(c, q, st)
      BY DEF Still, ChainStore, Ending
    <2> QED
      BY <2>1, <2>2 DEF PipeStore
  <1>4. \A d : CandFit(d)' <=> CandFit(d)
    <2> TAKE d
    <2>1. ChainFit(d)' <=> ChainFit(d)
      BY DEF Still, ChainFit, HandleFit, Ending
    <2> QED
      BY <2>1 DEF CandFit, Still
  <1>5. FitInv' <=> FitInv
    BY <1>4 DEF Still, FitInv
  <1> QED
    BY <1>2, <1>3, <1>5

LEMMA OneBegins ==
    ASSUME FitInv, Begin, Still, at = 1, store = OnlyUrl(Page), medias = <<>>,
           Discover # NoConfig, IsList((Discover).directives), NEW i, OneForm((Discover).directives, i)
    PROVE  OneUsed(i)'
  <1> PICK p, D, c : p = Discover /\ D = p.directives /\ c = cands[i]
    OBVIOUS
  <1>1. ex' = p /\ episodes' = <<Page>> /\ at' = 1 /\ store' = OnlyUrl(Page) /\ medias' = <<>> /\ cands'[i] = c
    BY DEF Begin, Still
  <1>2. ~Has(p, "list")
    BY OneNoList
  <1>3. exphase' = "run"
    BY <1>1, <1>2 DEF Begin
  <1>4. OneForm(D, i)'
    BY StillForms
  <1>5. OneForm(ex.directives, i)'
    BY <1>1, <1>4 DEF OneForm
  <1>6. ASSUME ~GiveAt(D, 1, <<Lit(TextOf(c.url))>>) PROVE Piped(1, c)'
    <2>1. /\ i \in DOMAIN cands /\ series = None /\ c.chain # <<>> /\ PipeAt(D, 1, c)
      BY <1>6 DEF OneForm
    <2>2. ChainFit(c) /\ page0 = Page
      BY <2>1 DEF FitInv, CandFit, ChainFit
    <2>3. PipeStore(c, 0, OnlyUrl(page0))
      BY <2>2, PipeBegins
    <2>4. PipeStore(c, 0, OnlyUrl(Page))'
      BY <2>2, <2>3, StillFits
    <2>5. Len(D) >= 1
      <3>1. Len(c.chain) \in Nat
        BY <2>2, ScanAssumption DEF ChainFit
      <3> QED
        BY <2>1, <3>1 DEF PipeAt, HandleAt, ChainAt
    <2> QED
      BY <1>1, <2>4, <2>5 DEF Piped, PipeStore
  <1>7. GiveAt(ex.directives, 1, <<Lit(TextOf(cands[i].url))>>)' <=> GiveAt(D, 1, <<Lit(TextOf(c.url))>>)
    BY <1>1
  <1>8. Piped(1, cands[i])' <=> Piped(1, c)'
    BY <1>1 DEF Piped, PipeStore, HandleStore, ChainStore, Ending
  <1> QED
    BY <1>1, <1>3, <1>5, <1>6, <1>7, <1>8 DEF OneUsed

LEMMA StillUsed ==
    ASSUME Still, ex' = ex, NEW c, NEW i
    PROVE  /\ OneForm(ex.directives, i)' <=> OneForm(ex.directives, i)
           /\ \A ere : ListForm(ex.directives, ere)' <=> ListForm(ex.directives, ere)
           /\ LongForm(ex.directives)' <=> LongForm(ex.directives)
  <1>1. OneForm(ex.directives, i)' <=> OneForm(ex.directives, i)
    BY DEF Still, OneForm
  <1>2. ASSUME NEW ere PROVE ListForm(ex.directives, ere)' <=> ListForm(ex.directives, ere)
    BY DEF Still, ListForm, InOrder, RawRef
  <1>3. LongForm(ex.directives)' <=> LongForm(ex.directives)
    BY DEF Still, LongForm
  <1> QED
    BY <1>1, <1>2, <1>3

(* A config that is one candidate's.                                          *)
Direct(c) == GiveAt(ex.directives, 1, <<Lit(TextOf(c.url))>>)

LEMMA OneNext ==
    ASSUME ScanInv, FitInv, NEW i, OneUsed(i), exphase = "run"
    PROVE  /\ Direct(cands[i]) => /\ at <= Len(ex.directives) /\ Here.kw = "output"
                                  /\ ~Undefined(Here.arg) /\ Target(Here.arg, store) = cands[i].url
           /\ ~Direct(cands[i]) /\ Expressible(cands[i]) => Piped(1, cands[i]) /\ Proceeds(1, cands[i])
  <1> PICK c : c = cands[i]
    OBVIOUS
  <1>1. i \in DOMAIN cands /\ CandFit(c) /\ OneForm(ex.directives, i)
    BY DEF OneUsed, OneForm, FitInv
  <1>2. CASE Direct(c)
    <2>1. at = 1
      BY <1>2 DEF OneUsed, Direct
    <2>2. Len(ex.directives) = 1 /\ Here.kw = "output" /\ Here.arg = <<Lit(TextOf(c.url))>>
      BY <1>2, <2>1, GiveNoList DEF Direct, Here
    <2>3. Web(c.url)
      BY <1>1 DEF CandFit
    <2>4. Target(<<Lit(TextOf(c.url))>>, store) = c.url
      BY <2>3, TargetLit
    <2>5. Names(<<Lit(TextOf(c.url))>>) = {}
      BY LitText
    <2> QED
      BY <1>2, <2>1, <2>2, <2>4, <2>5 DEF Undefined
  <1>3. CASE ~Direct(c) /\ Expressible(c)
    <2>1. Piped(1, c)
      BY <1>3 DEF OneUsed, Direct
    <2>2. series = None /\ c.chain # <<>> /\ PipeAt(ex.directives, 1, c)
      BY <1>1, <1>3 DEF OneForm, Direct
    <2>3. Web(c.url) /\ ChainFit(c) /\ page0 = Page
      BY <1>1, <2>2 DEF CandFit, ChainFit
    <2>4. Web(page0)
      BY <2>3, PagesWeb DEF ScanInv
    <2>5. Leads(c)
      <3>1. DOMAIN cands = 1..Len(cands)
        BY ListIsSeq DEF ScanInv, CandsRight
      <3> QED
        BY <1>1, <2>2, <3>1 DEF ScanInv, CandsRight, CandRight
    <2>6. Proceeds(1, c)
      BY <1>3, <2>1, <2>2, <2>3, <2>4, <2>5, PipeProceeds
    <2> QED
      BY <1>3, <2>1, <2>6
  <1> QED
    BY <1>2, <1>3

(* A pipeline goes on.                                                        *)
LEMMA PipedOn ==
    ASSUME Still, RunDirective, NEW f \in Nat, NEW c, Piped(f, c), Proceeds(f, c)
    PROVE  Piped(f, c)'
  <1>1. /\ ex' = ex /\ Here.kw # "output" /\ at' = at + 1
    BY DEF RunDirective
  <1>2. Evaluate
    BY <1>1 DEF RunDirective, Proceeds
  <1>3. at + 1 <= Len(ex.directives) /\ PipeStore(c, at - f + 1, store')
    BY <1>1, <1>2 DEF Proceeds
  <1>4. at \in Nat /\ at - f \in Nat
    BY DEF Piped
  <1> PICK st, q : st = store' /\ q = (at + 1) - f
    OBVIOUS
  <1>5. PipeStore(c, q, st)
    <2>1. q = at - f + 1
      BY <1>4
    <2> QED
      BY <1>3, <2>1
  <1>6. PipeStore(c, q, st)'
    BY <1>5, StillFits
  <1>7. at' - f = q /\ q \in Nat
    BY <1>1, <1>4
  <1> QED
    BY <1>1, <1>3, <1>4, <1>6, <1>7 DEF Piped, PipeStore

LEMMA OneRuns ==
    ASSUME ScanInv, FitInv, Still, NEW i, OneUsed(i), RunDirective
    PROVE  OneUsed(i)'
  <1> PICK c : c = cands[i]
    OBVIOUS
  <1>1. /\ exphase = "run" /\ exphase' = "run" /\ ex' = ex /\ episodes' = episodes /\ medias' = medias
        /\ Here.kw # "output" /\ at' = at + 1 /\ cands'[i] = c
    BY DEF RunDirective, Still
  <1>2. episodes = <<Page>> /\ medias = <<>> /\ OneForm(ex.directives, i)'
    BY <1>1, StillUsed DEF OneUsed
  <1>3. ~Direct(c)
    BY <1>1, OneNext
  <1>4. ASSUME Expressible(c) PROVE Piped(1, c)'
    BY <1>1, <1>3, <1>4, OneNext, PipedOn
  <1>5. Expressible(c)' <=> Expressible(c)
    BY StillFits
  <1>6. Piped(1, cands[i])' <=> Piped(1, c)'
    BY <1>1 DEF Piped, PipeStore, HandleStore, ChainStore, Ending
  <1>7. Expressible(cands[i])' <=> Expressible(c)'
    BY <1>1 DEF Expressible, Straight
  <1>8. GiveAt(ex.directives, 1, <<Lit(TextOf(cands[i].url))>>)' <=> Direct(c)
    BY <1>1 DEF Direct
  <1> QED
    BY <1>1, <1>2, <1>3, <1>4, <1>5, <1>6, <1>7, <1>8 DEF OneUsed

LEMMA OneOutputs ==
    ASSUME ScanInv, FitInv, Still, NEW i, OneUsed(i), Output
    PROVE  OneUsed(i)'
  <1> PICK c, t : c = cands[i] /\ t = Target(Here.arg, store)
    OBVIOUS
  <1>1. /\ exphase = "run" /\ ex' = ex /\ episodes' = episodes /\ medias' = Append(medias, t) /\ Here.kw = "output"
        /\ cands'[i] = c
    BY DEF Output, Got, Still
  <1>2. episodes = <<Page>> /\ medias = <<>> /\ OneForm(ex.directives, i)'
    BY <1>1, StillUsed DEF OneUsed
  <1>3. medias' = <<t>> /\ Len(medias') = 1 /\ Len(episodes) = 1
    BY <1>1, <1>2
  <1>4. exphase' = "resolved"
    BY <1>3 DEF Output, Got
  <1>5. Direct(c) \/ Expressible(c) => t = c.url
    BY <1>1, OneNext DEF Proceeds
  <1>6. Expressible(cands[i])' <=> Expressible(c)
    <2>1. Expressible(cands[i])' <=> Expressible(c)'
      BY <1>1 DEF Expressible, Straight
    <2> QED
      BY <2>1, StillFits
  <1>7. GiveAt(ex.directives, 1, <<Lit(TextOf(cands[i].url))>>)' <=> Direct(c)
    BY <1>1 DEF Direct
  <1> QED
    BY <1>1, <1>2, <1>3, <1>4, <1>5, <1>6, <1>7 DEF OneUsed

LEMMA OneFails ==
    ASSUME ScanInv, FitInv, Still, NEW i, OneUsed(i), RunFails
    PROVE  OneUsed(i)'
  <1> PICK c : c = cands[i]
    OBVIOUS
  <1>1. exphase = "run" /\ cands'[i] = c
    BY DEF RunFails, Still
  <1>2. episodes = <<Page>>
    BY <1>1 DEF OneUsed
  <1>3. Len(episodes) = 1
    BY <1>2
  <1>4. exphase' = "failed" /\ ex' = ex /\ at' = at
    BY <1>3 DEF RunFails
  <1>5. OneForm(ex.directives, i)'
    BY <1>4, StillUsed DEF OneUsed
  <1>6. ~Direct(c)
    BY <1>1, OneNext DEF RunFails
  <1>7. Expressible(c) => Here.kw = "get"
    <2> SUFFICES ASSUME Expressible(c) PROVE Here.kw = "get"
      OBVIOUS
    <2>1. Piped(1, c) /\ Proceeds(1, c)
      BY <1>1, <1>6, OneNext
    <2>2. at <= Len(ex.directives)
      BY <2>1 DEF Piped
    <2> QED
      BY <2>1, <2>2 DEF RunFails, Proceeds
  <1>8. Expressible(cands[i])' <=> Expressible(c)
    <2>1. Expressible(cands[i])' <=> Expressible(c)'
      BY <1>1 DEF Expressible, Straight
    <2> QED
      BY <2>1, StillFits
  <1>9. GiveAt(ex.directives, 1, <<Lit(TextOf(cands[i].url))>>)' <=> Direct(c)
    BY <1>1, <1>4 DEF Direct
  <1>10. Here.kw' = Here.kw
    BY <1>4 DEF Here
  <1> QED
    BY <1>4, <1>5, <1>6, <1>7, <1>8, <1>9, <1>10 DEF OneUsed

(* The directives before a list.                                              *)
LEMMA ListReads ==
    ASSUME Web(Page), NEW ere, Listing(ex.directives, ere), NotListed, ListDirective, Still
    PROVE  NotListed' /\ exphase' = "list" /\ ex' = ex
  <1>1. /\ exphase' = "list" /\ ex' = ex /\ at' = at + 1 /\ medias' = medias
        /\ Here.kw # "list" /\ (Here.kw # "output" => Evaluate)
    BY DEF ListDirective
  <1>2. at = 1
    <2>1. at = 2 => Here.kw = "list"
      BY TakeHas DEF Here, Listing
    <2> QED
      BY <1>1, <2>1 DEF NotListed
  <1>3. Here = Directive(Get("page", ThisUrl))
    BY <1>2 DEF Here, Listing
  <1>4. DOMAIN store = {"url"} /\ store["url"] = TextOf(Page)
    BY <1>2 DEF NotListed, OnlyUrl
  <1>5. Target(ThisUrl, store) = Page
    BY <1>4, TargetUrl
  <1>6. Gains(store, store', "page", site[Page])
    <2>1. Evaluate
      BY <1>1, <1>3, GetHas
    <2> QED
      BY <1>3, <1>5, <2>1, GetGains
  <1>7. DOMAIN store' = {"url", "page"} /\ store'["url"] = TextOf(Page) /\ store'["page"] = site[Page]
    BY <1>4, <1>6 DEF Gains
  <1>8. at' = 2 /\ medias' = <<>> /\ site' = site
    BY <1>1, <1>2 DEF NotListed, Still
  <1> QED
    BY <1>1, <1>7, <1>8 DEF NotListed

(* What the list is of.                                                       *)
LEMMA ListIsOf ==
    ASSUME NEW ere, Listing(ex.directives, ere), NotListed, Here.kw = "list"
    PROVE  /\ Found = SubSeq(Captures(ere, site[Page]), 1, Min({Len(Captures(ere, site[Page])), MaxEpisodes}))
           /\ ListWorks <=> Found # <<>>
  <1>1. at = 2
    <2>1. at = 1 => Here.kw = "get"
      BY GetHas DEF Here, Listing
    <2> QED
      BY <2>1 DEF NotListed
  <1>2. Here.source = "page" /\ Here.arg = <<Lit(ere)>>
    BY <1>1, TakeHas DEF Here, Listing
  <1>3. "page" \in DOMAIN store /\ store["page"] = site[Page]
    BY <1>1 DEF NotListed
  <1>4. Interpolate(<<Lit(ere)>>, store) = ere /\ Names(<<Lit(ere)>>) = {}
    BY LitText
  <1>5. Found = SubSeq(Captures(ere, site[Page]), 1, Min({Len(Captures(ere, site[Page])), MaxEpisodes}))
    BY <1>2, <1>3, <1>4 DEF Found
  <1>6. ListWorks <=> Found # <<>>
    BY <1>2, <1>3, <1>4 DEF ListWorks, Undefined
  <1> QED
    BY <1>5, <1>6

Heads(f, s) == \A i \in 1..Len(f) : i \in 1..Len(s) /\ f[i] = s[i]

LEMMA CutAt ==
    ASSUME NEW S, NEW s \in Seq(S), NEW n \in 0..Len(s), NEW f, f = SubSeq(s, 1, n)
    PROVE  f \in Seq(S) /\ Len(f) = n /\ (f = <<>> <=> n = 0) /\ Heads(f, s) /\ (n = Len(s) => f = s)
  BY DEF Heads

LEMMA CutList ==
    ASSUME NEW s, IsList(s), NEW m \in Nat \ {0}
    PROVE  LET f == SubSeq(s, 1, Min({Len(s), m}))
           IN  /\ f = <<>> <=> s = <<>>
               /\ Len(s) <= m => f = s
               /\ Heads(f, s)
  <1>1. PICK n : n = Min({Len(s), m})
    OBVIOUS
  <1>2. PICK S : S = {s[i] : i \in 1..Len(s)}
    OBVIOUS
  <1>3. PICK k : k = Len(s)
    OBVIOUS
  <1>4. s \in Seq(S) /\ k \in Nat
    BY Zenon, <1>2, <1>3, ListIsSeq
  <1>5. n \in Nat /\ n <= k /\ n <= m /\ (n = k \/ n = m)
    <2>1. PICK A : A = {Len(s), m}
      OBVIOUS
    <2>2. A \in SUBSET Nat /\ A # {} /\ k \in A /\ m \in A
      BY <1>3, <1>4, <2>1
    <2>3. n \in A /\ \A i \in A : n <= i
      BY <1>1, <2>1, <2>2, LeastExists
    <2> QED
      BY <1>3, <2>1, <2>2, <2>3
  <1>6. n \in 0..Len(s)
    BY <1>3, <1>4, <1>5
  <1>7. PICK f : f = SubSeq(s, 1, n)
    OBVIOUS
  <1>8. Len(f) = n /\ (f = <<>> <=> n = 0) /\ Heads(f, s) /\ (n = Len(s) => f = s)
    <2>1. s \in Seq(S)
      BY <1>4
    <2>2. Len(f) = n
      BY <2>1, <1>6, <1>7, CutAt
    <2>3. (f = <<>> <=> n = 0)
      BY <2>1, <1>6, <1>7, CutAt
    <2>4. Heads(f, s)
      BY <2>1, <1>6, <1>7, CutAt
    <2>5. n = Len(s) => f = s
      BY <2>1, <1>6, <1>7, CutAt
    <2> QED
      BY <2>2, <2>3, <2>4, <2>5
  <1>9. n = 0 <=> k = 0
    BY <1>4, <1>5
  <1>10. s = <<>> <=> k = 0
    BY <1>3, <1>4
  <1>11. k <= m => n = k
    BY <1>4, <1>5
  <1> QED
    BY <1>1, <1>3, <1>7, <1>8, <1>9, <1>10, <1>11

LEMMA ListSpreads ==
    ASSUME CapturesGiveLists, TextsCaptured, Web(Page), IsList(ex.directives), NEW ere, Listing(ex.directives, ere),
           NotListed, ListEpisodes, Still
    PROVE  /\ exphase' = "run" /\ ex' = ex /\ Turn' /\ AllListed(ere)' /\ medias' = <<>>
           /\ at' = 3 /\ store' = OnlyUrl(episodes'[1])
  <1> PICK s, f, D : s = Captures(ere, site[Page]) /\ f = Found /\ D = Deduped(f)
    OBVIOUS
  <1>1. /\ Here.kw = "list" /\ f # <<>> /\ episodes' = D /\ Run(episodes'[1])
        /\ ex' = ex /\ medias' = medias /\ site' = site
    BY DEF ListEpisodes, ListWorks, Still
  <1>2. medias' = <<>> /\ FirstToRun(ex) = 3
    BY <1>1, ListingHas DEF NotListed
  <1>3. exphase' = "run" /\ at' = 3 /\ store' = OnlyUrl(episodes'[1])
    BY <1>1, <1>2 DEF Run
  <1>4. IsList(s) /\ MaxEpisodes \in Nat \ {0}
    BY ExtractorAssumption DEF CapturesGiveLists
  <1>5. f = SubSeq(s, 1, Min({Len(s), MaxEpisodes}))
    BY <1>1, ListIsOf
  <1>6. IsList(f) /\ f # <<>>
    BY <1>1, FoundRight
  <1>7. IsList(D) /\ Len(D) \in 1..Len(f)
    BY <1>6, DedupedRight
  <1>8. SameUrls(D, f)
    BY <1>6, DedupedRight
  <1>9. \A i \in 1..Len(f) : IsList(f[i])
    <2>1. ASSUME NEW i \in 1..Len(f) PROVE i \in 1..Len(s) /\ f[i] = s[i]
      <3>1. Heads(f, s)
        BY <1>4, <1>5, CutList
      <3> QED
        BY <3>1 DEF Heads
    <2>2. \A i \in 1..Len(s) : IsList(s[i])
      BY DEF TextsCaptured
    <2> QED
      BY <2>1, <2>2
  <1>10. \A i \in 1..Len(f) : Web(Resolve(Page, RefOf(f[i])))
    BY <1>9, ResolveWeb
  <1>11. ASSUME NEW k \in 1..Len(D) PROVE Web(D[k])
    <2>1. \E i \in 1..Len(f) : D[k] = Resolve(Page, RefOf(f[i]))
      BY <1>8 DEF SameUrls
    <2> QED
      BY <1>10, <2>1
  <1>12. Turn'
    <2>1. IsList(medias') /\ Len(medias') = 0
      BY <1>2 DEF IsList
    <2>2. Len(D) \in Nat /\ 0 < Len(D)
      BY <1>7
    <2> QED
      BY <1>1, <1>7, <1>11, <2>1, <2>2 DEF Turn, Spread
  <1>13. Len(s) <= MaxEpisodes => ToSet(D) = {Resolve(Page, RefOf(s[k])) : k \in 1..Len(s)}
    <2> SUFFICES ASSUME Len(s) <= MaxEpisodes PROVE ToSet(D) = {Resolve(Page, RefOf(s[k])) : k \in 1..Len(s)}
      OBVIOUS
    <2>1. f = s
      BY <1>4, <1>5, CutList
    <2>2. DOMAIN D = 1..Len(D)
      BY <1>7, ListIsSeq
    <2>3. \A u : (\E j \in 1..Len(D) : D[j] = u) <=> (\E i \in 1..Len(s) : u = Resolve(Page, RefOf(s[i])))
      <3>1. SameUrls(D, s)
        BY <1>8, <2>1
      <3> QED
        BY <3>1 DEF SameUrls
    <2>4. ToSet(D) = {D[j] : j \in 1..Len(D)}
      BY <2>2 DEF ToSet
    <2> PICK A, B : A = ToSet(D) /\ B = {Resolve(Page, RefOf(s[k])) : k \in 1..Len(s)}
      OBVIOUS
    <2>5. \A u : u \in A <=> \E j \in 1..Len(D) : D[j] = u
      BY <2>4
    <2>6. \A u : u \in B <=> \E i \in 1..Len(s) : u = Resolve(Page, RefOf(s[i]))
      OBVIOUS
    <2>7. \A u : u \in A <=> u \in B
      BY <2>3, <2>5, <2>6
    <2> QED
      BY <2>7
  <1>14. AllListed(ere)'
    BY <1>1, <1>13 DEF AllListed
  <1> QED
    BY <1>1, <1>2, <1>3, <1>12, <1>14

LEMMA ListLost ==
    ASSUME CapturesGiveLists, NEW ere, Listing(ex.directives, ere), NotListed, Lost
    PROVE  /\ exphase' = "failed" /\ ex' = ex /\ at' = at /\ medias' = medias /\ episodes' = episodes /\ store' = store
           /\ Here.kw = "get" \/ Captures(ere, site[Page]) = <<>>
  <1>1. /\ exphase' = "failed" /\ ex' = ex /\ at' = at /\ medias' = medias /\ episodes' = episodes /\ store' = store
        /\ Here.kw = "var" \/ Here.kw = "get" \/ (Here.kw = "list" /\ ~ListWorks)
    BY DEF Lost
  <1>2. Here.kw \in {"get", "list"}
    <2>1. at = 1 => Here.kw = "get"
      BY GetHas DEF Here, Listing
    <2>2. at = 2 => Here.kw = "list"
      BY TakeHas DEF Here, Listing
    <2> QED
      BY <2>1, <2>2 DEF NotListed
  <1>3. ASSUME Here.kw = "list" PROVE Captures(ere, site[Page]) = <<>>
    <2> PICK s : s = Captures(ere, site[Page])
      OBVIOUS
    <2>1. SubSeq(s, 1, Min({Len(s), MaxEpisodes})) = <<>>
      BY <1>1, <1>3, ListIsOf
    <2>2. IsList(s) /\ MaxEpisodes \in Nat \ {0}
      BY ExtractorAssumption DEF CapturesGiveLists
    <2> QED
      BY <2>1, <2>2, CutList
  <1> QED
    BY <1>1, <1>2, <1>3

LEMMA FormsBegin ==
    ASSUME Begin, Still, at = 1, store = OnlyUrl(Page), medias = <<>>,
           Discover # NoConfig, IsList((Discover).directives), NEW ere, Listing((Discover).directives, ere)
    PROVE  /\ exphase' = "list" /\ NotListed' /\ ex' = Discover
           /\ ListForm((Discover).directives, ere) => ListUsed(ere)'
           /\ LongForm((Discover).directives) => LongUsed'
  <1> PICK p, D : p = Discover /\ D = p.directives
    OBVIOUS
  <1>1. /\ ex' = p /\ at' = 1 /\ store' = OnlyUrl(Page) /\ medias' = <<>>
    BY DEF Begin, Still
  <1>2. Has(p, "list")
    BY ListingHas
  <1>3. exphase' = "list"
    BY <1>1, <1>2 DEF Begin
  <1>4. NotListed'
    BY <1>1 DEF NotListed
  <1>5. ListForm(D, ere) => ListUsed(ere)'
    <2> SUFFICES ASSUME ListForm(D, ere) PROVE ListUsed(ere)'
      OBVIOUS
    <2>1. ListForm(D, ere)'
      BY StillForms
    <2>2. ListForm(ex.directives, ere)'
      BY <1>1, <2>1 DEF ListForm, InOrder, RawRef
    <2> QED
      BY <1>3, <1>4, <2>2 DEF ListUsed
  <1>6. LongForm(D) => LongUsed'
    <2> SUFFICES ASSUME LongForm(D) PROVE LongUsed'
      OBVIOUS
    <2>1. LongForm(D)'
      BY StillForms
    <2>2. LongForm(ex.directives)'
      BY <1>1, <2>1 DEF LongForm
    <2> QED
      BY <1>3, <1>4, <2>2 DEF LongUsed
  <1> QED
    BY <1>1, <1>3, <1>4, <1>5, <1>6

(* A list of media.                                                           *)
LEMMA ListKeeps ==
    ASSUME CapturesGiveLists, TextsCaptured, Web(Page), IsList(ex.directives), Still, NEW ere, ListUsed(ere),
           exphase = "list", ListDirective \/ ListEpisodes \/ Lost
    PROVE  ListUsed(ere)'
  <1>1. ListForm(ex.directives, ere) /\ NotListed /\ Listing(ex.directives, ere)
    BY DEF ListUsed, ListForm
  <1>2. ex' = ex
    BY DEF ListDirective, ListEpisodes, Lost
  <1>3. ListForm(ex.directives, ere)'
    BY <1>1, <1>2, StillUsed
  <1>4. CASE ListDirective
    <2>1. NotListed' /\ exphase' = "list"
      BY <1>1, <1>4, ListReads
    <2> QED
      BY <1>3, <2>1 DEF ListUsed
  <1>5. CASE ListEpisodes
    <2>1. /\ exphase' = "run" /\ Turn' /\ AllListed(ere)' /\ medias' = <<>>
          /\ at' = 3 /\ store' = OnlyUrl(episodes'[1])
      BY <1>1, <1>5, ListSpreads
    <2>2. Len(medias') = 0
      BY <2>1
    <2>3. SameMedias'
      BY <2>2 DEF SameMedias
    <2>4. store' = OnlyUrl(episodes'[Len(medias') + 1])
      BY <2>1, <2>2
    <2> QED
      BY <1>3, <2>1, <2>3, <2>4 DEF ListUsed
  <1>6. CASE Lost
    <2>1. /\ exphase' = "failed" /\ at' = at /\ site' = site
          /\ Here.kw = "get" \/ Captures(ere, site[Page]) = <<>>
      BY <1>1, <1>6, ListLost DEF Still
    <2>2. Here.kw' = Here.kw
      BY <1>2, <2>1 DEF Here
    <2>3. exphase' = "failed" /\ (Here.kw' = "get" \/ Captures(ere, site'[Page]) = <<>>)
      BY <2>1, <2>2
    <2> QED
      BY <1>3, <2>3 DEF ListUsed
  <1> QED
    BY <1>4, <1>5, <1>6

LEMMA ListHere ==
    ASSUME NEW ere, ListUsed(ere), exphase = "run"
    PROVE  /\ at <= Len(ex.directives) /\ Here.kw = "output" /\ ~Undefined(Here.arg)
           /\ Target(Here.arg, store) = episodes[Len(medias) + 1]
  <1>1. at = 3 /\ Turn /\ store = OnlyUrl(episodes[Len(medias) + 1]) /\ GiveAt(ex.directives, 3, ThisUrl)
    BY DEF ListUsed, ListForm
  <1>2. Here.kw = "output" /\ Here.arg = ThisUrl /\ at <= Len(ex.directives)
    BY <1>1, GiveHas DEF Here, GiveAt
  <1> PICK e : e = episodes[Len(medias) + 1]
    OBVIOUS
  <1>3. Len(medias) + 1 \in 1..Len(episodes)
    <2>1. Len(medias) \in Nat /\ Len(episodes) \in Nat /\ Len(medias) < Len(episodes)
      BY <1>1, ListIsSeq DEF Turn, Spread
    <2> QED
      BY <2>1
  <1>4. Web(e)
    BY <1>1, <1>3 DEF Turn, Spread
  <1>5. DOMAIN store = {"url"} /\ store["url"] = TextOf(e)
    BY <1>1 DEF OnlyUrl
  <1>6. Target(ThisUrl, store) = e /\ Names(ThisUrl) = {"url"}
    BY <1>4, <1>5, TargetUrl
  <1> QED
    BY <1>2, <1>5, <1>6 DEF Undefined

(* One media more, and what is left of the episodes.                          *)
LEMMA MediaMore ==
    ASSUME Turn, IsList(ex.directives), NEW ere, Listing(ex.directives, ere), NEW url, Got(url)
    PROVE  /\ Spread' /\ ex' = ex /\ episodes' = episodes
           /\ Len(medias') = Len(medias) + 1 /\ Len(medias) \in Nat /\ medias'[Len(medias) + 1] = url
           /\ \A k \in 1..Len(medias) : medias'[k] = medias[k]
           /\ \/ exphase' = "run" /\ Turn' /\ at' = 3 /\ store' = OnlyUrl(episodes'[Len(medias') + 1])
              \/ exphase' = "resolved" /\ Len(medias') = Len(episodes')
  <1>1. IsList(medias) /\ IsList(episodes) /\ Len(medias) < Len(episodes)
    BY DEF Turn, Spread
  <1>2. Len(medias) \in Nat /\ Len(episodes) \in Nat
    BY <1>1, ListIsSeq
  <1>3. medias' = Append(medias, url) /\ episodes' = episodes /\ ex' = ex
    BY DEF Got
  <1> PICK t : t = Append(medias, url)
    OBVIOUS
  <1>4. IsList(t) /\ Len(t) = Len(medias) + 1 /\ t[Len(medias) + 1] = url
    BY <1>1, AppendList
  <1>5. \A k \in 1..Len(medias) : t[k] = medias[k]
    BY <1>1, AppendList
  <1>6. Len(t) <= Len(episodes)
    BY <1>1, <1>2, <1>4
  <1>7. Spread'
    BY <1>3, <1>4, <1>6 DEF Turn, Spread
  <1>8. CASE Len(medias') < Len(episodes)
    <2>1. Run(episodes[Len(medias') + 1])
      BY <1>8 DEF Got
    <2>2. exphase' = "run" /\ at' = 3 /\ store' = OnlyUrl(episodes'[Len(medias') + 1])
      BY <1>3, <2>1, ListingHas DEF Run
    <2>3. Turn'
      BY <1>3, <1>7, <1>8 DEF Turn
    <2> QED
      BY <1>2, <1>3, <1>4, <1>5, <1>7, <2>2, <2>3
  <1>9. CASE ~(Len(medias') < Len(episodes))
    <2>1. exphase' = "resolved"
      BY <1>9 DEF Got
    <2>2. Len(medias') = Len(episodes')
      BY <1>2, <1>3, <1>4, <1>6, <1>9
    <2> QED
      BY <1>2, <1>3, <1>4, <1>5, <1>7, <2>1, <2>2
  <1> QED
    BY <1>8, <1>9

LEMMA ListRuns ==
    ASSUME IsList(ex.directives), Still, NEW ere, ListUsed(ere), RunDirective \/ Output \/ RunFails
    PROVE  ListUsed(ere)'
  <1>1. exphase = "run"
    BY DEF RunDirective, Output, RunFails
  <1>2. /\ at <= Len(ex.directives) /\ Here.kw = "output" /\ ~Undefined(Here.arg)
        /\ Target(Here.arg, store) = episodes[Len(medias) + 1]
    BY <1>1, ListHere
  <1>3. Got(episodes[Len(medias) + 1])
    <2>1. Output
      BY <1>2 DEF RunDirective, RunFails
    <2> QED
      BY <1>2, <2>1 DEF Output
  <1> PICK url : url = episodes[Len(medias) + 1]
    OBVIOUS
  <1>4. ListForm(ex.directives, ere) /\ Listing(ex.directives, ere) /\ Turn /\ AllListed(ere) /\ SameMedias
    BY <1>1 DEF ListUsed, ListForm
  <1>5. /\ Spread' /\ ex' = ex /\ episodes' = episodes
        /\ Len(medias') = Len(medias) + 1 /\ Len(medias) \in Nat /\ medias'[Len(medias) + 1] = url
        /\ \/ exphase' = "run" /\ Turn' /\ at' = 3 /\ store' = OnlyUrl(episodes'[Len(medias') + 1])
           \/ exphase' = "resolved" /\ Len(medias') = Len(episodes')
    BY <1>3, <1>4, MediaMore
  <1>6. \A k \in 1..Len(medias) : medias'[k] = medias[k]
    BY <1>3, <1>4, MediaMore
  <1>7. SameMedias'
    <2>1. \A k \in 1..(Len(medias) + 1) : k = Len(medias) + 1 \/ k \in 1..Len(medias)
      BY <1>5
    <2>2. \A k \in 1..Len(medias) : medias'[k] = episodes'[k]
      BY <1>4, <1>5, <1>6 DEF SameMedias
    <2>3. medias'[Len(medias) + 1] = episodes'[Len(medias) + 1]
      BY <1>5
    <2>4. \A k \in 1..Len(medias') : medias'[k] = episodes'[k]
      BY <1>5, <2>1, <2>2, <2>3
    <2> QED
      BY <2>4 DEF SameMedias
  <1>8. AllListed(ere)'
    BY <1>4, <1>5 DEF AllListed, Still
  <1>9. ListForm(ex.directives, ere)'
    BY <1>4, <1>5, StillUsed
  <1> QED
    BY <1>5, <1>7, <1>8, <1>9 DEF ListUsed

(* A list of pages.                                                           *)
LEMMA PipedFrom ==
    ASSUME NEW f \in Nat, NEW c, ChainFit(c), PipeAt(ex.directives, f, c), NEW st, st = OnlyUrl(page0)
    PROVE  f <= Len(ex.directives) /\ PipeStore(c, 0, st)
  <1>1. PipeStore(c, 0, OnlyUrl(page0))
    BY PipeBegins
  <1>2. Len(c.chain) \in Nat
    BY ScanAssumption DEF ChainFit
  <1>3. Len(ex.directives) >= f
    BY <1>2 DEF PipeAt, HandleAt, ChainAt
  <1> QED
    BY <1>1, <1>3

(* The run of the first episode.                                              *)
LEMMA OwnBegins ==
    ASSUME FitInv, Still, ex' = ex, LongForm(ex.directives), NEW i, picked = {i},
           at' = 3, NEW e, store' = OnlyUrl(e), e = page0
    PROVE  Piped(3, cands[i])'
  <1> PICK c : c = cands[i]
    OBVIOUS
  <1>1. i \in DOMAIN cands /\ c.chain # <<>> /\ PipeAt(ex.directives, 3, c)
    BY DEF LongForm
  <1>2. ChainFit(c)
    BY <1>1 DEF FitInv, CandFit
  <1>3. 3 <= Len(ex.directives) /\ PipeStore(c, 0, OnlyUrl(page0))
    BY <1>1, <1>2, PipedFrom
  <1>4. PipeStore(c, 0, OnlyUrl(e))'
    BY <1>3, StillFits
  <1>5. Piped(3, c)'
    BY <1>3, <1>4 DEF Piped, PipeStore
  <1>6. cands'[i] = c
    BY DEF Still
  <1> QED
    BY <1>5, <1>6 DEF Piped, PipeStore, HandleStore, ChainStore, Ending

LEMMA LongKeeps ==
    ASSUME CapturesGiveLists, TextsCaptured, Web(Page), IsList(ex.directives), FitInv, Still, LongUsed,
           exphase = "list", ListDirective \/ ListEpisodes \/ Lost
    PROVE  LongUsed'
  <1>1. LongForm(ex.directives) /\ NotListed /\ Listing(ex.directives, series)
    BY DEF LongUsed, LongForm
  <1>2. ex' = ex
    BY DEF ListDirective, ListEpisodes, Lost
  <1>3. LongForm(ex.directives)'
    BY <1>1, <1>2, StillUsed
  <1>4. CASE ListDirective
    <2>1. NotListed' /\ exphase' = "list"
      BY <1>1, <1>4, ListReads
    <2> QED
      BY <1>3, <2>1 DEF LongUsed
  <1>5. CASE ListEpisodes
    <2>1. /\ exphase' = "run" /\ Turn' /\ medias' = <<>>
          /\ at' = 3 /\ store' = OnlyUrl(episodes'[1])
      BY <1>1, <1>5, ListSpreads
    <2>2. Len(medias') = 0
      BY <2>1
    <2>3. store' = OnlyUrl(episodes'[Len(medias') + 1])
      BY <2>1, <2>2
    <2>4. ASSUME NEW i \in picked', picked' = {i}
          PROVE  OwnMedia(cands[i])' /\ (episodes'[Len(medias') + 1] = page0' => Piped(3, cands[i])')
      <3>1. OwnMedia(cands[i])'
        BY <2>2 DEF OwnMedia
      <3>2. episodes'[Len(medias') + 1] = page0' => Piped(3, cands[i])'
        BY <1>1, <1>2, <2>1, <2>3, <2>4, OwnBegins DEF Still
      <3> QED
        BY <3>1, <3>2
    <2> QED
      BY <1>3, <2>1, <2>4 DEF LongUsed
  <1>6. CASE Lost
    <2>1. exphase' = "failed"
      BY <1>6 DEF Lost
    <2> QED
      BY <1>3, <2>1 DEF LongUsed
  <1> QED
    BY <1>4, <1>5, <1>6

LEMMA LongNext ==
    ASSUME ScanInv, FitInv, LongUsed, exphase = "run", NEW i, picked = {i},
           episodes[Len(medias) + 1] = page0, Expressible(cands[i])
    PROVE  Piped(3, cands[i]) /\ Proceeds(3, cands[i])
  <1> PICK c : c = cands[i]
    OBVIOUS
  <1>1. LongForm(ex.directives) /\ Turn /\ Piped(3, c)
    BY DEF LongUsed
  <1>2. i \in DOMAIN cands /\ c.chain # <<>> /\ PipeAt(ex.directives, 3, c)
    BY <1>1 DEF LongForm
  <1>3. Web(c.url) /\ ChainFit(c)
    BY <1>2 DEF FitInv, CandFit
  <1>4. Web(page0)
    <2>1. Len(medias) + 1 \in 1..Len(episodes)
      <3>1. Len(medias) \in Nat /\ Len(episodes) \in Nat /\ Len(medias) < Len(episodes)
        BY <1>1, ListIsSeq DEF Turn, Spread
      <3> QED
        BY <3>1
    <2> QED
      BY <1>1, <2>1 DEF Turn, Spread
  <1>5. Leads(c)
    <2>1. DOMAIN cands = 1..Len(cands)
      BY ListIsSeq DEF ScanInv, CandsRight
    <2> QED
      BY <1>2, <2>1 DEF ScanInv, CandsRight, CandRight
  <1>6. Proceeds(3, c)
    BY <1>1, <1>2, <1>3, <1>4, <1>5, PipeProceeds
  <1> QED
    BY <1>1, <1>6

LEMMA LongRuns ==
    ASSUME ScanInv, FitInv, Still, LongUsed, RunDirective
    PROVE  LongUsed'
  <1>1. /\ exphase = "run" /\ exphase' = "run" /\ ex' = ex /\ episodes' = episodes /\ medias' = medias
    BY DEF RunDirective
  <1>2. LongForm(ex.directives)' /\ Turn'
    BY <1>1, StillUsed DEF LongUsed, Turn, Spread
  <1>3. ASSUME NEW i \in picked', picked' = {i}
        PROVE  /\ OwnMedia(cands[i])'
               /\ episodes'[Len(medias') + 1] = page0' /\ Expressible(cands[i])' => Piped(3, cands[i])'
    <2> PICK c : c = cands[i]
      OBVIOUS
    <2>1. picked = {i} /\ cands'[i] = c /\ page0' = page0
      BY <1>3 DEF Still
    <2>2. Expressible(cands[i])' <=> Expressible(c)
      <3>1. Expressible(cands[i])' <=> Expressible(c)'
        BY <2>1 DEF Expressible, Straight
      <3> QED
        BY <3>1, StillFits
    <2>3. OwnMedia(c)
      BY <1>1, <2>1 DEF LongUsed
    <2>4. OwnMedia(cands[i])'
      BY <1>1, <2>1, <2>2, <2>3 DEF OwnMedia
    <2>5. episodes[Len(medias) + 1] = page0 /\ Expressible(c) => Piped(3, c)'
      BY <1>1, <2>1, LongNext, PipedOn
    <2>6. Piped(3, cands[i])' <=> Piped(3, c)'
      BY <2>1 DEF Piped, PipeStore, HandleStore, ChainStore, Ending
    <2> QED
      BY <1>1, <2>1, <2>2, <2>4, <2>5, <2>6
  <1> QED
    BY <1>1, <1>2, <1>3 DEF LongUsed

LEMMA LongGets ==
    ASSUME FitInv, IsList(ex.directives), Still, LongUsed, exphase = "run", NEW url, Got(url),
           \A i : picked = {i} /\ episodes[Len(medias) + 1] = page0 /\ Expressible(cands[i]) => url \in {None, cands[i].url}
    PROVE  LongUsed'
  <1>1. LongForm(ex.directives) /\ Listing(ex.directives, series) /\ Turn
    BY DEF LongUsed, LongForm
  <1>2. /\ Spread' /\ ex' = ex /\ episodes' = episodes
        /\ Len(medias') = Len(medias) + 1 /\ Len(medias) \in Nat /\ medias'[Len(medias) + 1] = url
        /\ \/ exphase' = "run" /\ Turn' /\ at' = 3 /\ store' = OnlyUrl(episodes'[Len(medias') + 1])
           \/ exphase' = "resolved" /\ Len(medias') = Len(episodes')
    BY <1>1, MediaMore
  <1>3. \A k \in 1..Len(medias) : medias'[k] = medias[k]
    BY <1>1, MediaMore
  <1>4. LongForm(ex.directives)'
    BY <1>1, <1>2, StillUsed
  <1>5. ASSUME NEW i \in picked', picked' = {i}
        PROVE  /\ OwnMedia(cands[i])'
               /\ exphase' = "run" /\ episodes'[Len(medias') + 1] = page0' => Piped(3, cands[i])'
    <2> PICK c : c = cands[i]
      OBVIOUS
    <2>1. picked = {i} /\ cands'[i] = c /\ page0' = page0
      BY <1>5 DEF Still
    <2>2. Expressible(cands[i])' <=> Expressible(c)
      <3>1. Expressible(cands[i])' <=> Expressible(c)'
        BY <2>1 DEF Expressible, Straight
      <3> QED
        BY <3>1, StillFits
    <2>3. OwnMedia(c)
      BY <2>1 DEF LongUsed
    <2>4. \A k \in 1..(Len(medias) + 1) : k = Len(medias) + 1 \/ k \in 1..Len(medias)
      BY <1>2
    <2>5. \A k \in 1..Len(medias) : episodes[k] = page0 /\ Expressible(c) => medias'[k] \in {None, c.url}
      BY <1>3, <2>3 DEF OwnMedia
    <2>6. episodes[Len(medias) + 1] = page0 /\ Expressible(c) => medias'[Len(medias) + 1] \in {None, c.url}
      BY <1>2, <2>1
    <2>7. \A k \in 1..Len(medias') : episodes'[k] = page0' /\ Expressible(c) => medias'[k] \in {None, c.url}
      BY <1>2, <2>1, <2>4, <2>5, <2>6
    <2>8. OwnMedia(cands[i])'
      BY <2>1, <2>2, <2>7 DEF OwnMedia
    <2>9. exphase' = "run" /\ episodes'[Len(medias') + 1] = page0' => Piped(3, cands[i])'
      BY <1>1, <1>2, <2>1, OwnBegins
    <2> QED
      BY <2>8, <2>9
  <1> QED
    BY <1>2, <1>4, <1>5 DEF LongUsed

LEMMA LongOutputs ==
    ASSUME ScanInv, FitInv, IsList(ex.directives), Still, LongUsed, Output \/ RunFails
    PROVE  LongUsed'
  <1>1. exphase = "run"
    BY DEF Output, RunFails
  <1>2. CASE Output
    <2> PICK url : url = Target(Here.arg, store)
      OBVIOUS
    <2>1. Got(url) /\ Here.kw = "output"
      BY <1>2 DEF Output
    <2>2. ASSUME NEW i, picked = {i}, episodes[Len(medias) + 1] = page0, Expressible(cands[i])
          PROVE  url = cands[i].url
      BY <1>1, <2>1, <2>2, LongNext DEF Proceeds
    <2> QED
      BY <1>1, <2>1, <2>2, LongGets
  <1>3. CASE RunFails
    <2>1. CASE Len(episodes) > 1
      <3>1. Got(None)
        BY <1>3, <2>1 DEF RunFails
      <3> QED
        BY <1>1, <3>1, LongGets
    <2>2. CASE ~(Len(episodes) > 1)
      <3>1. exphase' = "failed" /\ ex' = ex
        BY <1>3, <2>2 DEF RunFails
      <3>2. LongForm(ex.directives)'
        BY <3>1, StillUsed DEF LongUsed
      <3> QED
        BY <3>1, <3>2 DEF LongUsed
    <2> QED
      BY <2>1, <2>2
  <1> QED
    BY <1>2, <1>3

LEMMA Unsaved ==
    ASSUME Discovery
    PROVE  scphase # "saved" /\ scphase' # "saved"
  <1>1. CASE FetchLanding \/ LandingFails \/ Iframe \/ IframesDone \/ Rank
    BY <1>1 DEF FetchLanding, LandingFails, Iframe, IframesDone, Rank
  <1>2. CASE RecurseSeries \/ RecursePage
    BY <1>2 DEF RecurseSeries, RecursePage, StartFrom
  <1>3. CASE FindMedia \/ FindLinks \/ Return
    BY <1>3 DEF FindMedia, FindLinks, Return, Back
  <1>4. CASE SkipLink \/ FollowLink
    BY <1>4 DEF SkipLink, FollowLink, More
  <1> QED
    BY <1>1, <1>2, <1>3, <1>4 DEF Discovery

LEMMA UseSearched ==
    ASSUME UseInv, FitInv', Discovery, UNCHANGED <<exphase, configs, ex, at, store, episodes, medias>>
    PROVE  UseInv'
  <1>1. scphase # "saved" /\ scphase' # "saved"
    BY Unsaved
  <1>2. /\ exphase' = "write" /\ configs' = Begun /\ ex' = NoConfig /\ at' = 1 /\ store' = OnlyUrl(Page)
        /\ episodes' = <<>> /\ medias' = <<>>
    BY <1>1 DEF UseInv
  <1> QED
    BY <1>1, <1>2 DEF UseInv, Used

LEMMA UseSaved ==
    ASSUME ScanInv, UseInv, FitInv', SaveTop \/ SaveChosen \/ SaveNothing,
           UNCHANGED <<exphase, ex, at, store, episodes, medias>>
    PROVE  UseInv'
  <1>1. scphase = "choose"
    BY DEF SaveTop, SaveChosen, SaveNothing
  <1>2. /\ exphase = "write" /\ configs = Begun /\ FitInv
        /\ exphase' = "write" /\ ex' = NoConfig /\ at' = 1 /\ store' = OnlyUrl(Page)
        /\ episodes' = <<>> /\ medias' = <<>>
    BY <1>1 DEF UseInv
  <1>3. CASE SaveTop \/ SaveChosen
    <2>1. Formed(Discover)'
      BY <1>2, <1>3, SavedFormed
    <2>2. scphase' = "saved"
      BY <1>3 DEF SaveTop, SaveChosen, Save
    <2> QED
      BY <1>2, <2>1, <2>2 DEF UseInv, Used
  <1>4. CASE SaveNothing
    <2>1. scphase' = "failed" /\ configs' = Begun
      BY <1>2, <1>4 DEF SaveNothing
    <2> QED
      BY <1>2, <2>1 DEF UseInv, Used
  <1> QED
    BY <1>3, <1>4

LEMMA UseBegins ==
    ASSUME UseInv, FitInv', scphase = "saved", Still, Begin
    PROVE  UseInv'
  <1> PICK p, D : p = Discover /\ D = p.directives
    OBVIOUS
  <1>1. /\ exphase = "write" /\ Formed(p) /\ at = 1 /\ store = OnlyUrl(Page) /\ medias = <<>> /\ FitInv
    BY DEF UseInv, Begin
  <1>2. /\ p # NoConfig /\ IsList(D) /\ ex' = p /\ scphase' = "saved"
    BY <1>1 DEF Formed, Begin, Still
  <1>3. exphase' # "write"
    BY DEF Begin
  <1>4. \/ \E i \in picked : OneForm(D, i)
        \/ ListForm(D, D[2].arg[1].text)
        \/ LongForm(D)
    BY <1>1 DEF Formed
  <1>5. \/ \E i \in picked' : OneUsed(i)'
        \/ \E ere \in {ex'.directives[2].arg[1].text} : ListUsed(ere)'
        \/ LongUsed'
    <2>1. CASE \E i \in picked : OneForm(D, i)
      <3> PICK i \in picked : OneForm(D, i)
        BY <2>1
      <3>1. OneUsed(i)'
        BY <1>1, <1>2, OneBegins
      <3> QED
        BY <3>1 DEF Still
    <2>2. CASE ListForm(D, D[2].arg[1].text)
      <3> PICK ere : ere = D[2].arg[1].text
        OBVIOUS
      <3>1. ListForm(D, ere) /\ Listing(D, ere)
        BY <2>2 DEF ListForm
      <3>2. ListUsed(ere)'
        BY <1>1, <1>2, <3>1, FormsBegin
      <3> QED
        BY <1>2, <3>2
    <2>3. CASE LongForm(D)
      <3>1. Listing(D, series)
        BY <2>3 DEF LongForm
      <3>2. LongUsed'
        BY <1>1, <1>2, <2>3, <3>1, FormsBegin
      <3> QED
        BY <3>2
    <2> QED
      BY <1>4, <2>1, <2>2, <2>3
  <1> QED
    BY <1>2, <1>3, <1>5 DEF UseInv, Used

LEMMA UseGoesOn ==
    ASSUME CapturesGiveLists, TextsCaptured, ScanInv, UseInv, FitInv', scphase = "saved", Still,
           ListDirective \/ ListEpisodes \/ Lost \/ RunDirective \/ Output \/ RunFails
    PROVE  UseInv'
  <1>1. exphase \in {"list", "run"} /\ ex' = ex /\ scphase' = "saved"
    BY DEF ListDirective, ListEpisodes, Lost, RunDirective, Output, RunFails, Got, Still
  <1>2. /\ ex # NoConfig /\ IsList(ex.directives) /\ FitInv
        /\ \/ \E i \in picked : OneUsed(i)
           \/ \E ere \in {ex.directives[2].arg[1].text} : ListUsed(ere)
           \/ LongUsed
    BY <1>1 DEF UseInv, Used
  <1>3. Web(Page)
    BY PagesWeb DEF ScanInv
  <1>4. exphase = "list" => ListDirective \/ ListEpisodes \/ Lost
    BY DEF RunDirective, Output, RunFails
  <1>5. exphase = "run" => RunDirective \/ Output \/ RunFails
    BY DEF ListDirective, ListEpisodes, Lost
  <1>6. ASSUME NEW i \in picked, OneUsed(i) PROVE OneUsed(i)'
    <2>1. exphase = "run"
      BY <1>1, <1>6 DEF OneUsed
    <2> QED
      BY <1>2, <1>5, <1>6, <2>1, OneRuns, OneOutputs, OneFails
  <1>7. ASSUME NEW ere, ListUsed(ere) PROVE ListUsed(ere)'
    BY <1>1, <1>2, <1>3, <1>4, <1>5, <1>7, ListKeeps, ListRuns
  <1>8. ASSUME LongUsed PROVE LongUsed'
    BY <1>1, <1>2, <1>3, <1>4, <1>5, <1>8, LongKeeps, LongRuns, LongOutputs
  <1>9. \/ \E i \in picked' : OneUsed(i)'
        \/ \E ere \in {ex'.directives[2].arg[1].text} : ListUsed(ere)'
        \/ LongUsed'
    BY <1>1, <1>2, <1>6, <1>7, <1>8 DEF Still
  <1>10. exphase' # "write"
    BY <1>9 DEF OneUsed, ListUsed, LongUsed
  <1> QED
    BY <1>1, <1>2, <1>9, <1>10 DEF UseInv, Used

LEMMA UseStays ==
    ASSUME UseInv, UNCHANGED <<scvars, exvars>>
    PROVE  UseInv'
  <1>1. /\ Still /\ UNCHANGED <<ex, exphase, at, store, episodes, medias, configs>>
    BY DEF scvars, exvars, Still
  <1>2. FitInv'
    BY <1>1, StillFits DEF UseInv
  <1>3. scphase # "saved" \/ exphase = "write" \/ Used
    BY DEF Used
  <1>4. CASE scphase # "saved"
    BY <1>1, <1>2, <1>4 DEF UseInv, Used, Still
  <1>5. CASE scphase = "saved" /\ exphase = "write"
    <2>1. Formed(Discover)
      BY <1>5 DEF UseInv
    <2> PICK p : p = Discover
      OBVIOUS
    <2>2. Discover' = p
      BY <1>1 DEF Discover
    <2>3. Formed(p)'
      BY <1>1, <2>1, StillForms DEF Formed, Still
    <2>4. Formed(Discover)'
      BY <2>2, <2>3 DEF Formed, OneForm, ListForm, LongForm, InOrder, RawRef
    <2> QED
      BY <1>1, <1>2, <1>5, <2>4 DEF UseInv, Used, Still
  <1>6. CASE Used
    <2>1. ASSUME NEW i, OneUsed(i) PROVE OneUsed(i)'
      BY <1>1, <2>1 DEF Still, OneUsed, OneForm, Piped, PipeStore, HandleStore, ChainStore, Ending, Expressible, Straight, Here
    <2>2. ASSUME NEW ere, ListUsed(ere) PROVE ListUsed(ere)'
      <3>1. ListForm(ex.directives, ere)'
        BY <1>1, <2>2, StillUsed DEF ListUsed
      <3> QED
        BY <1>1, <2>2, <3>1 DEF Still, ListUsed, NotListed, Turn, Spread, AllListed, SameMedias, Here
    <2>3. ASSUME LongUsed PROVE LongUsed'
      <3>1. LongForm(ex.directives)'
        BY <1>1, <2>3, StillUsed DEF LongUsed
      <3>2. ASSUME NEW i \in picked', picked' = {i}
            PROVE  /\ OwnMedia(cands[i])' <=> OwnMedia(cands[i])
                   /\ Expressible(cands[i])' <=> Expressible(cands[i])
                   /\ Piped(3, cands[i])' <=> Piped(3, cands[i])
        <4> PICK c, q, st : c = cands[i] /\ q = at - 3 /\ st = store
          OBVIOUS
        <4>1. cands'[i] = c
          BY <1>1 DEF Still
        <4>2. Expressible(cands[i])' <=> Expressible(c)
          <5>1. Expressible(cands[i])' <=> Expressible(c)'
            BY <4>1 DEF Expressible, Straight
          <5> QED
            BY <1>1, <5>1, StillFits
        <4>3. OwnMedia(cands[i])' <=> OwnMedia(c)
          BY <1>1, <4>1, <4>2 DEF OwnMedia, Still
        <4>4. PipeStore(c, q, st)' <=> PipeStore(c, q, st)
          BY <1>1, StillFits
        <4>5. Piped(3, c)' <=> Piped(3, c)
          BY <1>1, <4>4 DEF Piped, PipeStore
        <4>6. Piped(3, cands[i])' <=> Piped(3, c)'
          BY <4>1 DEF Piped, PipeStore, HandleStore, ChainStore, Ending
        <4> QED
          BY <4>2, <4>3, <4>5, <4>6
      <3>3. (NotListed <=> NotListed') /\ (Turn <=> Turn') /\ (Spread <=> Spread')
        BY <1>1 DEF NotListed, Turn, Spread, Still
      <3>4. picked' = picked /\ page0' = page0
        BY <1>1 DEF Still
      <3>5. exphase' \in {"list", "run", "resolved", "failed"} /\ (exphase' = "list" => NotListed')
            /\ (exphase' = "run" => Turn') /\ (exphase' = "resolved" => Spread')
        BY <1>1, <2>3, <3>3 DEF LongUsed
      <3>6. ASSUME NEW i \in picked', picked' = {i}
            PROVE  /\ exphase' \in {"run", "resolved"} => OwnMedia(cands[i])'
                   /\ exphase' = "run" => (episodes'[Len(medias') + 1] = page0' /\ Expressible(cands[i])' => Piped(3, cands[i])')
        <4>1. OwnMedia(cands[i])' <=> OwnMedia(cands[i])
          BY <3>2, <3>6
        <4>2. Expressible(cands[i])' <=> Expressible(cands[i])
          BY <3>2, <3>6
        <4>3. Piped(3, cands[i])' <=> Piped(3, cands[i])
          BY <3>2, <3>6
        <4>4. /\ exphase \in {"run", "resolved"} => OwnMedia(cands[i])
              /\ exphase = "run" => (episodes[Len(medias) + 1] = page0 /\ Expressible(cands[i]) => Piped(3, cands[i]))
          BY <2>3, <3>4, <3>6 DEF LongUsed
        <4> QED
          BY <1>1, <3>4, <4>1, <4>2, <4>3, <4>4
      <3> QED
        BY <3>1, <3>5, <3>6 DEF LongUsed
    <2>4. /\ ex # NoConfig /\ IsList(ex.directives)
          /\ \/ \E i \in picked : OneUsed(i)
             \/ \E ere \in {ex.directives[2].arg[1].text} : ListUsed(ere)
             \/ LongUsed
      BY <1>6 DEF UseInv
    <2>5. \/ \E i \in picked' : OneUsed(i)'
          \/ \E ere \in {ex'.directives[2].arg[1].text} : ListUsed(ere)'
          \/ LongUsed'
      BY <1>1, <2>1, <2>2, <2>3, <2>4 DEF Still
    <2>6. scphase' = "saved" /\ exphase' # "write" /\ ex' = ex
      BY <1>1, <1>6 DEF Used, Still
    <2> QED
      BY <1>2, <2>4, <2>5, <2>6 DEF UseInv, Used
  <1> QED
    BY <1>3, <1>4, <1>5, <1>6

LEMMA UseKept ==
    ASSUME CapturesGiveLists, TextsCaptured, NoneIsNoExpression, ScanInv, UseInv, [ScanNext]_<<scvars, exvars>>
    PROVE  UseInv'
  <1>1. FitInv'
    BY FitKept DEF UseInv
  <1>2. CASE Discovery /\ UNCHANGED <<exphase, configs, ex, at, store, episodes, medias>>
    BY <1>1, <1>2, UseSearched
  <1>3. CASE (SaveTop \/ SaveChosen \/ SaveNothing) /\ UNCHANGED <<exphase, ex, at, store, episodes, medias>>
    BY <1>1, <1>3, UseSaved
  <1>4. CASE scphase = "saved" /\ Extract /\ UNCHANGED scvars /\ UNCHANGED site
    <2>1. Still
      BY <1>4 DEF scvars, Still
    <2>2. CASE Begin
      BY <1>1, <1>4, <2>1, <2>2, UseBegins
    <2>3. CASE ListDirective \/ ListEpisodes \/ Lost \/ RunDirective \/ Output \/ RunFails
      BY <1>1, <1>4, <2>1, <2>3, UseGoesOn
    <2> QED
      BY <1>4, <2>2, <2>3 DEF Extract
  <1>5. CASE UNCHANGED <<scvars, exvars>>
    BY <1>5, UseStays
  <1> QED
    BY <1>2, <1>3, <1>4, <1>5 DEF ScanNext

-----------------------------------------------------------------------------
(* What is used is what was chosen.                                           *)
LEMMA OneGives ==
    ASSUME FitInv, NEW i, OneUsed(i), Len(ex.directives) = 1 \/ Expressible(cands[i])
    PROVE  Gives(cands[i].url)
  <1> PICK c, D : c = cands[i] /\ D = ex.directives
    OBVIOUS
  <1>1. OneForm(D, i)
    BY DEF OneUsed
  <1>2. Len(D) = 1 => GiveAt(D, 1, <<Lit(TextOf(c.url))>>)
    <2> SUFFICES ASSUME c.chain # <<>>, PipeAt(D, 1, c), Len(D) = 1 PROVE FALSE
      BY <1>1 DEF OneForm
    <2>1. Len(c.chain) \in 1..MaxChain
      BY <1>1 DEF OneForm, FitInv, CandFit, ChainFit
    <2>2. MaxChain \in Nat
      BY ScanAssumption
    <2>3. Len(D) = 3 \/ Len(D) = 1 + 2 * Len(c.chain)
      BY DEF PipeAt, HandleAt, ChainAt
    <2> QED
      BY <2>1, <2>2, <2>3
  <1>3. GiveAt(D, 1, <<Lit(TextOf(c.url))>>) \/ Expressible(c)
    BY <1>2
  <1> QED
    BY <1>3 DEF OneUsed, Gives

LEMMA ListedGives ==
    ASSUME CapturesGiveLists, NEW ere, ListUsed(ere), NEW listed, listed # {},
           \A i \in listed : OnPage(cands[i], ere),
           \A k \in 1..Len(Captures(ere, site[Page])) :
             Resolve(Page, RefOf(Captures(ere, site[Page])[k])) \in {cands[i].url : i \in listed},
           Len(Captures(ere, site[Page])) <= MaxEpisodes
    PROVE  /\ exphase = "resolved" => ToSet(medias) = {cands[i].url : i \in listed}
           /\ exphase = "failed" => Here.kw = "get"
  <1> PICK found, urls : found = Captures(ere, site[Page]) /\ urls = {cands[i].url : i \in listed}
    OBVIOUS
  <1>1. ASSUME NEW i \in listed
        PROVE  \E k \in 1..Len(found) : Resolve(Page, RefOf(found[k])) = cands[i].url
    <2>1. Resolve(Page, RefOf(cands[i].ref)) = cands[i].url /\ Contains(found, cands[i].ref)
      BY <1>1 DEF OnPage
    <2> PICK k \in 1..Len(found) : found[k] = cands[i].ref
      BY <2>1 DEF Contains
    <2> QED
      BY <2>1
  <1>2. {Resolve(Page, RefOf(found[k])) : k \in 1..Len(found)} = urls
    BY <1>1
  <1>3. ASSUME exphase = "resolved" PROVE ToSet(medias) = urls
    <2>1. /\ IsList(episodes) /\ IsList(medias) /\ Len(medias) = Len(episodes)
          /\ ToSet(episodes) = urls /\ \A k \in 1..Len(medias) : medias[k] = episodes[k]
      BY <1>2, <1>3 DEF ListUsed, Spread, AllListed, SameMedias
    <2>2. DOMAIN episodes = 1..Len(episodes) /\ DOMAIN medias = 1..Len(medias)
      BY <2>1, ListIsSeq
    <2> QED
      BY <2>1, <2>2 DEF ToSet
  <1>4. found # <<>>
    <2>1. Len(<<>>) = 0
      OBVIOUS
    <2> QED
      BY <1>1, <2>1
  <1>5. exphase = "failed" => Here.kw = "get"
    BY <1>4 DEF ListUsed
  <1> QED
    BY <1>3, <1>5

(* What is found by the expression of the chosen candidates is one of them.   *)
LEMMA ChosenFound ==
    ASSUME AnyFinds, NEW n \in Nat, NEW picks, NEW o \in [1..n -> picks], NEW r, r = [k \in DOMAIN o |-> cands[o[k]].ref],
           \A i \in picks : OnPage(cands[i], AnyEre(r))
    PROVE  /\ AnyEre([k \in DOMAIN o |-> RawRef(cands[o[k]])]) = AnyEre(r)
           /\ \A k \in 1..Len(Captures(AnyEre(r), site[Page])) :
                Resolve(Page, RefOf(Captures(AnyEre(r), site[Page])[k])) \in {cands[i].url : i \in picks}
  <1>1. \A k \in DOMAIN o : o[k] \in picks
    OBVIOUS
  <1>2. \A k \in DOMAIN o : RawRef(cands[o[k]]) = cands[o[k]].ref
    BY <1>1 DEF OnPage, RawRef
  <1>3. [k \in DOMAIN o |-> RawRef(cands[o[k]])] = r
    BY <1>2
  <1>4. Len(r) = n
    <2>1. DOMAIN r = 1..n
      OBVIOUS
    <2>2. r = [k \in 1..n |-> r[k]]
      BY <2>1
    <2> QED
      BY <2>2, IsListOf
  <1>5. ASSUME NEW k \in 1..Len(Captures(AnyEre(r), site[Page]))
        PROVE  Resolve(Page, RefOf(Captures(AnyEre(r), site[Page])[k])) \in {cands[i].url : i \in picks}
    <2> PICK text1 : text1 = Captures(AnyEre(r), site[Page])[k]
      OBVIOUS
    <2>1. Contains(r, text1)
      BY <1>5 DEF AnyFinds
    <2> PICK j \in 1..n : r[j] = text1
      BY <1>4, <2>1 DEF Contains
    <2>2. o[j] \in picks /\ text1 = cands[o[j]].ref
      OBVIOUS
    <2>3. Resolve(Page, RefOf(text1)) = cands[o[j]].url
      BY <2>2 DEF OnPage
    <2> QED
      BY <2>2, <2>3
  <1> QED
    BY <1>3, <1>5

(* Any number of places can be put in order.                                  *)
LEMMA SomeOrder ==
    ASSUME NEW n \in Nat
    PROVE  InOrder(1..n) # {}
  <1> PICK o : o = [k \in 1..n |-> k]
    OBVIOUS
  <1>1. Cardinality(1..n) = n
    BY FS_Interval
  <1>2. o \in [1..n -> 1..n] /\ \A k, l \in 1..n : k < l => o[k] < o[l]
    OBVIOUS
  <1> QED
    BY <1>1, <1>2 DEF InOrder

LEMMA ListsGive ==
    ASSUME CapturesGiveLists, AnyFinds, ScanInv, IsList(ex.directives), NEW ere, ListUsed(ere)
    PROVE  ListRight
  <1> PICK D, found : D = ex.directives /\ found = Captures(ere, site[Page])
    OBVIOUS
  <1>1. ListForm(D, ere) /\ Listing(D, ere)
    BY DEF ListUsed, ListForm
  <1>2. D[ListAt(ex)].arg[1].text = ere
    BY <1>1, ListingHas
  <1>3. picked # {} /\ picked \subseteq DOMAIN cands
    BY <1>1 DEF ListForm
  <1>4. DOMAIN cands = 1..Len(cands) /\ Len(cands) \in Nat
    BY ListIsSeq DEF ScanInv, CandsRight
  <1>5. DOMAIN found = 1..Len(found)
    BY ListIsSeq DEF CapturesGiveLists
  <1> PICK listed : listed = IF ere = series THEN DOMAIN cands ELSE picked
    OBVIOUS
  <1> PICK urls, refs : /\ urls = {cands[i].url : i \in listed}
                        /\ refs = {[k \in DOMAIN o |-> cands[o[k]].ref] : o \in InOrder(listed)}
    OBVIOUS
  <1>6. ASSUME \A i \in listed, r \in refs : OnPage(cands[i], IF ere = series THEN series ELSE AnyEre(r)),
               ere = series => \A k \in DOMAIN found : Resolve(Page, RefOf(found[k])) \in urls,
               Len(found) <= MaxEpisodes
        PROVE  /\ exphase = "resolved" => ToSet(medias) = urls
               /\ exphase = "failed" => Here.kw = "get"
    <2>1. (\A i \in listed : OnPage(cands[i], ere)) /\ \A k \in 1..Len(found) : Resolve(Page, RefOf(found[k])) \in urls
      <3>1. CASE ere = series
        <4>1. InOrder(listed) # {}
          BY <1>4, <3>1, SomeOrder
        <4> PICK r : r \in refs
          BY <4>1
        <4> QED
          BY <1>5, <1>6, <3>1
      <3>2. CASE ere # series
        <4>1. listed = picked
          BY <3>2
        <4> PICK o \in InOrder(picked) : ere = AnyEre([k \in DOMAIN o |-> RawRef(cands[o[k]])])
          BY <1>1, <3>2 DEF ListForm
        <4> PICK r : r = [k \in DOMAIN o |-> cands[o[k]].ref]
          OBVIOUS
        <4>2. r \in refs
          BY <4>1
        <4>3. \A i \in picked : OnPage(cands[i], AnyEre(r))
          BY <1>6, <3>2, <4>1, <4>2
        <4>4. Cardinality(picked) \in Nat
          <5>1. IsFiniteSet(DOMAIN cands)
            BY <1>4, FS_Interval
          <5> QED
            BY <1>3, <5>1, FS_Subset, FS_CardinalityType
        <4>5. o \in [1..Cardinality(picked) -> picked]
          BY DEF InOrder
        <4>6. ere = AnyEre(r)
          BY <4>3, <4>4, <4>5, ChosenFound
        <4>7. \A k \in 1..Len(Captures(AnyEre(r), site[Page])) :
                Resolve(Page, RefOf(Captures(AnyEre(r), site[Page])[k])) \in {cands[i].url : i \in picked}
          BY <4>3, <4>4, <4>5, ChosenFound
        <4> QED
          BY <4>1, <4>3, <4>6, <4>7
      <3> QED
        BY <3>1, <3>2
    <2>2. listed # {}
      BY <1>3
    <2> QED
      BY <1>6, <2>1, <2>2, ListedGives
  <1> QED
    BY <1>2, <1>6 DEF ListRight

LEMMA UsedRight ==
    ASSUME CapturesGiveLists, AnyFinds, ScanInv, UseInv, Used
    PROVE  ex # NoConfig /\ OneRight /\ ListRight /\ EpisodeRight
  <1>1. /\ FitInv /\ ex # NoConfig /\ IsList(ex.directives)
        /\ \/ \E i \in picked : OneUsed(i)
           \/ \E ere \in {ex.directives[2].arg[1].text} : ListUsed(ere)
           \/ LongUsed
    BY DEF UseInv
  <1>2. ASSUME NEW i, OneUsed(i) PROVE OneRight /\ ListRight /\ EpisodeRight
    <2>1. OneForm(ex.directives, i) /\ picked = {i}
      BY <1>2 DEF OneUsed, OneForm
    <2>2. ~Has(ex, "list")
      BY <1>1, <2>1, OneNoList
    <2>3. OneRight
      BY <1>1, <1>2, <2>1, OneGives DEF OneRight
    <2> QED
      BY <2>2, <2>3 DEF ListRight, EpisodeRight
  <1>3. ASSUME NEW ere, ListUsed(ere) PROVE OneRight /\ ListRight /\ EpisodeRight
    <2>1. ListForm(ex.directives, ere) /\ Listing(ex.directives, ere)
      BY <1>3 DEF ListUsed, ListForm
    <2>2. Has(ex, "list")
      BY <1>1, <2>1, ListingHas
    <2>3. ListRight
      BY <1>1, <1>3, ListsGive
    <2>4. ASSUME NEW i \in picked, picked = {i} PROVE page0 = None
      <3>1. cands[i].chain = <<>> /\ i \in DOMAIN cands
        BY <2>1, <2>4 DEF ListForm
      <3> QED
        BY <1>1, <3>1 DEF FitInv, CandFit
    <2>5. EpisodeRight
      BY <2>4 DEF EpisodeRight
    <2> QED
      BY <2>2, <2>3, <2>5 DEF OneRight
  <1>4. ASSUME LongUsed PROVE OneRight /\ ListRight /\ EpisodeRight
    <2>1. Listing(ex.directives, series) /\ Last(ex.directives).arg # ThisUrl
      BY <1>4 DEF LongUsed, LongForm
    <2>2. Has(ex, "list")
      BY <1>1, <2>1, ListingHas
    <2>3. ASSUME NEW i \in picked, NEW k \in DOMAIN medias, exphase = "resolved", picked = {i},
                 Expressible(cands[i]), episodes[k] = page0
          PROVE  medias[k] \in {None, cands[i].url}
      <3>1. OwnMedia(cands[i]) /\ Spread
        BY <1>4, <2>3 DEF LongUsed
      <3>2. k \in 1..Len(medias)
        BY <2>3, <3>1, ListIsSeq DEF Spread
      <3> QED
        BY <2>3, <3>1, <3>2 DEF OwnMedia
    <2> QED
      BY <2>1, <2>2, <2>3 DEF OneRight, ListRight, EpisodeRight
  <1> QED
    BY <1>1, <1>2, <1>3, <1>4

LEMMA UseInvInit ==
    ASSUME ScanInit, ExtractorInit
    PROVE  UseInv
  <1>1. FitInv
    BY FitBegins
  <1>2. scphase = "fetch" /\ exphase = "write"
    BY DEF ScanInit, ExtractorInit
  <1>3. configs = Begun /\ ex = NoConfig /\ at = 1 /\ store = OnlyUrl(Page) /\ episodes = <<>> /\ medias = <<>>
    BY DEF ExtractorInit
  <1> QED
    BY <1>1, <1>2, <1>3 DEF UseInv, Used

(* The config that a scan writes, used as it is on the page that was scanned, *)
(* is the one the extractor takes, and gives what was chosen: the URL of one  *)
(* candidate, written down or by the pages that lead to it; the candidates    *)
(* that the list's expression finds on the page; or, for the first episode of *)
(* a series, that episode's media (scan_emit_config and                       *)
(* scan_emit_config_selection in scan.c, extractor_setup and                  *)
(* extractor_resolve in extractor.c).  Whatever the expressions find, if      *)
(* every match is a text, and the expression of several texts finds these and *)
(* nothing else.                                                              *)
THEOREM ConfigAlwaysReproduces ==
    ASSUME CapturesGiveLists, TextsCaptured, AnyFinds, NoneIsNoExpression
    PROVE  ScanSpec => []ConfigReproduces
  <1>1. ScanInit /\ ExtractorInit => ScanInv /\ UseInv
    BY ScanInvInit, UseInvInit
  <1>2. ScanInv /\ UseInv /\ [ScanNext]_<<scvars, exvars>> => (ScanInv /\ UseInv)'
    <2> SUFFICES ASSUME ScanInv, UseInv, [ScanNext]_<<scvars, exvars>> PROVE ScanInv' /\ UseInv'
      OBVIOUS
    <2> QED
      BY ScanInvKept, UseKept
  <1>3. ScanInv /\ UseInv => ConfigReproduces
    BY UsedRight DEF ConfigReproduces
  <1> QED
    BY <1>1, <1>2, <1>3, PTL DEF ScanSpec

=============================================================================
