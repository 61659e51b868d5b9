------------------------------ MODULE UrlGlob ------------------------------
(***************************************************************************)
(* URL expansion (src/src/url_glob.c): the ranges and lists of a URL and   *)
(* the URLs it stands for, each with the text every pattern has in it.     *)
(*                                                                         *)
(* A text is a sequence of tokens: a special character, a run of digits    *)
(* with its value and length, a single letter, or any other run of text.   *)
(* Scanning a URL for patterns and writing out one URL are the steps.      *)
(***************************************************************************)
EXTENDS Integers, Sequences, SequencesExt, FiniteSetsExt

CONSTANTS MaxUrls,   \* URL_GLOB_MAX_URLS
          MaxLen     \* max_len: an expanded URL is shorter

ASSUME GlobAssumption == MaxUrls \in Nat \ {0} /\ MaxLen \in Nat \ {0}

Token(kind, val, len) == [kind |-> kind, val |-> val, len |-> len]
Sym(c) == Token(c, 0, 1)
DotDot == Token("..", 0, 2)
Num(v, len) == Token("digits", v, len)
Letter(code) == Token("letter", code, 1)
Run(name, len) == Token(name, 0, len)

Tokens == [kind : STRING, val : Int, len : Nat]

VARIABLES src,        \* the URL
          at,         \* "scan", "generate", "expanded" or "error"
          pos,        \* where the scan has come to
          lit_start,  \* where the literal text before it began
          segs,       \* the literal runs and the patterns found
          product,    \* how many URLs there are
          idx,        \* for each pattern, the alternative the next URL takes
          items       \* the URLs written out: [url, caps]

globvars == <<src, at, pos, lit_start, segs, product, idx, items>>

-----------------------------------------------------------------------------
(***************************************************************************)
(* The alternatives of one group, of r = "literal" if it is no pattern     *)
(***************************************************************************)

NoPattern == [r |-> "literal", alts |-> <<>>]
TooMany == [r |-> "error", alts |-> <<>>]
Pattern(alts) == [r |-> "pattern", alts |-> alts]

Find(s, token) == SelectInSeq(s, LAMBDA t : t = token)
FindFrom(s, from, token) == SelectInSubSeq(s, from, Len(s), LAMBDA t : t = token)

\* What is before the first separator, and what is after it.
Before(s, token) == IF Find(s, token) = 0 THEN s ELSE SubSeq(s, 1, Find(s, token) - 1)
After(s, token) == IF Find(s, token) = 0 THEN <<>> ELSE SubSeq(s, Find(s, token) + 1, Len(s))

\* The texts between the commas.
BuildList(c) ==
    LET cuts == {0, Len(c) + 1} \cup {i \in DOMAIN c : c[i] = Sym(",")}
        cut(k) == CHOOSE i \in cuts : Cardinality({j \in cuts : j < i}) = k
        n == Cardinality(cuts) - 1
    IN  IF n > MaxUrls THEN TooMany
        ELSE Pattern([k \in 1..n |-> SubSeq(c, cut(k - 1) + 1, cut(k) - 1)])

\* parse_uint takes all of the text; a letter stands alone.
IsNumber(s) == Len(s) = 1 /\ s[1].kind = "digits"
IsLetter(s) == Len(s) = 1 /\ s[1].kind = "letter"

DigitsOf(v) == CHOOSE n \in 1..19 : v < 10 ^ n /\ (n = 1 \/ v >= 10 ^ (n - 1))

LeadingZero(s) == s[1].len > DigitsOf(s[1].val)

Larger(a, b) == IF a > b THEN a ELSE b

\* {a..b..step} may descend, [a-b:step] only ascends.
BuildRange(open, c) ==
    LET sep == IF open = "{" THEN DotDot ELSE Sym("-")
        stepsep == IF open = "{" THEN DotDot ELSE Sym(":")
        start == Before(c, sep)
        rest == After(c, sep)
        end == Before(rest, stepsep)
        stepping == Find(rest, stepsep) # 0
        steptext == After(rest, stepsep)
        numeric == IsNumber(start) /\ IsNumber(end)
        alpha == IsLetter(start) /\ IsLetter(end)
        lo == start[1].val
        hi == end[1].val
        span == IF lo <= hi THEN hi - lo ELSE lo - hi
        by == IF stepping THEN steptext[1].val ELSE 1
        n == span \div by + 1
        width == IF LeadingZero(start) \/ LeadingZero(end) THEN Larger(start[1].len, end[1].len) ELSE 0
        value(k) == IF lo <= hi THEN lo + k * by ELSE lo - k * by
        text(v) == IF numeric THEN Num(v, Larger(width, DigitsOf(v))) ELSE Letter(v)
    IN  IF \/ Find(c, sep) = 0
           \/ stepping /\ ~(IsNumber(steptext) /\ steptext[1].val >= 1)
           \/ ~numeric /\ ~alpha
           \/ open = "[" /\ lo > hi
        THEN NoPattern
        ELSE IF n > MaxUrls THEN TooMany
        ELSE Pattern([k \in 1..n |-> <<text(value(k - 1))>>])

BuildPattern(open, c) ==
    IF open = "[" \/ Find(c, DotDot) # 0 THEN BuildRange(open, c)
    ELSE IF Find(c, Sym(",")) # 0 THEN BuildList(c)
    ELSE NoPattern

Closing(open) == IF open = "{" THEN Sym("}") ELSE Sym("]")

\* A bracket at i with its closing one: what it stands for.
GroupAt(i) ==
    LET j == FindFrom(src, i + 1, Closing(src[i].kind))
    IN  IF j = 0 THEN NoPattern ELSE BuildPattern(src[i].kind, SubSeq(src, i + 1, j - 1))

-----------------------------------------------------------------------------

Literal(s) == [pattern |-> FALSE, alts |-> <<s>>]

WithLiteral(upto) ==
    IF upto > lit_start THEN Append(segs, Literal(SubSeq(src, lit_start, upto - 1))) ELSE segs

\* How many of the first n segments are patterns.
PatternsIn(segments, n) == Cardinality({s \in 1..n : segments[s].pattern})

PatternsOf(segments) ==
    [k \in 1..PatternsIn(segments, Len(segments)) |->
        segments[CHOOSE s \in DOMAIN segments : segments[s].pattern /\ PatternsIn(segments, s) = k]]

Pats == PatternsOf(segs)
NCaps == Len(Pats)

GlobInit ==
    /\ src = <<>> /\ at = "idle"
    /\ pos = 1 /\ lit_start = 1
    /\ segs = <<>> /\ product = 1
    /\ idx = <<>> /\ items = <<>>

\* url_glob is called.
GlobStart(url) ==
    /\ src' = url /\ at' = "scan"
    /\ pos' = 1 /\ lit_start' = 1
    /\ segs' = <<>> /\ product' = 1
    /\ idx' = <<>> /\ items' = <<>>

ScanLiteral ==
    /\ at = "scan" /\ pos <= Len(src)
    /\ src[pos].kind \in {"{", "["} => GroupAt(pos).r = "literal"
    /\ pos' = pos + 1
    /\ UNCHANGED <<src, at, lit_start, segs, product, idx, items>>

ScanPattern ==
    /\ at = "scan" /\ pos <= Len(src)
    /\ src[pos].kind \in {"{", "["}
    /\ GroupAt(pos).r = "pattern"
    /\ LET alts == GroupAt(pos).alts
           next == FindFrom(src, pos + 1, Closing(src[pos].kind)) + 1
       IN  /\ product * Len(alts) <= MaxUrls
           /\ product' = product * Len(alts)
           /\ segs' = Append(WithLiteral(pos), [pattern |-> TRUE, alts |-> alts])
           /\ pos' = next /\ lit_start' = next
    /\ UNCHANGED <<src, at, idx, items>>

\* A range, a list or the product of several is too large.
ScanError ==
    /\ at = "scan" /\ pos <= Len(src)
    /\ src[pos].kind \in {"{", "["}
    /\ \/ GroupAt(pos).r = "error"
       \/ GroupAt(pos).r = "pattern" /\ product * Len(GroupAt(pos).alts) > MaxUrls
    /\ at' = "error"
    /\ UNCHANGED <<src, pos, lit_start, segs, product, idx, items>>

ScanEnd ==
    /\ at = "scan" /\ pos > Len(src)
    /\ segs' = WithLiteral(pos)
    /\ idx' = [k \in 1..NCaps |-> 0]
    /\ at' = "generate"
    /\ UNCHANGED <<src, pos, lit_start, product, items>>

TextOf(s) == IF segs[s].pattern THEN segs[s].alts[idx[PatternsIn(segs, s)] + 1] ELSE segs[s].alts[1]

NextUrl == FlattenSeq([s \in DOMAIN segs |-> TextOf(s)])

Length(text) == MapThenSumSet(LAMBDA i : text[i].len, DOMAIN text)

\* The odometer: the last pattern that is not at its end moves on, those after
\* it start again.
NextIdx_LeftFirst ==
    LET free == {k \in DOMAIN idx : idx[k] + 1 < Len(Pats[k].alts)}
    IN  [k \in DOMAIN idx |-> IF free = {} THEN 0 ELSE IF k < Min(free) THEN 0 ELSE IF k = Min(free) THEN idx[k] + 1 ELSE idx[k]]
NextIdx ==
    LET last == Max({0} \cup {k \in DOMAIN idx : idx[k] + 1 < Len(Pats[k].alts)})
    IN  [k \in DOMAIN idx |-> IF k < last THEN idx[k] ELSE IF k = last THEN idx[k] + 1 ELSE 0]

Generate ==
    /\ at = "generate" /\ Len(items) < product
    /\ IF Length(NextUrl) >= MaxLen
       THEN at' = "error" /\ UNCHANGED <<items, idx>>
       ELSE /\ items' = Append(items, [url |-> NextUrl,
                                       caps |-> [k \in 1..NCaps |-> Pats[k].alts[idx[k] + 1]]])
            /\ idx' = NextIdx
            /\ at' = IF Len(items') = product THEN "expanded" ELSE "generate"
    /\ UNCHANGED <<src, pos, lit_start, segs, product>>

GlobNext == ScanLiteral \/ ScanPattern \/ ScanError \/ ScanEnd \/ Generate

-----------------------------------------------------------------------------

\* How many URLs one turn of pattern k lasts.
WeightOf(pats, k) ==
    LET turns[i \in 0..Len(pats)] == IF i = 0 THEN 1 ELSE turns[i - 1] * Len(pats[Len(pats) - i + 1].alts)
    IN  turns[Len(pats) - k]

Weight(k) == WeightOf(Pats, k)

\* What a URL without its brackets and one with a text for each pattern have in
\* common: the n-th one (from 0) takes the n-th combination in the order in which
\* the rightmost pattern changes fastest.
Choice(n, k) == (n \div Weight(k)) % Len(Pats[k].alts)

\* The URLs are the combinations of the alternatives, each of them exactly once
\* and in order (Choice is a bijection), with captures that give the URL back.
ExpansionExact ==
    at \in {"generate", "expanded"} =>
        /\ product = Weight(0)
        /\ at = "expanded" => Len(items) = product
        /\ \A n \in DOMAIN items :
             /\ items[n].caps = [k \in 1..NCaps |-> Pats[k].alts[Choice(n - 1, k) + 1]]
             /\ items[n].url = FlattenSeq([s \in DOMAIN segs |->
                    IF segs[s].pattern THEN items[n].caps[PatternsIn(segs, s)] ELSE segs[s].alts[1]])

=============================================================================
