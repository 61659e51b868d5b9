--------------------------- MODULE MCCommandLine ---------------------------
(* Command lines over a handful of short URLs.  The patterns of Wide expand *)
(* to many URLs and are given with one output file, which is refused.       *)
EXTENDS CommandLine

MCSpeeds == {1, 2}

Text(c) == Run(c, 1)
Slash == Sym("/")
Brace(s) == <<Sym("{")>> \o s \o <<Sym("}")>>
Bracket(s) == <<Sym("[")>> \o s \o <<Sym("]")>>
Host == <<Text("h"), Slash>>
F == Text("f")
Dir == <<Text("d")>>
MCDirectories == {Dir}
Ref(i) == Token("#", i, 2)
AB == Brace(<<Text("a"), Sym(","), Text("b")>>)
OneTwo == Bracket(<<Num(1, 1), Sym("-"), Num(2, 1)>>)

Command == [mode |-> "url", url |-> Host \o <<F>>, out |-> <<>>, noclobber |-> FALSE,
            episodes |-> <<>>, select |-> "all", spec |-> {}]

Url(url, out) == [Command EXCEPT !.url = url, !.out = out]

Colliding == Host \o AB \o <<Slash, F>>
Apart == Host \o <<F>> \o OneTwo
MCNorest == {Host \o <<F, Num(2, 1)>>}

Batches == {Url(Colliding, <<>>), Url(Apart, <<>>), Url(Apart, Dir), Url(Apart, <<F, Ref(1)>>),
            Url(Host \o AB \o <<Slash>> \o OneTwo, <<Ref(2)>>), Url(Colliding, <<Ref(7)>>)}

\* Its server does not support ranges.
NoRanges == Url(Host \o <<F, Num(2, 1)>>, <<F>>)

Single == {NoRanges, Url(Host \o <<F>>, <<>>), Url(Host \o <<F>>, <<F>>), [Command EXCEPT !.noclobber = TRUE],
           Url(Host \o <<F, M3u8>>, <<>>), Url(Host \o <<F, M3u8>>, Dir),
           [Command EXCEPT !.mode = "mirrors"], [Command EXCEPT !.mode = "search"]}

D(v) == Num(v, 1)
L(c) == Letter(c)
Wide == {Url(u, <<F>>) : u \in {
    Brace(<<Num(8, 2), DotDot, Num(10, 2)>>), Brace(<<D(3), DotDot, D(1)>>),
    Brace(<<Num(10, 2), DotDot, Num(8, 2)>>), Brace(<<Num(10, 2), DotDot, Num(8, 3)>>),
    Brace(<<D(0), DotDot, D(6), DotDot, D(2)>>), Brace(<<D(0), DotDot, D(6), DotDot, D(0)>>),
    Bracket(<<D(3), Sym("-"), D(1)>>), Bracket(<<D(1), Sym("-"), D(6), Sym(":"), D(3)>>),
    Bracket(<<D(1), Sym("-"), D(2), Sym("-"), D(3)>>), Bracket(<<L(97), Sym("-"), L(101), Sym(":"), D(2)>>),
    Brace(<<L(99), DotDot, L(97)>>), Brace(<<Sym(","), F>>) \o <<F>>, Brace(<<F>>) \o OneTwo,
    Brace(<<F>> \o OneTwo), AB \o OneTwo \o <<F>> \o AB, AB \o OneTwo \o AB \o AB, <<Sym("{")>> \o OneTwo,
    Brace(<<D(1), DotDot, Num(99, 2)>>), <<>>, <<F, F, F, F, F, F>> \o AB, AB \o <<F, Sym("[")>> \o AB}}

Episode(n, media) == [number |-> n, media |-> media]
Ep(n) == Host \o <<Num(n, 1)>>
SeriesOf(eps, select, out) ==
    [Command EXCEPT !.mode = "series", !.episodes = eps, !.select = select, !.spec = {1, 2}, !.out = out]
ThreeEps == <<Episode(3, Ep(3)), Episode(-1, Host), Episode(1, Ep(1) \o <<M3u8>>)>>

AllSeries == {SeriesOf(ThreeEps, "all", Dir), SeriesOf(ThreeEps, "tui", <<>>), SeriesOf(ThreeEps, "list", <<F>>),
              SeriesOf(<<Episode(1, Ep(1)), Episode(2, <<>>)>>, "all", <<>>),
              SeriesOf(<<Episode(1, Ep(1)), Episode(2, <<>>)>>, "invalid", <<>>),
              SeriesOf(<<Episode(2, Ep(2)), Episode(1, Ep(1))>>, "all", Dir),
              SeriesOf(<<Episode(1, Ep(1))>>, "all", <<F>>),
              SeriesOf(<<Episode(1, Ep(1) \o <<M3u8>>)>>, "all", <<F>>)}

MCCommands == Batches \cup Single \cup Wide \cup AllSeries

MCBefore == {{}, {<<F>>}, {<<F, Num(1, 1)>>}, {<<F>>, <<F, Sym("."), Num(0, 1)>>}}

\* Two episodes whose media are called the same.
MCSameLeaf == {SeriesOf(<<Episode(1, Host \o <<Text("a"), Slash, F>>),
                          Episode(2, Host \o <<Text("b"), Slash, F>>)>>, "all", Dir)}

=============================================================================
