----------------------------- MODULE MCSources -----------------------------
(***************************************************************************)
(* Where the URLs of downloads come from, on a small instance: a playlist, *)
(* a page for which there may be a config, a page to write a config for,   *)
(* and a choice of the user; each behaviour is about one of them.          *)
(***************************************************************************)
EXTENDS HlsPlaylist, PageScan, Selection, TLC

VARIABLE part

allvars == <<part, plvars, exvars, selvars, scvars>>

\* A master playlist with variants above and below the height asked for, with and
\* without audio; and two keys, the first with an IV and without.
Stream(path) == Url("http", "cdn", path)

StreamInf(bw, h, group) == [tag |-> "STREAM-INF", bw |-> bw, h |-> h, group |-> group]
Rendition(default, ref) == [tag |-> "MEDIA", type |-> "AUDIO", group |-> "a", default |-> default, ref |-> ref]
UrlLine(ref) == [tag |-> "URL", ref |-> ref]
Key_(method, ref, iv) == [tag |-> "KEY", method |-> method, ref |-> ref, iv |-> iv]

MCPlaylists == {Stream(<<"v", "list">>)}
MCQualities == {Quality("best", 0), Quality("worst", 0), Quality("height", 500)}
MCMasterLines ==
    { StreamInf(1, 0, None), StreamInf(2, 480, None), StreamInf(1, 720, "a"), StreamInf(2, 720, "a"),
      Rendition(FALSE, Relative(<<"it">>)), Rendition(TRUE, Relative(<<"en">>)), Rendition(TRUE, None),
      UrlLine(Relative(<<"x">>)) }
MCMediaLines ==
    { UrlLine(Relative(<<"s">>)), [tag |-> "EXTINF"], [tag |-> "MEDIA-SEQUENCE", number |-> 7], [tag |-> "MAP"],
      Key_("NONE", None, None), Key_("SAMPLE-AES", Rooted(<<"k">>), None),
      Key_("AES-128", Rooted(<<"k">>), None), Key_("AES-128", Rooted(<<"k">>), <<"iv", "i">>),
      Key_("AES-128", Rooted(<<"l">>), None) }

\* A text is what is in it that an expression may match: references, each with the
\* kinds of expressions that match it there.
On(path) == Url("http", "site", path)

El(kinds, ref) == [kinds |-> kinds, ref |-> ref]

MCNumbered == [n \in {"e0", "e1", "e2"} |-> "e#"] @@ [n \in {"v1.mp4", "v2.mp4"} |-> "v#.mp4"]
MCLoosened == MCNumbered @@ ("abcdef" :> "*")
MCExt == [n \in {"v1.mp4", "v2.mp4", "w.mp4"} |-> "mp4"] @@ ("w.mkv" :> "mkv")
MCHandles == ("watch?file=v1.mp4" :> <<"file", "v1.mp4">>) @@ ("watch?file=w.mkv" :> <<"file", "w.mkv">>)

Quoted == {"file", "video", "data", "href", "link", "ep"}   \* kinds

HasExt(ref, ext) == ref # <<>> /\ Last(ref) \in DOMAIN MCExt /\ MCExt[Last(ref)] = ext

Found_(pattern, el) ==
    LET p == pattern[1]
    IN  IF p = "any" THEN IF Contains(pattern[2], el.ref) THEN <<el.ref>> ELSE <<>>
        ELSE IF p = "href"
        THEN IF "href" \in el.kinds /\ Tail(pattern) \in {Generalized(MCNumbered, el.ref), Generalized(MCLoosened, el.ref)}
             THEN <<el.ref>> ELSE <<>>
        ELSE IF p \in {"bare", "quoted"}
        THEN IF /\ HasExt(el.ref, pattern[2])
                /\ IF p = "bare" THEN el.ref[1] = "http:" ELSE el.kinds \cap Quoted # {}
             THEN <<el.ref>> ELSE <<>>
        ELSE IF p = "handle"
        THEN IF /\ el.ref # <<>> /\ Last(el.ref) \in DOMAIN MCHandles
                /\ MCHandles[Last(el.ref)][1] = pattern[2] /\ HasExt(<<MCHandles[Last(el.ref)][2]>>, pattern[3])
             THEN <<<<MCHandles[Last(el.ref)][2]>>>> ELSE <<>>
        ELSE IF p \in el.kinds THEN <<el.ref>> ELSE <<>>

MCScanCaptures(pattern, page) == FlattenSeq([i \in DOMAIN page |-> Found_(pattern, page[i])])

\* Tags in capitals, which expressions with tags in them do not match.
Capitals(el) == El(el.kinds \cup {"capitals"}, el.ref)

Tagless == {"any", "bare", "quoted", "handle"}

MCCaptures(pattern, page) ==
    MCScanCaptures(pattern, SelectSeq(page, LAMBDA el : "capitals" \notin el.kinds \/ pattern[1] \in Tagless))

\* A series of two episodes, one of them linked twice; a config of the user's in
\* the making, one without a name, and a complete one.
Expr(name) == <<name>>
Text(name) == <<Lit(<<name>>)>>
Own(name) == Get(name, ThisUrl)

MCPage == On(<<"s", "e0">>)
MCPath == <<"scanned", "user", "broken", "system">>
MCBegun ==
    [scanned |-> <<>>,
     user |-> <<Name("n"), Match(<<"series">>), Own("a"), Own("b"), Own("c"), Own("d")>>,
     broken |-> <<Match(<<"series">>), Give(Text("a"))>>,
     system |-> <<Name("n"), Match(<<"series">>),
                  Own("page"), Take("list", "eps", "page", Expr("link")),
                  Own("p"), Header(ThisUrl), Take("var", "m", "p", Expr("media")),
                  Give(<<Lit(<<"/", "cdn">>), Var("m")>>)>>]
MCLines ==
    { Own("page"), Header(<<Var("m")>>), Take("list", "eps", "page", Expr("link")),
      Take("var", "m", "page", Expr("media")), Give(<<Var("m")>>), Get("url", <<Var("m")>>), [kw |-> "junk"] }

E1 == On(<<"s", "e1">>)
E2 == On(<<"s", "e2">>)
Link_(ref) == El({"link"}, ref)
Media_(ref) == El({"media"}, ref)
Listed ==
       (MCPage :> <<Link_(<<"e1">>), Link_(<<"/", "s", "e2">>), Link_(<<"//", "site", "s", "e1">>), Media_(<<"trailer">>)>>)
    @@ (E1 :> <<Media_(<<"m1">>)>>) @@ (E2 :> <<Media_(<<"m2">>), Media_(<<"m3">>)>>)
    @@ (On(<<"s", "m2">>) :> <<>>)

\* Sites to be scanned: pages with media, in an iframe too, with links, episodes,
\* and none of these; the pages that they lead to have media, or links to each
\* other, to where they are, and to an ad.
Video(ref) == El({"video", "src="}, ref)
Js(ref) == El({"js"}, ref)
File(ref) == El({"file", "href", "a"}, ref)
Inner(ref) == El({"iframe"}, ref)
Watch(ref) == El({"watch", "a", "href"}, ref)
Anchor(ref) == El({"a", "href"}, ref)
Episode(ref) == El({"ep", "a", "href"}, ref)
At(host, name) == <<"http:", host, name>>

Landings ==
    { <<Video(<<"v1.mp4">>), Video(At("cdn", "w.mkv")), Inner(<<"e1">>)>>,
      <<File(<<"v1.mp4">>), File(<<"w.mp4">>), File(<<"v2.mp4">>)>>,
      <<File(At("cdn", "v1.mp4")), File(At("cdn", "v2.mp4")), File(<<"w.mp4">>)>>,
      <<File(<<"w.mkv">>), File(<<"w.mp4">>), File(At("site", "v1.mp4")), El({"data"}, <<"v2.mp4">>)>>,
      <<Js(<<"v1.mp4">>)>>,
      <<File(<<"v1.mp4">>), File(<<"v1.mp4">>), File(<<"w.mp4">>), File(<<"v2.mp4">>)>>,
      <<Anchor(<<"#">>), Anchor(<<"login">>), Watch(At("ads", "e1")), Watch(<<"e1">>), Watch(<<"/", "p", "x">>)>>,
      <<Watch(<<"watch?file=v1.mp4">>), Anchor(<<"abcdef">>)>>,
      <<Anchor(<<"abcdef">>), Anchor(<<"e1">>), Anchor(<<"e0">>)>>,
      <<Episode(<<"e1">>), Watch(<<"x">>), Episode(<<"e2">>)>>,
      <<Episode(<<"e0">>), Episode(<<"e1">>)>>,
      <<Anchor(<<"e2">>), Anchor(<<"/", "s", "e1">>), Anchor(<<"e1">>)>>,
      <<Inner(At("cdn", "x")), Inner(<<"e1">>)>>,
      <<Capitals(Watch(<<"/", "p", "x">>)), Anchor(<<"login">>)>>,
      <<Capitals(Watch(At("ads", "e1"))), Watch(<<"/", "p", "x">>), Capitals(Episode(<<"e1">>)), Episode(<<"e2">>)>>,
      <<>> }
Firsts ==
    { <<Video(<<"v1.mp4">>)>>, <<Inner(<<"/", "p", "x">>)>>, <<Capitals(Video(<<"v1.mp4">>)), Js(<<"v2.mp4">>)>>,
      <<Watch(<<"e0">>), Anchor(<<"e2">>), Anchor(<<"/", "p", "x">>), Watch(<<"e1">>)>> }
Others_ ==
    { <<Video(<<"v1.mp4">>)>>, <<Js(At("cdn", "v1.mp4"))>>, <<Watch(<<"/", "s", "e1">>)>> }
Pages == {On(<<"s", "abcdef">>), E2, On(<<"s", "watch?file=v1.mp4">>), On(<<"p", "x">>)}
MCSites ==
    {Listed} \cup
    { (MCPage :> l) @@ (E1 :> f) @@ [u \in Pages |-> o] : l \in Landings, f \in Firsts, o \in Others_ }

MCWanted == {<<<<"series">>, MCPage>>, <<<<"site">>, MCPage>>, <<<<"site", "s">>, MCPage>>}
MCDirectEres == <<Expr("video"), Expr("file")>>
MCIframeEre == Expr("iframe")
MCLinkEres == <<Expr("watch"), Expr("iframe")>>
MCAnchorEre == Expr("a")
MCEpisodeEres == <<Expr("ep")>>
MCMediaEres == <<Expr("video"), Expr("js")>>
MCRelated == (<<"e#">> :> 1)
MCRelevance == (<<"e1">> :> 1) @@ (<<"e2">> :> 1) @@ (<<"abcdef">> :> 2) @@ (<<"e0">> :> 0) @@ (<<"/", "p", "x">> :> 0)

\* What the theorems ask of all expressions holds of these: a match is a list, and
\* where several texts are looked for, one of them.
MCRefs(page) == {page[i].ref : i \in DOMAIN page}
MCEres(page) ==
    ToSet(MCDirectEres \o MCLinkEres \o MCEpisodeEres \o MCMediaEres \o <<MCIframeEre, MCAnchorEre>>)
    \cup {HrefEre(Generalized(MCLoosened, ref)) : ref \in MCRefs(page)} \cup {AnyEre(<<a, b>>) : a, b \in MCRefs(page)}
    \cup {HandleEre("file", "mp4"), HandleEre("file", "mkv"), BareEre("mp4"), QuotedEre("mp4")}

ASSUME MatchesAssumption ==
    \A s \in MCSites : \A url \in DOMAIN s : \A ere \in MCEres(s[url]) :
      /\ ere # None
      /\ \A found \in {MCCaptures(ere, s[url]), MCScanCaptures(ere, s[url])} :
           /\ IsList(found)
           /\ \A i \in 1..Len(found) : IsList(found[i]) /\ (ere[1] = "any" => Contains(ere[2], found[i]))

MCInit ==
    /\ part \in {"playlist", "page", "choice", "scan"}
    /\ PlaylistInit /\ ExtractorInit /\ SelectionInit /\ ScanInit
    /\ part # "choice" => ~inline /\ rows = Max(Rows)
    /\ part # "scan" => site = Listed /\ maxdepth = 0
    /\ part = "scan" => site # Listed

MCNext ==
    /\ UNCHANGED part
    /\ \/ part = "playlist" /\ PlaylistNext /\ UNCHANGED <<exvars, selvars, scvars>>
       \/ part = "page" /\ ExtractorNext /\ UNCHANGED <<plvars, selvars, scvars>>
       \/ part = "choice" /\ SelectionNext /\ UNCHANGED <<plvars, exvars, scvars>>
       \/ part = "scan" /\ ScanNext /\ UNCHANGED <<plvars, selvars>>

MCSpec == MCInit /\ [][MCNext]_allvars

=============================================================================
