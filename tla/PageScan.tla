------------------------------ MODULE PageScan ------------------------------
(***************************************************************************)
(* The page scanner (src/src/scan.c) and its use by run_extract_scan       *)
(* (src/src/text.c): a page, its iframes and the pages that its links lead *)
(* to are searched for media, and a config is written for the extractor.   *)
(*                                                                         *)
(* The regular expressions are constants and texts, and so are those that  *)
(* are put together: <<"href">> and a template; <<"any">> and the list of  *)
(* the texts to be found; and with an extension, <<"bare">> (a URL),       *)
(* <<"quoted">>, and <<"handle", token>> (the value of token=).  The       *)
(* scanner takes upper and lower case for the same and the extractor does  *)
(* not, so that they may find different things with the same expression.   *)
(* Google Drive's links are left out, and so is the order of the           *)
(* candidates, which depends on what the servers say of their sizes.       *)
(***************************************************************************)
EXTENDS Extractor

CONSTANTS Depths,     \* --extract-scan-depth
          ScanFile,   \* the file that the config is written to
          ScanCaptures(_, _),   \* Captures with REG_ICASE
          DirectEres, IframeEre, LinkEres, AnchorEre, EpisodeEres, MediaEres,
          Ext,        \* the names of media and their extensions
          Numbered,   \* [name -> name without its numbers], for names with numbers
          Loosened,   \* the same for numbers and long runs of letters and digits
          HandleNames,     \* names in front of a = in a link
          Related,    \* [template -> how near it is to the page's URL], 0 if not in it
          Relevance,  \* [reference -> score_link]; those that are penalised are not in it
          AdHosts,
          MaxCandidates, MaxFollow, MaxChain, MaxFetches, SeriesMin, MaxHrefs, MaxPool

ASSUME ScanAssumption ==
    /\ MaxChain <= 4 /\ Depths \subseteq 0..(MaxChain - 1)
    /\ ScanFile \in ToSet(Path)
    /\ {MaxCandidates, MaxFollow, MaxChain, MaxFetches, SeriesMin, MaxHrefs, MaxPool} \subseteq Nat \ {0}
    /\ MaxFetches > 1
    /\ IsList(DirectEres) /\ IsList(LinkEres) /\ IsList(MediaEres)
    /\ Page.host # None
    /\ \A s \in Sites : \A url \in {Page} \cup DOMAIN s : url = Url("http", url.host, url.path) /\ IsList(url.path)
    /\ MaxDirectives >= 2 * MaxChain + 3 /\ MaxVars >= 2 * MaxChain + 1

VARIABLES
    scphase,    \* "fetch", "iframes", "recurse", "follow", "rank", "choose", "saved" or "failed"
    maxdepth,
    cands,      \* the candidates: resolved URL, reference, steps, and token=
    iframes,    \* those that are still to be fetched
    frames,     \* the calls of discover_chain: a page, and its links or None
    steps,      \* the array that these calls share
    visited, nfetches,
    page0,      \* where the chains begin
    series,     \* the list's expression, or None
    picked      \* the candidates in the config

scvars == <<scphase, maxdepth, cands, iframes, frames, steps, visited, nfetches, page0, series, picked>>

-----------------------------------------------------------------------------
(***************************************************************************)
(* The landing page and its iframes                                        *)
(***************************************************************************)

Candidate(url, ref, chain) == [url |-> url, ref |-> ref, chain |-> chain, param |-> None]

Media(url) == url.path # <<>> /\ Last(url.path) \in DOMAIN Ext

ExtOf(url) == Ext[Last(url.path)]

UrlsOf(list) == {list[i].url : i \in DOMAIN list}

AddCandidate(list, c) ==
    IF c.url \in UrlsOf(list) \/ Len(list) >= MaxCandidates THEN list ELSE Append(list, c)

\* What a search keeps of what it finds: what fits and has a URL of its own, while
\* there is room.
Kept(list, fit, known, room) ==
    LET kept[n \in 0..Len(list)] ==
            IF n = 0 THEN <<>>
            ELSE IF n \in fit /\ list[n].url \notin known \cup UrlsOf(kept[n - 1]) /\ Len(kept[n - 1]) < room
            THEN Append(kept[n - 1], list[n]) ELSE kept[n - 1]
    IN  kept[Len(list)]

Collect(base, list) ==
    LET refs == FlattenSeq([i \in DOMAIN DirectEres |-> ScanCaptures(DirectEres[i], site[base])])
        found == [i \in 1..Len(refs) |-> Candidate(Resolve(base, RefOf(refs[i])), refs[i], <<>>)]
        fit == {i \in DOMAIN found : refs[i] # <<>> /\ Media(found[i].url)}
    IN  list \o Kept(found, fit, UrlsOf(list), MaxCandidates - Len(list))

FetchLanding ==
    /\ scphase = "fetch" /\ Page \in DOMAIN site
    /\ scphase' = "iframes"
    /\ cands' = Collect(Page, <<>>)
    /\ iframes' = ScanCaptures(IframeEre, site[Page])
    /\ visited' = {Page} /\ nfetches' = 1
    /\ UNCHANGED <<maxdepth, frames, steps, page0, series, picked>>

LandingFails ==
    /\ scphase = "fetch"
    /\ scphase' = "failed"
    /\ UNCHANGED <<maxdepth, cands, iframes, frames, steps, visited, nfetches, page0, series, picked>>

\* Those on the page's own host are scanned, one level deep, if they can be had.
Iframe ==
    /\ scphase = "iframes" /\ iframes # <<>>
    /\ iframes' = Tail(iframes)
    /\ LET url == Resolve(Page, RefOf(Head(iframes)))
       IN  \/ url.host = Page.host /\ url \in DOMAIN site /\ cands' = Collect(url, cands)
           \/ UNCHANGED cands
    /\ UNCHANGED <<scphase, maxdepth, frames, steps, visited, nfetches, page0, series, picked>>

IframesDone ==
    /\ scphase = "iframes" /\ iframes = <<>>
    /\ scphase' = IF cands = <<>> /\ maxdepth >= 1 THEN "recurse" ELSE "rank"
    /\ UNCHANGED <<maxdepth, cands, iframes, frames, steps, visited, nfetches, page0, series, picked>>

-----------------------------------------------------------------------------
(***************************************************************************)
(* A page without media: a series, or the first page of a chain            *)
(***************************************************************************)

Followable(ref) == ref # <<>> /\ ref[1] \notin {"#", "mailto:", "javascript:", "tel:"}

Generalized(names, text) == [i \in DOMAIN text |-> IF text[i] \in DOMAIN names THEN names[text[i]] ELSE text[i]]

Distinct(refs) ==
    FoldLeft(LAMBDA l, ref : IF Contains(l, ref) \/ Len(l) >= MaxHrefs THEN l ELSE Append(l, ref), <<>>, refs)

\* What is tried: the references of each of the expressions, then all of them.
Attempts ==
    LET anchors == SelectSeq(ScanCaptures(AnchorEre, site[Page]),
                             LAMBDA ref : Followable(ref) /\ Resolve(Page, RefOf(ref)).host = Page.host)
    IN  [i \in DOMAIN EpisodeEres |-> Distinct(ScanCaptures(EpisodeEres[i], site[Page]))] \o <<Distinct(anchors)>>

Alike(refs, i) == {j \in DOMAIN refs : Generalized(Numbered, refs[j]) = Generalized(Numbered, refs[i])}

Dominant(refs) == {i \in DOMAIN refs : Cardinality(Alike(refs, i)) >= SeriesMin}

\* The first reference of the largest of the groups nearest to the page's own URL.
FirstEpisode(refs) ==
    LET template(i) == Generalized(Numbered, refs[i])
        near(i) == IF template(i) \in DOMAIN Related THEN Related[template(i)] ELSE 0
        size(i) == Cardinality(Alike(refs, i))
        nearest == {i \in Dominant(refs) : \A j \in Dominant(refs) : near(j) <= near(i)}
    IN  refs[Min({i \in nearest : \A j \in nearest : size(j) <= size(i)})]

IsSeries == \E k \in DOMAIN Attempts : Dominant(Attempts[k]) # {}

HrefEre(template) == <<"href">> \o template

\* The link that an expression was made from is one of its matches; it is not if it
\* has hundreds of characters, of which synthesize_link_ere's buffer takes the first.
ASSUME HrefAssumption ==
    \A s \in Sites : \A url \in DOMAIN s :
      LET refs == ScanCaptures(AnchorEre, s[url])
      IN  \A i \in 1..Len(refs) : Contains(ScanCaptures(HrefEre(Generalized(Loosened, refs[i])), s[url]), refs[i])

StartFrom(url) ==
    /\ scphase' = "follow"
    /\ page0' = url
    /\ frames' = <<[url |-> url, links |-> None]>>

\* An episode that is the landing page itself has been visited.
RecurseSeries ==
    /\ scphase = "recurse" /\ IsSeries
    /\ LET k == Min({i \in DOMAIN Attempts : Dominant(Attempts[i]) # {}})
           first == FirstEpisode(Attempts[k])
           url == Resolve(Page, RefOf(first))
           fetch == url \notin visited /\ nfetches < MaxFetches
       IN  /\ series' = HrefEre(Generalized(Numbered, first))
           /\ visited' = visited \cup {url}
           /\ nfetches' = IF fetch THEN nfetches + 1 ELSE nfetches
           /\ \/ fetch /\ url \in DOMAIN site /\ StartFrom(url)
              \/ scphase' = "rank" /\ UNCHANGED <<page0, frames>>
    /\ UNCHANGED <<maxdepth, cands, iframes, steps, picked>>

RecursePage ==
    /\ scphase = "recurse" /\ ~IsSeries
    /\ StartFrom(Page)
    /\ UNCHANGED <<maxdepth, cands, iframes, steps, visited, nfetches, series, picked>>

-----------------------------------------------------------------------------
(***************************************************************************)
(* discover_chain, with the page of its innermost call                     *)
(***************************************************************************)

Current == Last(frames)
Depth == Len(frames) - 1
Body == site[Current.url]

Linked_Landing(ref) == Resolve(Page, RefOf(ref))

Linked(ref) == Resolve(Current.url, RefOf(ref))

Back == frames' = Front(frames) /\ scphase' = IF Depth = 0 THEN "rank" ELSE "follow"

\* The expressions whose first match is media.
MediaHits == {i \in DOMAIN MediaEres : LET found == ScanCaptures(MediaEres[i], Body)
                                       IN  found # <<>> /\ Media(Linked(found[1]))}

AnyEre(texts) == <<"any", texts>>
HandleEre(token, ext) == <<"handle", token, ext>>

\* token=name on the first page of the chain (where there are several, the code takes
\* the one that comes first).
Handles(url) ==
    IF Captures(AnyEre(<<TextOf(url)>>), site[page0]) # <<>> THEN {}
    ELSE {t \in HandleNames : Contains(Captures(HandleEre(t, ExtOf(url)), site[page0]), <<Last(url.path)>>)}

\* Media that is known already gets its token too.
WithHandle(c, url, token) ==
    IF c.url = url /\ c.param = None /\ Depth > 0
    THEN [c EXCEPT !.param = [token |-> token, base |-> TextOf([url EXCEPT !.path = Front(@)])]] ELSE c

FindMedia ==
    /\ scphase = "follow" /\ Current.links = None /\ MediaHits # {}
    /\ LET ere == MediaEres[Min(MediaHits)]
           url == Linked(ScanCaptures(ere, Body)[1])
       IN  /\ steps' = [steps EXCEPT ![Depth + 1] = [ere |-> ere, sample |-> TextOf(url)]]
           /\ LET found == AddCandidate(cands, Candidate(url, <<>>, SubSeq(steps', 1, Depth + 1)))
              IN  IF Handles(url) = {} THEN cands' = found
                  ELSE \E t \in Handles(url) : cands' = [i \in DOMAIN found |-> WithHandle(found[i], url, t)]
    /\ Back
    /\ UNCHANGED <<maxdepth, iframes, visited, nfetches, page0, series, picked>>

Link(ref, ere) == [url |-> Linked(ref), ref |-> ref, ere |-> ere]

Links(ere) == LET refs == ScanCaptures(ere, Body) IN [i \in 1..Len(refs) |-> Link(refs[i], ere)]

\* collect_follow_links: what the expressions find, one after the other ...
LikelyLinks ==
    LET found == FlattenSeq([i \in DOMAIN LinkEres |-> Links(LinkEres[i])])
        fit == {i \in 1..Len(found) : Followable(found[i].ref) /\ found[i].url.host \notin AdHosts}
    IN  Kept(found, fit, visited, MaxFollow)

\* ... and if that is not enough, others: on the same host, and below the landing
\* page in the same directory too.  They may be visited.
OtherLinks ==
    LET anchors == Links(AnchorEre)
        found == [i \in 1..Len(anchors) |-> Link(anchors[i].ref, HrefEre(Generalized(Loosened, anchors[i].ref)))]
        near(url) == url.host = Current.url.host /\ (Depth > 0 => SubSeq(url.path, 1, 1) = SubSeq(Current.url.path, 1, 1))
        fit == {i \in DOMAIN found : /\ Followable(found[i].ref) /\ found[i].ref \in DOMAIN Relevance
                                     /\ near(found[i].url) /\ found[i].url.host \notin AdHosts}
    IN  Kept(found, fit, {Current.url} \cup UrlsOf(LikelyLinks), MaxPool)

\* The most relevant of them first.
ByRelevance(pool) ==
    LET before(i, j) == LET a == Relevance[pool[i].ref]  b == Relevance[pool[j].ref]
                        IN  a > b \/ (a = b /\ i < j)
        orders == {o \in [1..Len(pool) -> 1..Len(pool)] : \A i, j \in 1..Len(pool) : i < j => before(o[i], o[j])}
    IN  {[i \in 1..Len(pool) |-> pool[o[i]]] : o \in orders}

FindLinks ==
    /\ scphase = "follow" /\ Current.links = None /\ MediaHits = {}
    /\ IF Depth >= maxdepth \/ Depth >= MaxChain - 1 THEN Back
       ELSE /\ \E others \in ByRelevance(OtherLinks) :
                   LET links == LikelyLinks \o others
                   IN  frames' = [frames EXCEPT ![Len(frames)].links = SubSeq(links, 1, Min({Len(links), MaxFollow}))]
            /\ UNCHANGED scphase
    /\ UNCHANGED <<maxdepth, cands, iframes, steps, visited, nfetches, page0, series, picked>>

More == scphase = "follow" /\ Current.links \notin {None, <<>>} /\ nfetches < MaxFetches

Others == [frames EXCEPT ![Len(frames)].links = Tail(@)]

SkipLink ==
    /\ More /\ Head(Current.links).url \in visited
    /\ frames' = Others
    /\ UNCHANGED <<scphase, maxdepth, cands, iframes, steps, visited, nfetches, page0, series, picked>>

\* A page that cannot be had is passed over.
FollowLink ==
    /\ More
    /\ LET link == Head(Current.links)
       IN  /\ link.url \notin visited
           /\ visited' = visited \cup {link.url} /\ nfetches' = nfetches + 1
           /\ \/ frames' = Others /\ UNCHANGED steps
              \/ /\ link.url \in DOMAIN site
                 /\ frames' = Append(Others, [url |-> link.url, links |-> None])
                 /\ steps' = [steps EXCEPT ![Depth + 1] = [ere |-> link.ere, sample |-> link.ref]]
    /\ UNCHANGED <<scphase, maxdepth, cands, iframes, page0, series, picked>>

Return ==
    /\ scphase = "follow" /\ Current.links # None
    /\ Current.links = <<>> \/ nfetches >= MaxFetches
    /\ Back
    /\ UNCHANGED <<maxdepth, cands, iframes, steps, visited, nfetches, page0, series, picked>>

-----------------------------------------------------------------------------
(***************************************************************************)
(* detect_direct_media_series                                              *)
(***************************************************************************)

\* Candidates that differ in numbers only, or else those with the same extension.
Resembling == [i \in DOMAIN cands |->
    {j \in DOMAIN cands : Generalized(Numbered, TextOf(cands[j].url)) = Generalized(Numbered, TextOf(cands[i].url))}]
SameExt == [i \in DOMAIN cands |-> {j \in DOMAIN cands : ExtOf(cands[j].url) = ExtOf(cands[i].url)}]

Largest(groups) ==
    {i \in DOMAIN groups : /\ Cardinality(groups[i]) >= SeriesMin
                           /\ \A j \in DOMAIN groups : Cardinality(groups[j]) <= Cardinality(groups[i])}

BareEre(ext) == <<"bare", ext>>
QuotedEre(ext) == <<"quoted", ext>>

ListEre(ext) == IF ScanCaptures(BareEre(ext), site[Page]) # <<>> THEN BareEre(ext) ELSE QuotedEre(ext)

Rank ==
    /\ scphase = "rank"
    /\ scphase' = "choose"
    /\ LET direct == series = None /\ \A i \in DOMAIN cands : cands[i].chain = <<>>
           largest == IF Largest(Resembling) # {} THEN Largest(Resembling) ELSE Largest(SameExt)
       IN  IF direct /\ largest # {} THEN \E i \in largest : series' = ListEre(ExtOf(cands[i].url))
           ELSE UNCHANGED series
    /\ UNCHANGED <<maxdepth, cands, iframes, frames, steps, visited, nfetches, page0, picked>>

-----------------------------------------------------------------------------
(***************************************************************************)
(* The config                                                              *)
(***************************************************************************)

HeadLines(dir) == <<Name(Page.host), Match(<<Page.host>> \o (IF dir THEN Front(Page.path) ELSE <<>>))>>

PageVar == <<"page0", "page1", "page2", "page3">>
LinkVar == <<"link0", "link1", "link2">>

ListLines(ere) == <<Get("page", ThisUrl), Take("list", "eps", "page", ere)>>

HandleLines(c) ==
    << Get(PageVar[1], ThisUrl),
       Take("var", c.param.token, PageVar[1], HandleEre(c.param.token, ExtOf(c.url))),
       Give(<<Lit(c.param.base), Var(c.param.token)>>) >>

LinkLines(i, ere) == <<Take("var", LinkVar[i], PageVar[i], ere), Get(PageVar[i + 1], <<Var(LinkVar[i])>>)>>

ChainLines(chain) ==
       <<Get(PageVar[1], ThisUrl)>>
    \o FlattenSeq([i \in 1..(Len(chain) - 1) |-> LinkLines(i, chain[i].ere)])
    \o <<Take("var", "media", PageVar[Len(chain)], Last(chain).ere), Give(<<Var("media")>>)>>

Pipeline(c) == IF c.param # None THEN HandleLines(c) ELSE ChainLines(c.chain)

\* A series without media has to be completed by the user.
Stub == ChainLines(<<[ere |-> <<"src=">>, sample |-> None]>>)

\* scan_emit_config, with a candidate or none.
Config(c) ==
    HeadLines(series # None) \o
    ( IF series # None
      THEN ListLines(series) \o (IF cands = <<>> THEN Stub ELSE IF c.chain = <<>> THEN <<Give(ThisUrl)>> ELSE Pipeline(c))
      ELSE IF Len(c.chain) >= 2 THEN Pipeline(c) ELSE <<Give(<<Lit(TextOf(c.url))>>)>> )

RawRef_Url(c) == TextOf(c.url)

\* What a candidate of the landing page looks like there.
RawRef(c) == IF c.ref # <<>> THEN c.ref ELSE TextOf(c.url)

\* scan_emit_config_selection, where it does not leave it to scan_emit_config.
ConfigOf(chosen) ==
    HeadLines(TRUE) \o
    ( IF Len(chosen) = 1
      THEN <<Give(<<Lit(TextOf(cands[chosen[1]].url))>>)>>
      ELSE ListLines(AnyEre([k \in DOMAIN chosen |-> RawRef(cands[chosen[k]])])) \o <<Give(ThisUrl)>> )

InOrder(sel) ==
    {o \in [1..Cardinality(sel) -> sel] : \A k, l \in 1..Cardinality(sel) : k < l => o[k] < o[l]}

Save(lines, sel) ==
    /\ configs' = [configs EXCEPT ![ScanFile] = lines]
    /\ picked' = sel
    /\ scphase' = "saved"
    /\ UNCHANGED <<maxdepth, cands, iframes, frames, steps, visited, nfetches, page0, series>>

\* With --yes, or nothing to choose from: any candidate may be at the top.
SaveTop ==
    /\ scphase = "choose"
    /\ \/ \E i \in DOMAIN cands : Save(Config(cands[i]), {i})
       \/ cands = <<>> /\ series # None /\ Save(Config(None), {})

SaveChosen ==
    /\ scphase = "choose" /\ Len(cands) > 1
    /\ \E sel \in (SUBSET DOMAIN cands) \ {{}} :
         IF sel = DOMAIN cands /\ series # None THEN \E i \in sel : Save(Config(cands[i]), sel)
         ELSE \E chosen \in InOrder(sel) : Save(ConfigOf(chosen), sel)

\* The user chooses nothing; or there is nothing to save but a skeleton.
SaveNothing ==
    /\ scphase = "choose"
    /\ Len(cands) > 1 \/ (cands = <<>> /\ series = None)
    /\ scphase' = "failed"
    /\ UNCHANGED <<configs, maxdepth, cands, iframes, frames, steps, visited, nfetches, page0, series, picked>>

-----------------------------------------------------------------------------

ScanInit ==
    /\ scphase = "fetch" /\ maxdepth \in Depths
    /\ cands = <<>> /\ iframes = <<>> /\ frames = <<>>
    /\ steps = [i \in 1..MaxChain |-> None]
    /\ visited = {} /\ nfetches = 0
    /\ page0 = None /\ series = None /\ picked = {}

\* Every variable has a name; the page is downloaded without naming another config,
\* its URL has its host and directory in it, and no config that is read before wants it.
ASSUME TakenAssumption ==
    /\ None \notin HandleNames \cup ToSet(LinkVar) \cup {"url", "media"}
    /\ Forced \in {None, Page.host}
    /\ \A dir \in BOOLEAN : <<HeadLines(dir)[2].arg, Page>> \in Wanted_
    /\ \A i \in DOMAIN Path :
         Path[i] = ScanFile \/ (\E j \in 1..(i - 1) : Path[j] = ScanFile) \/ ~Keep(Begun[Path[i]])

Discovery ==
    \/ FetchLanding \/ LandingFails \/ Iframe \/ IframesDone
    \/ RecurseSeries \/ RecursePage
    \/ FindMedia \/ FindLinks \/ SkipLink \/ FollowLink \/ Return
    \/ Rank

\* The config is then used as it is.
ScanNext ==
    /\ \/ Discovery /\ UNCHANGED <<exphase, configs, ex, at, store, episodes, medias>>
       \/ (SaveTop \/ SaveChosen \/ SaveNothing) /\ UNCHANGED <<exphase, ex, at, store, episodes, medias>>
       \/ scphase = "saved" /\ Extract /\ UNCHANGED scvars
    /\ UNCHANGED site

ScanSpec == ScanInit /\ ExtractorInit /\ [][ScanNext]_<<scvars, exvars>>

-----------------------------------------------------------------------------

\* Where the steps of a chain lead, one after the other; the last one to the media.
Way(start, chain) ==
    LET way[k \in 1..(Len(chain) + 1)] ==
            IF k = 1 THEN start ELSE Resolve(way[k - 1], RefOf(chain[k - 1].sample))
    IN  way

Leads(c) ==
    LET n == Len(c.chain)  way == Way(page0, c.chain)
    IN  /\ n <= maxdepth + 1
        /\ \A k \in 1..n : way[k] \in visited /\ \A j \in 1..(k - 1) : way[j] # way[k]
        /\ \A k \in 1..(n - 1) : Contains(ScanCaptures(c.chain[k].ere, site[way[k]]), c.chain[k].sample)
        /\ Resolve(way[n], RefOf(ScanCaptures(Last(c.chain).ere, site[way[n]])[1])) = c.url

\* No page is fetched twice, and a limited number of them; and a candidate that was
\* not on the landing page has the steps that lead to it, although all calls of
\* discover_chain write them to one array.
ChainsLead ==
    /\ nfetches = Cardinality(visited) /\ nfetches <= MaxFetches
    /\ Len(frames) <= maxdepth + 1
    /\ \A i \in DOMAIN cands : cands[i].chain # <<>> => Leads(cands[i])

\* The extractor takes the first match, if it finds one, and a reference as one of the
\* first page; a chain that needs another one cannot be written down.
Straight(c) ==
    LET n == Len(c.chain)  way == Way(page0, c.chain)
        found(k) == Captures(c.chain[k].ere, site[way[k]])
    IN  \A k \in 1..n : found(k) # <<>> /\ Resolve(page0, RefOf(found(k)[1])) = way[k + 1]

\* The same of what the scanner found.
StraightScan(c) ==
    LET n == Len(c.chain)  way == Way(page0, c.chain)
        found(k) == ScanCaptures(c.chain[k].ere, site[way[k]])
    IN  \A k \in 1..n : Resolve(page0, RefOf(found(k)[1])) = way[k + 1]

Expressible(c) ==
    IF c.chain = <<>> THEN TRUE
    ELSE IF c.param # None
         THEN Captures(HandleEre(c.param.token, ExtOf(c.url)), site[page0])[1] = <<Last(c.url.path)>>
         ELSE Straight(c)

Used == scphase = "saved" /\ exphase # "write"

Gives(url) == (exphase = "resolved" => medias = <<url>>) /\ (exphase = "failed" => Here.kw = "get")

\* One candidate, of which the config has the URL or the way to it.
OneRight ==
    \A i \in picked :
        (picked = {i} /\ ~Has(ex, "list") /\ (Len(ex.directives) = 1 \/ Expressible(cands[i]))) => Gives(cands[i].url)

\* A candidate that is on the landing page, where the expression finds it.
OnPage(c, ere) ==
    /\ c.ref # <<>> /\ Resolve(Page, RefOf(c.ref)) = c.url
    /\ Contains(Captures(ere, site[Page]), c.ref)

\* A list gives the chosen candidates of the landing page and no others; the list of
\* a whole series, all candidates if all are on the page in the same form.  The limit
\* is one of matches, of which several may be of one candidate.
ListRight ==
    LET ere == ex.directives[ListAt(ex)].arg[1].text
        whole == ere = series
        listed == IF whole THEN DOMAIN cands ELSE picked
        urls == {cands[i].url : i \in listed}
        found == Captures(ere, site[Page])
        refs == {[k \in DOMAIN o |-> cands[o[k]].ref] : o \in InOrder(listed)}
    IN  (/\ Has(ex, "list") /\ Last(ex.directives).arg = ThisUrl
         /\ \A i \in listed, r \in refs : OnPage(cands[i], IF whole THEN series ELSE AnyEre(r))
         /\ whole => \A k \in DOMAIN found : Resolve(Page, RefOf(found[k])) \in urls
         /\ Len(found) <= MaxEpisodes)
        => /\ exphase = "resolved" => ToSet(medias) = urls
           /\ exphase = "failed" => Here.kw = "get"

\* A series whose first episode was searched: its own media, unless a page is lost.
EpisodeRight ==
    (exphase = "resolved" /\ Has(ex, "list") /\ page0 # None) =>
        \A i \in picked, k \in DOMAIN medias :
            (picked = {i} /\ Expressible(cands[i]) /\ episodes[k] = page0) => medias[k] \in {None, cands[i].url}

\* The config that was written is one that the extractor takes for the page, and it
\* gives what was chosen, wherever the extractor's steps can say it: where what it
\* finds itself with their expressions leads the way.
ConfigReproduces == Used => ex # NoConfig /\ OneRight /\ ListRight /\ EpisodeRight

\* What the README says of the config: it gives the media of the page, if the matches
\* that the scanner found are those of the steps.
ConfigResolves ==
    Used => \A i \in picked :
        LET c == cands[i]
        IN  (picked = {i} /\ ~Has(ex, "list") /\ c.chain # <<>> /\ c.param = None /\ StraightScan(c)) => Gives(c.url)

=============================================================================
