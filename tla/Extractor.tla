----------------------------- MODULE Extractor -----------------------------
(***************************************************************************)
(* The extractor (src/src/extractor.c) and its use by main and run_series  *)
(* (src/src/text.c): a page becomes the media URL, or the list of episodes *)
(* and the media URL of each, by the first config that wants the page.     *)
(*                                                                         *)
(* A text is a sequence of atoms, among them "http:", "//" and "/".  What  *)
(* a regular expression captures is a constant, its syntax not modelled; a *)
(* template is a sequence of atoms and of references to variables.         *)
(***************************************************************************)
EXTENDS Naturals, FiniteSets, ResolveUrl, FiniteSetsExt

CONSTANTS Page,       \* the URL on the command line
          Forced,     \* --extract's config name, or None
          Path,       \* the config files in the order they are read
          Begun,      \* what each of them has: [file -> lines]
          Lines,      \* lines the user may add
          UserFile, MaxAdded,   \* ... to this file, and bound: how many
          Sites,      \* what the servers may have: each [URL -> text]
          Captures(_, _),   \* group 1 of each match of a pattern in a text
          Wanted_,    \* pairs of a match pattern and a URL it matches
          MaxMatches, MaxDirectives, MaxHeaders, MaxVars, MaxEpisodes  \* EXTRACTOR_MAX_...

\* A sequence of whatever it may be.
IsList(s) == Len(s) \in Nat /\ s = [i \in 1..Len(s) |-> s[i]]

\* A "name" without a value is a line that means nothing, of no kind.
Named(line) == line.kw = "name" => line.arg # None

ASSUME ExtractorAssumption ==
    /\ IsAbsolute(Page)
    /\ \A f \in DOMAIN Begun : IsList(Begun[f]) /\ \A i \in DOMAIN Begun[f] : Named(Begun[f][i])
    /\ \A line \in Lines : Named(line)
    /\ Path \in Seq(DOMAIN Begun) /\ UserFile \in ToSet(Path)
    /\ {MaxMatches, MaxDirectives, MaxHeaders, MaxVars, MaxEpisodes} \subseteq Nat \ {0}
    /\ MaxAdded \in Nat

VARIABLES
    exphase,    \* "write", "list", "run", "episode", "resolved", "passed" or "failed"
    configs,    \* the files' lines
    ex,         \* the extractor_t in use
    at,         \* the index of the directive that comes next
    store,      \* ext_store_t
    episodes,   \* run_series' episode_urls; <<Page>> for a page with one media
    medias,     \* their media URLs so far, None for one that failed
    site        \* the texts of pages, which stay as they are

exvars == <<exphase, configs, ex, at, store, episodes, medias, site>>

\* The parts of a template: a text as it is, and {name}.
Lit(text) == [var |-> None, text |-> text]
Var(name) == [var |-> name, text |-> <<>>]

\* The lines of a config.
Name(name) == [kw |-> "name", arg |-> name]
Match(pattern) == [kw |-> "match", arg |-> pattern]
Header(value) == [kw |-> "header", arg |-> value]
Get(name, url) == [kw |-> "get", name |-> name, source |-> None, arg |-> url]
Take(kw, name, from, pattern) == [kw |-> kw, name |-> name, source |-> from, arg |-> <<Lit(pattern)>>]
Give(template) == [kw |-> "output", name |-> None, source |-> None, arg |-> template]

ThisUrl == <<Var("url")>>

TextOf(url) == <<"http:", url.host>> \o url.path

RefOf(text) ==
    IF text = <<>> THEN Relative(text)
    ELSE IF text[1] = "http:" THEN Absolute(Url("http", text[2], SubSeq(text, 3, Len(text))))
    ELSE IF text[1] = "//" THEN SchemeRelative(text[2], SubSeq(text, 3, Len(text)))
    ELSE IF text[1] = "/" THEN Rooted(Tail(text))
    ELSE Relative(text)

-----------------------------------------------------------------------------
(***************************************************************************)
(* extractor_parse                                                         *)
(***************************************************************************)

NoConfig == [name |-> None, matches |-> <<>>, directives |-> <<>>, lastget |-> 0, error |-> FALSE]

Kinds == {"var", "list", "get", "output"}

\* Anything else on a line has it refused, and so has a header that is not below
\* a get or its headers.
Bad(c, line) ==
    \/ line.kw \notin {"name", "match", "header"} \cup Kinds
    \/ line.kw = "match" /\ Len(c.matches) >= MaxMatches
    \/ line.kw \in Kinds /\ Len(c.directives) >= MaxDirectives
    \/ line.kw = "header" /\ (c.lastget = 0 \/ Len(c.directives[c.lastget].headers) >= MaxHeaders)

Directive(line) == [kw |-> line.kw, name |-> line.name, source |-> line.source, arg |-> line.arg, headers |-> <<>>]

ParseLine(c, line) ==
    IF c.error \/ Bad(c, line) THEN [c EXCEPT !.error = TRUE]
    ELSE IF line.kw = "header" THEN [c EXCEPT !.directives[c.lastget].headers = Append(@, line.arg)]
    ELSE IF line.kw = "name" THEN [c EXCEPT !.name = line.arg, !.lastget = 0]
    ELSE IF line.kw = "match" THEN [c EXCEPT !.matches = Append(@, line.arg), !.lastget = 0]
    ELSE [c EXCEPT !.directives = Append(@, Directive(line)),
                   !.lastget = IF line.kw = "get" THEN Len(c.directives) + 1 ELSE 0]

Has(c, kw) == \E i \in DOMAIN c.directives : c.directives[i].kw = kw

Parse(lines) ==
    LET after[n \in 0..Len(lines)] == IF n = 0 THEN NoConfig ELSE ParseLine(after[n - 1], lines[n])
        c == after[Len(lines)]
    IN  [c EXCEPT !.error = @ \/ c.name = None \/ ~Has(c, "output")]

-----------------------------------------------------------------------------
(***************************************************************************)
(* discover                                                                *)
(***************************************************************************)

Matches(c) == \E i \in DOMAIN c.matches : <<c.matches[i], Page>> \in Wanted_

Keep(lines) ==
    LET c == Parse(lines)
    IN  ~c.error /\ (IF Forced # None THEN c.name = Forced ELSE Matches(c))

\* find_cb on one file after the other; an episode's config is looked up with the
\* URL of the series.
Discover ==
    LET kept == {i \in DOMAIN Path : Keep(configs[Path[i]])}
    IN  IF kept = {} THEN NoConfig ELSE Parse(configs[Path[Min(kept)]])

\* The directives of a run: with a list, those after the first one.
ListAt(c) == Min({i \in DOMAIN c.directives : c.directives[i].kw = "list"})

FirstToRun_Setup(c) == 1

FirstToRun(c) == IF Has(c, "list") THEN ListAt(c) + 1 ELSE 1

-----------------------------------------------------------------------------
(***************************************************************************)
(* A var or a get, in a run or before a list                               *)
(***************************************************************************)

Names(template) == {template[i].var : i \in DOMAIN template} \ {None}

Undefined(template) == ~(Names(template) \subseteq DOMAIN store)

Interpolate(template, st) ==
    FlattenSeq([i \in DOMAIN template |->
                  IF template[i].var = None THEN template[i].text ELSE st[template[i].var]])

Here == ex.directives[at]

\* store_set: a new name needs room.
Full(name) == name \notin DOMAIN store /\ Cardinality(DOMAIN store) >= MaxVars

Set(name, value) == store' = [n \in DOMAIN store \cup {name} |-> IF n = name THEN value ELSE store[n]]

\* A var with its source, no undefined {name}, a match, and room.
VarWorks ==
    /\ Here.source \in DOMAIN store
    /\ ~Undefined(Here.arg)
    /\ Captures(Interpolate(Here.arg, store), store[Here.source]) # <<>>
    /\ ~Full(Here.name)

\* A reference is relative to {url}, whatever page it was found on.
Target(template, st) == Resolve(RefOf(st["url"]).url, RefOf(Interpolate(template, st)))

GetWorks ==
    /\ ~Undefined(Here.arg)
    /\ \A i \in DOMAIN Here.headers : ~Undefined(Here.headers[i])
    /\ Target(Here.arg, store) \in DOMAIN site
    /\ ~Full(Here.name)

Evaluate ==
    \/ Here.kw = "var" /\ VarWorks /\ Set(Here.name, Captures(Interpolate(Here.arg, store), store[Here.source])[1])
    \/ Here.kw = "get" /\ GetWorks /\ Set(Here.name, site[Target(Here.arg, store)])

-----------------------------------------------------------------------------
(***************************************************************************)
(* The page and its episodes                                               *)
(***************************************************************************)

OnlyUrl(url) == [n \in {"url"} |-> TextOf(url)]

ExtractorInit ==
    /\ exphase = "write"
    /\ configs = Begun
    /\ ex = NoConfig /\ at = 1 /\ store = OnlyUrl(Page)
    /\ episodes = <<>> /\ medias = <<>>
    /\ site \in Sites

\* The user writes a config.
Write ==
    /\ exphase = "write"
    /\ Len(configs[UserFile]) < Len(Begun[UserFile]) + MaxAdded
    /\ \E line \in Lines : configs' = [configs EXCEPT ![UserFile] = Append(@, line)]
    /\ UNCHANGED <<exphase, ex, at, store, episodes, medias>>

\* extractor_resolve_series, and extractor_resolve if there is nothing to list.
Begin ==
    /\ exphase = "write"
    /\ ex' = Discover
    /\ exphase' = IF ex' # NoConfig THEN IF Has(ex', "list") THEN "list" ELSE "run"
                  ELSE IF Forced # None THEN "failed" ELSE "passed"
    /\ episodes' = <<Page>>
    /\ UNCHANGED <<configs, at, store, medias>>

\* Before the list, an output is passed over.
ListDirective ==
    /\ exphase = "list" /\ Here.kw # "list"
    /\ IF Here.kw = "output" THEN UNCHANGED store ELSE Evaluate
    /\ at' = at + 1
    /\ UNCHANGED <<exphase, configs, ex, episodes, medias>>

Found ==
    LET found == Captures(Interpolate(Here.arg, store), store[Here.source])
    IN  SubSeq(found, 1, Min({Len(found), MaxEpisodes}))

\* resolve_dedup_list: each URL once, where it came first.
AddEpisode(urls, item) ==
    LET url == Resolve(Page, RefOf(item)) IN IF Contains(urls, url) THEN urls ELSE Append(urls, url)

Deduped(found) ==
    LET kept[n \in 0..Len(found)] == IF n = 0 THEN <<>> ELSE AddEpisode(kept[n - 1], found[n])
    IN  kept[Len(found)]

ListWorks == Here.source \in DOMAIN store /\ ~Undefined(Here.arg) /\ Found # <<>>

\* The config is looked up again for each of the episodes, and run on it.
Run(url) == exphase' = "run" /\ at' = FirstToRun(ex) /\ store' = OnlyUrl(url)

ListEpisodes ==
    /\ exphase = "list" /\ Here.kw = "list"
    /\ ListWorks
    /\ episodes' = Deduped(Found)
    /\ Run(episodes'[1])
    /\ UNCHANGED <<configs, ex, medias>>

\* A fetch can always fail.
Lost ==
    /\ exphase = "list"
    /\ \/ Here.kw = "var" /\ ~VarWorks
       \/ Here.kw = "get"
       \/ Here.kw = "list" /\ ~ListWorks
    /\ exphase' = "failed"
    /\ UNCHANGED <<configs, ex, at, store, episodes, medias>>

RunDirective ==
    /\ exphase = "run" /\ at <= Len(ex.directives) /\ Here.kw # "output"
    /\ IF Here.kw = "list" THEN UNCHANGED store ELSE Evaluate
    /\ at' = at + 1
    /\ UNCHANGED <<exphase, configs, ex, episodes, medias>>

\* To the next episode, if there is one.
Got(media) ==
    /\ medias' = Append(medias, media)
    /\ IF Len(medias') < Len(episodes) THEN Run(episodes[Len(medias') + 1])
       ELSE exphase' = "resolved" /\ UNCHANGED <<at, store>>
    /\ UNCHANGED <<configs, ex, episodes>>

Output ==
    /\ exphase = "run" /\ at <= Len(ex.directives) /\ Here.kw = "output"
    /\ ~Undefined(Here.arg)
    /\ Got(Target(Here.arg, store))

\* One of several episodes that fails leaves the others.
RunFails ==
    /\ exphase = "run"
    /\ at <= Len(ex.directives) =>
         \/ Here.kw = "var" /\ ~VarWorks
         \/ Here.kw = "get"
         \/ Here.kw = "output" /\ Undefined(Here.arg)
    /\ IF Len(episodes) > 1 THEN Got(None)
       ELSE exphase' = "failed" /\ UNCHANGED <<configs, ex, at, store, episodes, medias>>

Extract ==
    \/ Begin
    \/ ListDirective \/ ListEpisodes \/ Lost
    \/ RunDirective \/ Output \/ RunFails

ExtractorNext == (Write \/ Extract) /\ UNCHANGED site

ExtractorSpec == ExtractorInit /\ [][ExtractorNext]_exvars

-----------------------------------------------------------------------------

\* A config as its author sees it: a name, an output, no line that means nothing,
\* headers below their get, and not too much of anything.
NumberOf(lines, kws) == Cardinality({i \in DOMAIN lines : lines[i].kw \in kws})

Below(lines, i, kw) == \E j \in 1..(i - 1) : lines[j].kw = kw /\ \A m \in (j + 1)..(i - 1) : lines[m].kw = "header"

Valid(lines) ==
    /\ NumberOf(lines, {"name"}) > 0 /\ NumberOf(lines, {"output"}) > 0
    /\ NumberOf(lines, {"match"}) <= MaxMatches
    /\ NumberOf(lines, Kinds) <= MaxDirectives
    /\ \A i \in DOMAIN lines :
         /\ lines[i].kw \in {"name", "match", "header"} \cup Kinds
         /\ lines[i].kw = "header" =>
              /\ Below(lines, i, "get")
              /\ Cardinality({j \in DOMAIN lines : j <= i /\ lines[j].kw = "header"
                                                  /\ \A m \in j..i : lines[m].kw = "header"}) <= MaxHeaders

Wants(lines) ==
    IF Forced # None
    THEN lines[Max({i \in DOMAIN lines : lines[i].kw = "name"})].arg = Forced
    ELSE \E i \in DOMAIN lines : lines[i].kw = "match" /\ <<lines[i].arg, Page>> \in Wanted_

\* The config in use is that of the first file that is valid and wants the page,
\* and there is none only if no file is and does.
ConfigRight ==
    exphase # "write" =>
        LET good == {i \in DOMAIN Path : Valid(configs[Path[i]]) /\ Wants(configs[Path[i]])}
        IN  IF good = {} THEN ex = NoConfig
            ELSE LET lines == configs[Path[Min(good)]]
                 IN  /\ Len(ex.directives) = NumberOf(lines, Kinds)
                     /\ \A i \in DOMAIN lines : lines[i].kw \in Kinds =>
                          LET d == ex.directives[Cardinality({j \in 1..i : lines[j].kw \in Kinds})]
                          IN  <<d.kw, d.name, d.source, d.arg>>
                                = <<lines[i].kw, lines[i].name, lines[i].source, lines[i].arg>>

\* No episode is listed twice, and a limited number of them.
EpisodesRight == IsInjective(episodes) /\ Len(episodes) <= MaxEpisodes /\ Len(medias) <= Len(episodes)

\* When an episode's media URL is put together, the variables are those of its own
\* run, nothing is left of the series page or of the episode before, and each has
\* the value that its directive says of the values of the others (if no name is
\* given twice).
MediaRight ==
    (exphase = "run" /\ at <= Len(ex.directives) /\ Here.kw = "output") =>
        LET own == {i \in FirstToRun(ex)..(at - 1) : ex.directives[i].kw \in {"var", "get"}}
            name(i) == ex.directives[i].name
            once == "url" \notin {name(i) : i \in own} /\ \A i, j \in own : name(i) = name(j) => i = j
        IN  /\ Has(ex, "list") => at > ListAt(ex)
            /\ DOMAIN store = {"url"} \cup {name(i) : i \in own}
            /\ once =>
                 /\ store["url"] = TextOf(episodes[Len(medias) + 1])
                 /\ \A i \in own :
                      LET d == ex.directives[i]
                      IN  store[d.name] = IF d.kw = "get" THEN site[Target(d.arg, store)]
                                          ELSE Captures(Interpolate(d.arg, store), store[d.source])[1]

ExtractionRight == ConfigRight /\ EpisodesRight /\ MediaRight

=============================================================================
