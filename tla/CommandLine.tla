---------------------------- MODULE CommandLine ----------------------------
(***************************************************************************)
(* main (src/src/text.c) once the options are read: a search for mirrors,  *)
(* a list of mirrors, a playlist, a URL that expands into several, or a    *)
(* series of episodes, turned into downloads one after the other; signals  *)
(* and the end of the process at any point; and the user giving the same   *)
(* command again in the same directory.                                    *)
(***************************************************************************)
EXTENDS MirrorSearch, Downloads

CONSTANTS Commands,    \* the command lines, see CommandRecords below
          Before_,     \* sets of names that exist before the first run
          MaxRuns      \* bound: how often the command is given

ASSUME CommandAssumption ==
    /\ MaxRuns \in Nat
    /\ \A c \in Commands : c.url \in Seq(Tokens) /\ Len(c.episodes) \in Nat

VARIABLES pc,        \* "main", "search", "expand", "batch", "series", "one", "exit", "down"
          k,         \* the item of a batch or the episode of a series
          failed,    \* failures of a batch, failed of a series
          series,    \* run_series: [eps, path, ondisk, sel, todo, attempted]
          ret,       \* the exit status
          runs       \* bound: runs so far

mainvars == <<pc, k, failed, series, ret, runs>>
clvars == <<searchvars, globvars, cmd, dlvars, mainvars>>

NoSeries == [eps |-> <<>>, path |-> <<>>, ondisk |-> {}, sel |-> {}, todo |-> 0, attempted |-> 0]

\* A file of someone else's.
Other == <<Run("other", 5)>>

CLInit ==
    /\ cmd \in Commands
    /\ \E names \in Before_ : files = [n \in names |-> [from |-> {Other}, whole |-> TRUE]]
    /\ states = {} /\ dl = NoDownload
    /\ run = TRUE /\ handlers = FALSE
    /\ gaveup = {} /\ cutshort = {} /\ faults = 0
    /\ SearchInit /\ GlobInit
    /\ pc = "main" /\ k = 1 /\ failed = 0 /\ series = NoSeries /\ ret = 1
    /\ runs = 1

Exit(r) == pc' = "exit" /\ ret' = r

IdleSearch == UNCHANGED searchvars
IdleGlob == UNCHANGED globvars
SameDisk == UNCHANGED <<files, states, run, handlers, gaveup, cutshort>>

-----------------------------------------------------------------------------
(***************************************************************************)
(* main's modes                                                            *)
(***************************************************************************)

Main == pc = "main"

NEpisodes == Len(cmd.episodes)

DoSearch ==
    /\ Main /\ cmd.mode = "search"
    /\ pc' = "search"
    /\ IdleSearch /\ IdleGlob
    /\ UNCHANGED <<cmd, dlvars, k, failed, series, ret, runs>>

SearchOver ==
    /\ pc = "search"
    /\ \/ step = "failed" /\ Exit(1) /\ UNCHANGED dl
       \/ step = "chosen" /\ pc' = "one" /\ dl' = New("new", cmd.url, cmd.out) /\ UNCHANGED ret
    /\ IdleSearch /\ IdleGlob
    /\ SameDisk
    /\ UNCHANGED <<cmd, faults, k, failed, series, runs>>

\* Several URLs, the mirrors of one file; or a playlist, or a series of one
\* episode, downloaded without expansion.
DoOne ==
    /\ Main
    /\ \/ cmd.mode = "mirrors" /\ dl' = New("new", cmd.url, cmd.out)
       \/ cmd.mode = "url" /\ IsPlaylist(cmd.url) /\ dl' = New("hls", cmd.url, cmd.out)
       \/ cmd.mode = "series" /\ NEpisodes = 1 /\ cmd.episodes[1].media # <<>>
          /\ dl' = Media(cmd.episodes[1].media, cmd.out)
    /\ pc' = "one"
    /\ IdleSearch /\ IdleGlob
    /\ SameDisk
    /\ UNCHANGED <<cmd, faults, k, failed, series, ret, runs>>

OneOver ==
    /\ pc = "one" /\ dl.phase = "returned"
    /\ Exit(dl.ret)
    /\ dl' = NoDownload
    /\ IdleSearch /\ IdleGlob
    /\ SameDisk
    /\ UNCHANGED <<cmd, faults, k, failed, series, runs>>

\* The extractor cannot resolve the page.
ResolveFails ==
    /\ Main /\ cmd.mode \in {"url", "series"}
    /\ Fault
    /\ Exit(1)
    /\ IdleSearch /\ IdleGlob
    /\ SameDisk
    /\ UNCHANGED <<cmd, dl, k, failed, series, runs>>

Batch == cmd.mode = "url" /\ ~IsPlaylist(cmd.url)

\* url_glob reads nothing but the URL: a later run would come to the same, and goes
\* on with what there is.
DoExpand ==
    /\ Main /\ Batch
    /\ IF at = "idle" THEN GlobStart(cmd.url) ELSE IdleGlob
    /\ pc' = "expand"
    /\ IdleSearch
    /\ UNCHANGED <<cmd, dlvars, k, failed, series, ret, runs>>

-----------------------------------------------------------------------------
(***************************************************************************)
(* The batch of a URL that was expanded                                    *)
(***************************************************************************)

IsRef(t) == t.kind = "#" /\ t.val \in 1..NCaps

HasNumberedRef(tpl) == \E i \in DOMAIN tpl : IsRef(tpl[i])

ResolveOutname(tpl, item) ==
    FlattenSeq([i \in DOMAIN tpl |-> IF IsRef(tpl[i]) THEN item.caps[tpl[i].val] ELSE <<tpl[i]>>])

\* "Refusing to write %zu downloads to a single file"
Clobbers == Len(items) > 1 /\ cmd.out # <<>> /\ cmd.out \notin Directories /\ ~HasNumberedRef(cmd.out)

ExpandOver ==
    /\ pc = "expand" /\ at \in {"expanded", "error"}
    /\ IF at = "error" \/ Clobbers THEN Exit(1) ELSE pc' = "batch" /\ UNCHANGED ret
    /\ IdleSearch /\ IdleGlob
    /\ UNCHANGED <<cmd, dlvars, k, failed, series, runs>>

BatchNext ==
    /\ pc = "batch" /\ dl.phase = "none"
    /\ k <= Len(items) /\ run
    /\ dl' = New("new", items[k].url, ResolveOutname(cmd.out, items[k]))
    /\ IdleSearch /\ IdleGlob
    /\ SameDisk
    /\ UNCHANGED <<cmd, faults, mainvars>>

Failure_SetupOnly(r) == r = 1

Failure(r) == r # 0

\* One failure does not end a batch.
ItemOver ==
    /\ pc \in {"batch", "series"} /\ dl.phase = "returned"
    /\ failed' = failed + (IF Failure(dl.ret) THEN 1 ELSE 0)
    /\ k' = k + 1
    /\ dl' = NoDownload
    /\ IdleSearch /\ IdleGlob
    /\ SameDisk
    /\ UNCHANGED <<cmd, faults, pc, series, ret, runs>>

BatchOver ==
    /\ pc = "batch" /\ dl.phase = "none"
    /\ k > Len(items) \/ ~run
    /\ Exit(IF ~run THEN 2 ELSE IF failed > 0 THEN 1 ELSE 0)
    /\ IdleSearch /\ IdleGlob
    /\ UNCHANGED <<cmd, dlvars, k, failed, series, runs>>

-----------------------------------------------------------------------------
(***************************************************************************)
(* run_series                                                              *)
(***************************************************************************)

\* One step of the insertion sort: past the episodes at the end with a larger
\* number, unless this one has none (-1).
InsertEpisode(sorted, e) ==
    LET stays(i) == e.number < 0 \/ sorted[i].number <= e.number
        j == Max({0} \cup {i \in DOMAIN sorted : stays(i)})
    IN  InsertAt(sorted, j + 1, e)

InOrder(episodes) == FoldLeft(InsertEpisode, <<>>, episodes)

\* episode_basename: the media URL's own name, or one made of the number.
EpisodeBasename(media, i) ==
    IF Leaf(media) \in {<<>>, <<Run("download", 8)>>}
    THEN <<Run("episode-", 8), Num(i, 2), Run(".mp4", 4)>>
    ELSE Leaf(media)

OutIsFile == cmd.out # <<>> /\ cmd.out \notin Directories

EpisodeOutpath(media, i) ==
    IF OutIsFile THEN cmd.out
    ELSE IF cmd.out # <<>> THEN cmd.out \o <<Sym("/")>> \o EpisodeBasename(media, i)
    ELSE EpisodeBasename(media, i)

\* What the user asks for: --all, --episodes, or a choice in the terminal.
Selections(n) ==
    IF cmd.select = "all" THEN {1..n}
    ELSE IF cmd.select = "tui" THEN (SUBSET (1..n)) \ {{}}
    ELSE IF cmd.select = "list" THEN {cmd.spec} \cap SUBSET (1..n)
    ELSE {}

\* access: the name may be that of a directory.
OnDisk(path) == path # <<>> /\ (Exists(path) \/ path \in Directories)

\* All episodes are resolved before the first is downloaded; those that cannot
\* be resolved stay without a media URL and a path.
DoSeries ==
    /\ Main /\ cmd.mode = "series" /\ NEpisodes > 1
    /\ LET eps == InOrder(cmd.episodes)
           path == [i \in 1..NEpisodes |-> IF eps[i].media = <<>> THEN <<>> ELSE EpisodeOutpath(eps[i].media, i)]
           ondisk == {i \in 1..NEpisodes : OnDisk(path[i])}
       IN  \E sel \in Selections(NEpisodes) :
             /\ series' = [eps |-> eps, path |-> path, ondisk |-> ondisk, sel |-> sel,
                           todo |-> Cardinality(sel \ ondisk), attempted |-> 0]
             /\ IF OutIsFile /\ Cardinality(sel \ ondisk) > 1 THEN Exit(1)
                ELSE pc' = "series" /\ UNCHANGED ret
    /\ IdleSearch /\ IdleGlob
    /\ UNCHANGED <<cmd, dlvars, k, failed, runs>>

\* The selection is cancelled or empty, the list is not a valid one, or --all and
\* --episodes are both given.
NoSelection ==
    /\ Main /\ cmd.mode = "series" /\ NEpisodes > 1
    /\ cmd.select = "tui" \/ Selections(NEpisodes) = {}
    /\ Exit(1)
    /\ IdleSearch /\ IdleGlob
    /\ UNCHANGED <<cmd, dlvars, k, failed, series, runs>>

EpisodeOnDisk == k \in series.ondisk \/ OnDisk(series.path[k])

Looking == pc = "series" /\ dl.phase = "none" /\ k <= NEpisodes /\ run

SkipEpisode ==
    /\ Looking
    /\ k \notin series.sel \/ EpisodeOnDisk
    /\ k' = k + 1
    /\ IdleSearch /\ IdleGlob
    /\ UNCHANGED <<cmd, dlvars, pc, failed, series, ret, runs>>

DownloadEpisode ==
    /\ Looking
    /\ k \in series.sel /\ ~EpisodeOnDisk
    /\ series' = [series EXCEPT !.attempted = @ + 1]
    /\ IF series.path[k] = <<>>
       THEN failed' = failed + 1 /\ k' = k + 1 /\ UNCHANGED dl
       ELSE dl' = Media(series.eps[k].media, series.path[k]) /\ UNCHANGED <<failed, k>>
    /\ IdleSearch /\ IdleGlob
    /\ SameDisk
    /\ UNCHANGED <<cmd, faults, pc, ret, runs>>

SeriesOver ==
    /\ pc = "series" /\ dl.phase = "none"
    /\ k > NEpisodes \/ ~run
    /\ Exit(IF ~run /\ series.attempted < series.todo THEN 2 ELSE IF failed > 0 THEN 1 ELSE 0)
    /\ IdleSearch /\ IdleGlob
    /\ UNCHANGED <<cmd, dlvars, k, failed, series, runs>>

-----------------------------------------------------------------------------
(***************************************************************************)
(* The process and its user                                                *)
(***************************************************************************)

Running == pc \notin {"exit", "down"}

\* Handled once a download has installed the handlers.
Signal ==
    /\ Running /\ handlers /\ run
    /\ run' = FALSE
    /\ IdleSearch /\ IdleGlob
    /\ UNCHANGED <<cmd, files, states, dl, handlers, gaveup, cutshort, faults, mainvars>>

\* A signal before that, or the process dies for another reason.
Die ==
    /\ Running /\ cmd.mode # "search"
    /\ Fault
    /\ pc' = "down"
    /\ IdleSearch /\ IdleGlob
    /\ SameDisk
    /\ UNCHANGED <<cmd, dl, k, failed, series, ret, runs>>

Again ==
    /\ ~Running /\ cmd.mode # "search"
    /\ runs < MaxRuns
    /\ runs' = runs + 1
    /\ pc' = "main" /\ k' = 1 /\ failed' = 0 /\ series' = NoSeries /\ ret' = 1
    /\ dl' = NoDownload /\ run' = TRUE /\ handlers' = FALSE
    /\ IdleSearch /\ IdleGlob
    /\ UNCHANGED <<cmd, files, states, gaveup, cutshort, faults>>

-----------------------------------------------------------------------------

Searches == pc = "search" /\ SearchNext /\ IdleGlob /\ UNCHANGED <<cmd, dlvars, mainvars>>

Expands == pc = "expand" /\ GlobNext /\ IdleSearch /\ UNCHANGED <<cmd, dlvars, mainvars>>

Downloading == Running /\ DownloadNext /\ IdleSearch /\ IdleGlob /\ UNCHANGED mainvars

CLNext ==
    \/ DoSearch \/ Searches \/ SearchOver
    \/ DoOne \/ OneOver \/ ResolveFails
    \/ DoExpand \/ Expands \/ ExpandOver \/ BatchNext \/ ItemOver \/ BatchOver
    \/ DoSeries \/ NoSelection \/ SkipEpisode \/ DownloadEpisode \/ SeriesOver
    \/ Downloading
    \/ Signal \/ Die \/ Again

CLSpec == CLInit /\ [][CLNext]_clvars

\* The main thread goes on, a thread that has its result or is cancelled ends,
\* and the clock gets past search_timeout.  That a server ever answers is not
\* assumed, nor anything of downloads.
CLFairness ==
    /\ WF_clvars(pc = "search" /\ SearchStep /\ IdleGlob /\ UNCHANGED <<cmd, dlvars, mainvars>>)
    /\ SF_clvars(pc = "search" /\ TimeOut /\ IdleGlob /\ UNCHANGED <<cmd, dlvars, mainvars>>)
    /\ \A i \in 0..(SearchAmount - 1) :
         WF_clvars(/\ pc = "search" /\ i \in Mirrors /\ (Leave(i) \/ CancelTest(i))
                   /\ IdleGlob /\ UNCHANGED <<cmd, dlvars, mainvars>>)

FairCL == CLSpec /\ CLFairness

-----------------------------------------------------------------------------

\* The search comes to its end although servers may never answer: every test is
\* given up after search_timeout, and a slot of the pool gets free for the next.
SearchEnds == pc = "search" ~> step \in {"chosen", "failed"}

\* A file that is complete is never written to again, whatever names a batch or a
\* series comes up with and however often a command is given; but for the playlist
\* of a command that asks for nothing else, which replaces the file that -o names.
NeverClobbers ==
    [][\/ dl.phase = "hls" /\ pc # "series"
       \/ \A name \in DOMAIN files :
            files[name].whole /\ ~HasState(name) => name \in DOMAIN files' /\ files'[name] = files[name]]_clvars

\* The names that an item of a batch may be saved under, and whether no two items
\* have one in common.
NamesOf(item) ==
    LET out == ResolveOutname(cmd.out, item)
    IN  IF out = <<>> THEN {Numbered(Leaf(item.url), i) : i \in 0..MaxNumber} ELSE {InDirectory(item.url, out)}

OwnNames ==
    at = "expanded" /\ \A m, n \in DOMAIN items : m # n => NamesOf(items[m]) \cap NamesOf(items[n]) = {}

\* State files of an earlier run are no danger.
NamesApart == runs = 1 \/ ~Batch \/ OwnNames

\* No file mixes the bytes of two URLs, in one run or over interrupted ones, if
\* a batch has a name for every item and no download was given up.
OneSource ==
    NamesApart /\ gaveup = {} =>
        \A name \in DOMAIN files : \A u, v \in files[name].from : u = v

Saved(name, url) == Exists(name) /\ ~HasState(name) /\ files[name] = [from |-> {url}, whole |-> TRUE]

\* No download was called a success that is none.
NoneMisjudged == gaveup = {} /\ cutshort = {}

\* Exit status 0 means that what was asked for is there: every URL of the
\* expansion in a file that is whole, every selected episode that was not on disk
\* before too.  But for downloads called a success that are none: see ExitCodeTruthful
\* of FluxEngine.
ExitTruthful ==
    (pc = "exit" /\ ret = 0 /\ NoneMisjudged) =>
        /\ (Batch /\ NamesApart) => \A n \in DOMAIN items : \E name \in DOMAIN files : Saved(name, items[n].url)
        /\ \A i \in series.sel :
              /\ OnDisk(series.path[i])
              /\ i \notin series.ondisk => files[series.path[i]].whole /\ ~HasState(series.path[i])

\* What the comment on episode_basename says: no two episodes share a file, so a
\* selected episode that was not there before is in the file of its name.
EpisodesDoNotClobber ==
    (pc = "exit" /\ ret = 0 /\ NoneMisjudged) =>
        \A i \in series.sel \ series.ondisk : Saved(series.path[i], series.eps[i].media)

=============================================================================
