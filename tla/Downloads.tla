----------------------------- MODULE Downloads -----------------------------
(***************************************************************************)
(* One download as the command line sees it: download_one (src/src/text.c) *)
(* with the parts of flux_new, flux_open and flux_close (src/src/flux.c)   *)
(* that look at the directory or change it, and the handover of playlists  *)
(* to hls_download.  What becomes of the bytes inside a file is the        *)
(* subject of StateFile; here a file is known by the URLs whose bytes it   *)
(* holds.  Names and URLs are the texts of UrlGlob.                        *)
(***************************************************************************)
EXTENDS UrlGlob

CONSTANTS Directories,  \* the names that are directories
          Norest,       \* the URLs whose server cannot resume (conn->supported = 0)
          MaxNumber,    \* bound: the numbers tried for a file that exists
          MaxFaults     \* bound: how many things go wrong in one behaviour

VARIABLES cmd,       \* the command line
          files,     \* the files: [from, whole]
          states,    \* the names with a state file
          dl,        \* the download: [phase, url, out, name, fresh, ret]
          run,       \* cleared by the signal handler
          handlers,  \* whether the signal handlers are installed
          gaveup,    \* the names of downloads that were given up and called a success
          cutshort,  \* those of downloads without ranges whose body broke off, called a success
          faults     \* bound: faults so far

dlvars == <<files, states, dl, run, handlers, gaveup, cutshort, faults>>

Exists(name) == name \in DOMAIN files
HasState(name) == name \in states

NoDownload == [phase |-> "none", url |-> <<>>, out |-> <<>>, name |-> <<>>, fresh |-> FALSE, ret |-> 0]

New(phase, url, out) == [NoDownload EXCEPT !.phase = phase, !.url = url, !.out = out]

\* What is after the last slash: conn_set's file.  A name that the server gives
\* (Content-Disposition) in its place is left out.
Leaf(url) == SubSeq(url, SelectLastInSeq(url, LAMBDA t : t = Sym("/")) + 1, Len(url))

Supports(url) == url \notin Norest

Empty == [from |-> {}, whole |-> FALSE]

\* The file of a name, created or replaced.
With(name, file) == [n \in DOMAIN files \cup {name} |-> IF n = name THEN file ELSE files[n]]

Fault == faults < MaxFaults /\ faults' = faults + 1

Return(r) == dl' = [dl EXCEPT !.phase = "returned", !.ret = r]

-----------------------------------------------------------------------------
(***************************************************************************)
(* The name of the output file                                             *)
(***************************************************************************)

Numbered(leaf, i) == IF i = 0 THEN leaf ELSE leaf \o <<Sym("."), Num(i - 1, 1)>>

Takes_NoStateNeeded(url, name) == IF Exists(name) THEN Supports(url) ELSE ~HasState(name)

\* Without a name: the first number whose file can be resumed, or that is free.
Takes(url, name) == IF Exists(name) THEN Supports(url) /\ HasState(name) ELSE ~HasState(name)

FreeNumbers(url) == {i \in 0..MaxNumber : Takes(url, Numbered(Leaf(url), i))}

InDirectory(url, out) == IF out \in Directories THEN out \o <<Sym("/")>> \o Leaf(url) ELSE out

Target(url, out) ==
    IF out = <<>> THEN Numbered(Leaf(url), Min(FreeNumbers(url))) ELSE InDirectory(url, out)

\* A number is found: MaxNumber is no limit of the program's.
Named == dl.out = <<>> => FreeNumbers(dl.url) # {}

NoStateFile_Swapped(name) == HasState(name) /\ ~Exists(name)

NoStateFile(name) == Exists(name) /\ ~HasState(name)

\* "No state file, cannot resume!"
Refused(url, out) == out # <<>> /\ NoStateFile(Target(url, out))

-----------------------------------------------------------------------------
(***************************************************************************)
(* download_one                                                            *)
(***************************************************************************)

\* flux_new with the no-clobber option looks at the name in the URL.
Declined == cmd.noclobber /\ NoStateFile(Leaf(dl.url))

Connecting == dl.phase = "new"

FluxNewDeclines ==
    /\ Connecting /\ Declined
    /\ Return(1)
    /\ UNCHANGED <<cmd, files, states, run, handlers, gaveup, cutshort, faults>>

\* The URL cannot be parsed, the server not reached, or the file not found.
FluxNewFails ==
    /\ Connecting /\ ~Declined
    /\ Fault
    /\ Return(1)
    /\ UNCHANGED <<cmd, files, states, run, handlers, gaveup, cutshort>>

RefuseName ==
    /\ Connecting /\ ~Declined
    /\ Refused(dl.url, dl.out)
    /\ Return(1)
    /\ UNCHANGED <<cmd, files, states, run, handlers, gaveup, cutshort, faults>>

\* A state file without its data is removed, for a named file only (without a
\* name such a number is passed over).
StatesFor(name) == IF Exists(name) THEN states ELSE states \ {name}

Open ==
    /\ Connecting /\ ~Declined
    /\ ~Refused(dl.url, dl.out) /\ Named
    /\ LET name == Target(dl.url, dl.out)
       IN  /\ states' = StatesFor(name)
           /\ files' = IF Exists(name) THEN files ELSE With(name, Empty)
           /\ dl' = [dl EXCEPT !.phase = "opened", !.name = name,
                               !.fresh = ~(Supports(dl.url) /\ name \in states')]
    /\ UNCHANGED <<cmd, run, handlers, gaveup, cutshort, faults>>

\* flux_open fails: the output file cannot be created or opened.
OpenFails ==
    /\ Connecting /\ ~Declined
    /\ ~Refused(dl.url, dl.out) /\ Named
    /\ Fault
    /\ states' = StatesFor(Target(dl.url, dl.out))
    /\ Return(1)
    /\ UNCHANGED <<cmd, files, run, handlers, gaveup, cutshort>>

\* flux_start, and the signal handlers.
InstallHandlers ==
    /\ dl.phase = "opened"
    /\ handlers' = TRUE
    /\ dl' = [dl EXCEPT !.phase = "loop"]
    /\ UNCHANGED <<cmd, files, states, run, gaveup, cutshort, faults>>

\* save_state has no use for a state file if the server cannot resume.
SaveState == states' = IF Supports(dl.url) THEN states \cup {dl.name} ELSE states

\* flux_do saves the state before it reads anything.
FluxDo ==
    /\ dl.phase = "loop" /\ run
    /\ SaveState
    /\ files' = [files EXCEPT ![dl.name] = [from |-> @.from \cup {dl.url}, whole |-> FALSE]]
    /\ dl' = [dl EXCEPT !.phase = "data"]
    /\ UNCHANGED <<cmd, run, handlers, gaveup, cutshort, faults>>

\* All of it is there: what was begun afresh holds nothing else any more.
Complete ==
    /\ dl.phase = "data" /\ run
    /\ files' = [files EXCEPT ![dl.name] =
           [from |-> IF dl.fresh THEN {dl.url} ELSE @.from, whole |-> TRUE]]
    /\ dl' = [dl EXCEPT !.phase = "ready"]
    /\ UNCHANGED <<cmd, states, run, handlers, gaveup, cutshort, faults>>

\* The one connection to a server without ranges is at its end before the file is,
\* which is taken for the end of the file; or it was lost and opened again, and the
\* body begun anew was written on where the lost one ended.
BreakOff ==
    /\ dl.phase = "data" /\ run /\ ~Supports(dl.url)
    /\ Fault
    /\ cutshort' = cutshort \cup {dl.name}
    /\ dl' = [dl EXCEPT !.phase = "ready"]
    /\ UNCHANGED <<cmd, files, states, run, handlers, gaveup>>

\* flux_close after a download that is complete, or is taken to be.
CloseReady ==
    /\ dl.phase = "ready"
    /\ states' = states \ {dl.name}
    /\ Return(0)
    /\ UNCHANGED <<cmd, files, run, handlers, gaveup, cutshort, faults>>

\* flux_do gives up and sets ready to -1, which is not 0.
GiveUp ==
    /\ dl.phase = "data" /\ run
    /\ Fault
    /\ gaveup' = gaveup \cup {dl.name}
    /\ Return(0)
    /\ UNCHANGED <<cmd, files, states, run, handlers, cutshort>>

\* The loop ends because of a signal; flux_close saves what has been received.
CloseInterrupted ==
    /\ dl.phase \in {"loop", "data"} /\ ~run
    /\ IF dl.phase = "data" \/ ~dl.fresh THEN SaveState ELSE UNCHANGED states
    /\ Return(2)
    /\ UNCHANGED <<cmd, files, run, handlers, gaveup, cutshort, faults>>

-----------------------------------------------------------------------------
(***************************************************************************)
(* hls_download, which replaces the output file when everything is there,  *)
(* and does not look at run                                                *)
(***************************************************************************)

M3u8 == Run(".m3u8", 5)

IsPlaylist(url) == Find(url, M3u8) # 0

\* The name of an .mp4 made of an .m3u8; other endings, and .ts where .mp4 cannot
\* be made, are left out.
HlsTarget(url, out) == IF out = <<>> THEN Before(Leaf(url), M3u8) \o <<Run(".mp4", 4)>> ELSE out

HlsDone ==
    /\ dl.phase = "hls"
    /\ LET name == HlsTarget(dl.url, dl.out)
       IN  /\ name \notin Directories
           /\ files' = With(name, [from |-> {dl.url}, whole |-> TRUE])
    /\ Return(0)
    /\ UNCHANGED <<cmd, states, run, handlers, gaveup, cutshort, faults>>

HlsFails ==
    /\ dl.phase = "hls"
    /\ \/ HlsTarget(dl.url, dl.out) \in Directories /\ UNCHANGED faults
       \/ Fault
    /\ Return(1)
    /\ UNCHANGED <<cmd, files, states, run, handlers, gaveup, cutshort>>

\* download_media_url: playlists and everything else.
Media(url, out) == New(IF IsPlaylist(url) THEN "hls" ELSE "new", url, out)

DownloadNext ==
    \/ FluxNewDeclines \/ FluxNewFails \/ RefuseName \/ Open \/ OpenFails
    \/ InstallHandlers \/ FluxDo \/ Complete \/ BreakOff \/ CloseReady \/ GiveUp \/ CloseInterrupted
    \/ HlsDone \/ HlsFails

=============================================================================
