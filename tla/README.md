# A TLA+ model of Hyperflux

Hyperflux (`src/`, the command `flux`) downloads one file over several
connections at once, possibly from several mirrors, resumes interrupted
downloads from a `.st` state file, and wraps that engine in URL expansion, a
page scanner, an extractor, an HLS downloader and an episode picker. This
directory is a model of it: TLA+ modules translated from the C code, TLC
configurations that check them on small instances, and proofs that TLAPS checks
for every value of the constants. Source paths below are relative to `src/src/`
unless they start with `src/`.

```
tlasany M.tla                                # parse a module
tlc -workers 2 -config X.cfg M               # run a configuration
tlapm MProofs.tla                            # check the proofs
```

`PROJECT.json` lists the runs, the mutants that show each property can fail,
the source lines each definition models, the hazards and the theorems.

## The system

### Components, state and operations

| Component | Source | State it keeps | Operations | What makes it correct |
|---|---|---|---|---|
| Download engine | `flux.c` | `flux_t`: size, bytes_done, ready, conn[]; per connection currentbyte, lastbyte, enabled, state, lock, setup_thread | `flux_new`, `flux_open`, `flux_start`, `flux_do`, `flux_close`, `flux_divide`, `reactivate_connection`, `setup_thread` | every byte fetched once and written at its own offset; complete only when whole; no connection lost; it ends |
| State file | `flux.c` (`save_state`, `flux_open`, `stfile_*`), `text.c` (`download_one`) | the `.st` file, the output file | save, load, unlink, refuse, drop a stale one | what it claims to be done is on disk; what it leaves open is all that is missing |
| Connection | `conn.c` | protocol, host, dir, file, size, supported, one HTTP or FTP client | `conn_set`, `conn_init`, `conn_setup`, `conn_exec`, `conn_info`, `conn_disconnect` | a request asks for what the segment still needs; redirects end |
| HTTP client | `http.c`, `abuf.c` | request and header buffers, status | `http_connect`, `http_get`, `http_exec`, `http_fetch_max` | bounded redirects, bounded body, header parsing |
| FTP client | `ftp.c` | control connection, cwd, status, data socket | `ftp_connect`, `ftp_cwd`, `ftp_size`, `ftp_data`, `ftp_wait` | the control dialogue stays in step |
| TCP, TLS (not modelled) | `tcp.c`, `ssl.c`, `ssl_verify.c`, `dn-match.c` | descriptor, SSL session | connect with a timeout, read, write, close | the descriptor is closed once |
| Command line, batch | `text.c` | `run`, the list of URLs, `conf` | option parsing, the batch loop, `download_one`, `run_series`, `stop` | exit codes, which files are skipped, resumed or overwritten |
| HLS | `hls.c` | the playlist, the segment pool (next, failed, lock), `seg-N.part` files | parse, pick a variant, fetch segments with workers, concatenate, decrypt | every segment claimed once and joined in order; one failure fails the download |
| Mirror search | `search.c` | results with a speed (or -1, -2, -3), the pool of speed-test threads | query, `search_getspeeds`, sort | at most the permitted threads; every result judged once |
| URL expansion | `url_glob.c` | the pattern's fields and their counters | parse, count, next | every combination once, in order |
| Extractor | `extractor.c` | the steps of a config, captured variables | load, match, run steps | steps see what earlier ones captured |
| Scanner | `scan.c`, `text.c` (`run_extract_scan`) | the candidates, the visited set and the count of fetches, the chain being built | scan a page and its iframes, recognise a series, follow links, choose, write a config | depth and page bounds hold; no page twice; the config gives what the scan found |
| Terminal selection | `tui.c` | cursor, top line, filter, marks | key handling | the cursor stays on a visible row; marks survive filtering |
| Configuration (not modelled) | `conf.c` | `conf_t` | parse files and options | |
| Hashing, randomness, sleep (not modelled) | `hash.c`, `random.c`, `sleep.c` | none | | |

### How they interact

`main` (`text.c`) expands the URL arguments and calls `download_one` for each
file. That asks the first server for the file's size (`flux_new`,
`conn_info`), decides about existing files, calls `flux_open` (divide, or read
the state file), `flux_start` (a setup thread for each connection) and then
`flux_do` in a loop until `ready` is set or a signal handler has cleared `run`,
and finally `flux_close`, which cancels all threads and removes or writes the
state file. Setup threads and the main thread share each `conn_t`: a setup
thread holds its `lock` from `conn_setup` to the end, and the main thread takes
it with `pthread_mutex_trylock` in each of its three loops and skips the
connection when it is taken. The tables of other connections, though, are read
and written without their locks (`reactivate_connection` moves the end of a
victim that may be transferring or being set up).

Around that: with `-S` the search (`search.c`) first measures mirrors with a
thread each and hands the fastest to `download_one`; a URL for which a config
exists is turned into a media URL, or into episodes, by the extractor, whose
configs the scanner may have written; a playlist goes to `hls.c`, which fetches
with `http_fetch_max` and shares nothing with the engine but the configuration
and the HTTP client. `extractor_resolve_url` makes a URL out of every reference
that was found in a page or a playlist.

### What is hard

 * *Interleaving*: main thread against one setup thread per connection; threads
   cancelled asynchronously; thread ids and descriptors that are reused.
 * *Stale state*: the fd_set is filled before `select` and used after it; a
   request carries the `lastbyte` of the moment it was built, while work is
   stolen later.
 * *Failure*: refused connections and replies, closed and silent connections,
   failed writes, failed `pthread_create`, signals.
 * *Crash and restart*: the state file is rewritten in place; a restart trusts it.
 * *Ending*: a lost connection has to be noticed and restarted, or the download
   never completes; a server that redirects for ever, a listing that links to
   itself or a mirror that never answers must not hold the program.
 * *Late answers*: `ftp_wait` may give up on a reply that comes later and is
   then read as that of the next command.
 * *Names*: batches and series choose file names from URLs, look at the disk,
   and download; a second run finds what the first has left.
 * *Small languages*: expansions, playlists, configs and lists of numbers are
   parsed by hand, each with its limits, defaults and error exits.

The `hazards` of `PROJECT.json` list each of these at its line, with the
properties that cover it.

## Modules

| Module | Models | About |
|---|---|---|
| `FluxLayout` | `flux_divide`, `reactivate_connection`, the cut of an over-long read | the segment table as a function, no state: shared by everything below |
| `Transfer` | the promises of a download | abstract specification: segments, bytes_done, the bytes on disk, ready; no threads, no sockets |
| `FluxEngine` | `flux_start`, `flux_do`, `flux_close`, `setup_thread`, `conn_setup`, `conn_exec`, `conn_disconnect`, `download_one`'s loop, `stop` | the implementation with its threads, locks, descriptors, streams and faults; refines `Transfer` |
| `StateFile` | `save_state`, `flux_open`'s reader, `download_one`'s decisions, crash and restart | extends `Transfer` with the process's life and the `.st` file |
| `HlsDownload` | `hls_download`, `hls_download_audio`, `hls_run_pool`, `hls_worker`, `hls_fetch_segment`, `hls_concat`, `hls_move_file`, `hls_ffmpeg_remux`, `hls_rmtree` | the HLS downloader from its playlist to the output file |
| `MirrorSearch` | `search_getspeeds`, `search_speedtest`, `search_sortlist`, `main`'s use of them | the pool of speed tests and the choice of mirrors |
| `UrlGlob` | `url_glob.c` | the expansion of a URL, pattern by pattern and URL by URL |
| `Downloads` | `download_one`, the parts of `flux_new`, `flux_open` and `flux_close` that look at names, `stop` | one download as the disk sees it; EXTENDS `UrlGlob`, whose texts name URLs and files |
| `CommandLine` | `main`'s modes, the batch loop, `run_series` and its helpers | composes `MirrorSearch`, `UrlGlob` and `Downloads` into whole runs of the program, and runs into histories |
| `HttpClient` | `conn_info`, `http_connect`, `http_exec`, `http_size`, `http_size_from_range`, `http_fetch_max`, `http_fetch_read_body`, `http_probe_len`, `urlseq.c` | requests, answers and redirects of the three clients of HTTP |
| `FtpClient` | `ftp_connect`, `ftp_cwd`, `ftp_size`, `ftp_data`, `ftp_wait`, `conn_info_ftp`, `conn_setup` | the dialogue on the control connection |
| `FluxNew` | `flux_new`'s use of both | composes `HttpClient` and `FtpClient`: a redirect may lead to FTP |
| `ResolveUrl` | `extractor_resolve_url` | a reference and the URL it is resolved against; no state, used by the next two |
| `HlsPlaylist` | `hls_parse_master`, `hls_parse_media`, the choice of variant and audio, keys, `hls_download`'s steps before its threads | the playlist, line by line |
| `Extractor` | `extractor_parse`, `discover`, the interpreter, `extractor_resolve`, `extractor_resolve_series`, `run_series`' resolution of episodes | from a page and the configs to media URLs |
| `PageScan` | `scan_page`'s landing page and iframes, `discover_chain`, `collect_follow_links`, the series of a page, `detect_direct_media_series`, `scan_emit_config` and `scan_emit_config_selection`, `run_extract_scan` | from a page to a config; EXTENDS `Extractor`, which then runs that config on the same page |
| `Selection` | `episode_parse_spec`, `tui_parse_line`, `tui_enter`, `tui_leave`, `tui_restore`, `tui_on_signal`, the menus' keys and windows | lists of numbers, and the menu with its signals |
| `LoopProofs`, `FluxLayoutProofs`, `FluxEngineProofs`, `StateFileProofs`, `CommandLineProofs`, `NetworkProofs`, `SourcesProofs`, `ScanProofs` | | theorems; `LoopProofs` has the lemmas about loops that `CommandLineProofs`, `SourcesProofs` and `ScanProofs` share |
| `MCTransfer`, `MCFluxEngine`, `MCStateFile`, `MCNetwork`, `MCCommandLine`, `MCSources` | | instances for TLC |

`MCSources` puts `HlsPlaylist`, `Extractor`, `PageScan` with the `Extractor` behind
it, and `Selection` side by side: they share nothing that changes, and each behaviour is
about one of them (`part`). `MCNetwork` does so with `FluxNew` and `HlsDownload` (`topic`).

### FluxLayout

A segment is `[currentbyte, lastbyte]`, as in `conn_t`. `Divide(size, n)` is
`flux_divide`: the number of connections is cut to `size / MIN_CHUNK_WORTH`, each
gets `seg_len` bytes and the last one `size % seg_len` more. `Reactivated(seg, i)`
is `reactivate_connection` past its early return, `Kept` the truncation of a
read that runs past the segment's end (`size = remaining`). `PartlyDone` are the
tables a saved state can hold before any work was handed over.

### Transfer: what a download promises

`Deliver(i, n)` writes what `n` received bytes hold for connection `i` and may
hand it half of the richest segment; `Reactivate(i)` is the same for a
connection that is idle already; `Complete` is the last test of `flux_do`,
`bytes_done == size`; `GiveUp` is any error that ends the loop. It starts
from a fresh or a partly done table. Every property is about how the table, the
counter and the disk fit together.

### FluxEngine: how the code keeps it

The main thread has a program counter (`start`, `while`, `scan`, `select`,
`handle`, `check`, `tail`, `close`, `done`, and `crashed`) and a cursor, the
`i` of its loops. One step is the body of one loop iteration for one
connection. That granularity is the code's: the body runs with the connection's
lock held, and a connection locked by its setup thread is skipped; between two
iterations every other thread may run. A setup thread goes through `created`,
`locked` (in `conn_setup`), `requested` (in `conn_exec`), `exited`; it can fail
in both calls.

| Code | Action |
|---|---|
| `flux_start`'s loop | `StartIdle`, `StartConn`, `StartFail` |
| `while (!flux->ready && run)` and `save_state` at the top of `flux_do` | `LoopEnter`, `LoopLeave` |
| filling the fd_set; select; its error | `ScanConn`; `Select`, `SelectNone`; `SelectInterrupted` |
| the read loop: skipped, silent or timed out, error, end, data, failed write | `HandleSkip`, `HandleQuiet`, `HandleError`, `HandleEof`, `HandleData`, `HandleWriteError` |
| `conn_check`: nothing to do, join and create, wait, cancel | `CheckSkip`, `CheckRestart`, `CheckWait`, `CheckCancel` |
| the last test | `DoTail` |
| `flux_close` | `CloseConn` |
| `setup_thread` | `ThreadLock`, `ThreadSetup`, `ThreadExec`, `ThreadFail` |
| `stop` | `Signal` |

The model keeps what the content depends on: `stream[i]` are the offsets the
server still sends on connection `i`, fixed by the request (`RequestedBytes`),
and `good` the local offsets that hold the server's byte for that offset. A read
at `currentbyte` is good only when the stream has got to the same offset. The
servers (`server`) may support ranges or not, be FTP servers (a RETR has no
end) or have a mirror that answers 200 with the whole file to a Range request,
which `conn_exec` accepts.

Thread ids and descriptors are small pools from which the lowest free
descriptor, or any free thread id, is handed out again. Joining or cancelling a
thread id that is not a thread is undefined behaviour: the model lets the call
return at once (`ESRCH`) or the process die (`crashed`).

### StateFile: how a download survives

The state file is the table being saved and how many of its fields have been
written so far; `save_state` truncates first and writes field by field
(`SaveBegin`, `SaveField`). The process can die between two
fields (`Crash`), or the disk can be full (`SaveShort`): asserts on the length written are
compiled out unless the build is configured with `--enable-debug`
(`src/configure.ac:94`). The history variable `torn` remembers that this has
happened. What flux_open makes of such a file is modelled all the same, and
`WritesWithinFile` holds of it; the properties that fail after it say so (`~torn`). Reading back includes the old-format path, which
`flux_open` takes for any file that is too short. Starting up covers
`download_one`'s decisions for a named output file: a fresh start, a resume, a
refusal, and dropping a state file whose output file is gone. The user may remove
the output file between two runs (`RemoveData`).

### HlsDownload: segments into one file

An HLS download shares no state with the engine: it fetches each segment with
one request of its own. The main thread runs `hls_run_pool` (`spawn`, `wait`),
`hls_concat` (`open`, `join`), removes the part files (`unlink`), does the same
again for an audio rendition when there is one and ffmpeg can take it (`audio`,
and `kind = "audio"` from there on), and ends in `mux`, `move` and `cleanup`. A worker
is `idle` at the top of `hls_worker`'s loop, `fetching` and `writing` in
`hls_fetch_segment`, `failing` between its return and the second lock, and
`exited`. A claim and the report of a failure are one step each, as they are made
under `pool->lock`; everything between them interleaves.

A part file is `partial` from `open` until its last `write`, then `whole`, or
`short` when the server ended the body early, which the code cannot tell. The pool of a failed
`pthread_create` goes on with the threads it has; with none the main thread runs
the loop itself, which is a single worker. `failed` is `pool.failed` and, once
the pool is drained, `rc`.

### MirrorSearch: the pool of speed tests

The main thread's `cur`, `running`, `left` and `correct` are those of
`search_getspeeds`; one step looks at one mirror. `thread[i]` is the life of a
mirror's test, `speed[i]` what its thread and the main thread both write. The
thread stores its result (`Measure`) and goes on for a while (`Leave`), and a
cancelled thread may still do both before it ends (`CancelTest`): `JoinTest`
therefore looks at the speed after the join. A thread that cannot be created
leaves the mirror pending (`StartFails`).

### UrlGlob, Downloads, CommandLine: from arguments to files

A text is a sequence of tokens: a bracket, a run of digits with its value and
length, one letter, or a run of anything else. `ScanLiteral`, `ScanPattern`,
`ScanError` and `ScanEnd` are one turn of `url_glob`'s loop, `Generate` writes one
URL and turns the odometer (`NextIdx`).

`Downloads` knows a file by the URLs whose bytes it holds (`from`), by whether
it is `whole`, and by its state file. `dl.phase` goes through `new` (`flux_new`
asks the server), `opened`, `going` with the handlers installed, and `returned`;
or `hls`. `Target` is the name that `download_one` settles on, numbered if it
has to be. `gaveup` remembers the files of downloads that ended with `ready`
negative, for which `download_one` returns 0 (see `engine_signal`), and `cutshort` those of a body
that a server without ranges broke off (`BreakOff`), for which it does the same; properties that speak of exit status 0 leave these out, and only these
(`NoneMisjudged`). Such a server also never has a state file (`SaveState`), so that
a download from it which is interrupted leaves a file that a second run refuses.

`CommandLine` adds `main`: `DoSearch`, `DoOne`, `DoExpand`, `DoSeries` are its
modes, `BatchNext`, `ItemOver`, `BatchOver` the batch, `SkipEpisode`,
`DownloadEpisode`, `SeriesOver` the series, `Signal` the handler, `Die` a crash
or a signal without a handler, and `Again` the user giving the same command
again in the directory as it is now.

### HttpClient, FtpClient, FluxNew: what a server says

`client` is who asks: `conn_info`, `http_fetch_max` or `http_probe_len`, which
follow redirects each in its own way (`InfoTarget`, `FetchTarget`, `TooMany`,
`Loop`). A `server` maps URLs to answers and to the truth about the file, which
the client never sees. `ExecCut` is a connection that ends while headers are
read: `conn_info` goes on with the old status and what is in the buffer, which
the model keeps.

`FtpClient` is one action per command awaiting its reply. `replies` are those
sent and not read: a reply that comes after `ftp_wait` has given up
(`late`) stays there and is read by the next command.

### ResolveUrl, HlsPlaylist, Extractor, PageScan, Selection

`HlsPlaylist` reads a playlist one line per step, the lines being thought up by
the server as they are read, so that a run covers every playlist up to the
bound. The choice of a variant (`EndMaster`) and the steps for audio and key follow. What is `ready` is what
`HlsDownload` starts from: segments, keys, IVs, audio.

`Extractor` starts with the user writing a config (`Write`), then `Begin` finds
the config (`Discover`), and one step runs one directive: before the list
(`ListDirective`), the list itself (`ListEpisodes`), and for each episode again
(`RunDirective`, `Output`). What a regular expression captures in a page is the
constant operator `Captures`, for the scanner, which ignores case where the extractor does not,
`ScanCaptures`; `site` says which pages there are, and any fetch may fail.

`PageScan` goes through `fetch` and `iframes` (`FetchLanding`, `Iframe`,
`IframesDone`), and, if there was no media and the depth allows it, `recurse`
(`RecurseSeries`, `RecursePage`) and `follow`. There `frames` are the calls of
`discover_chain`, each with its page and the links it has still to follow:
`FindMedia` is a call that finds media and returns, `FindLinks` one that collects
its links, `FollowLink` and `SkipLink` one turn of its loop, `Return` the end of it.
All calls write the one array `steps`, as in the code, and a candidate copies its
first entries. `Rank` is what follows the search (ranking, and the series of
a page that has the media itself), `SaveTop`, `SaveChosen` and `SaveNothing` are
the ends of `run_extract_scan`. What is written is a sequence of the `Extractor`'s lines, and
once it is on disk the `Extractor` is run on the page: `ConfigReproduces`
compares what it gives with what was chosen. The menu gives the chosen candidates in the order of the list
(`InOrder`). Expressions that the scanner puts
together are texts (`HrefEre`, `AnyEre`, `HandleEre`, `ListEre`).

`Selection` feeds one sequence of tokens to both readers of lists of numbers
(`spec` and `line`), and models the menu: it is drawn for the height of that moment (`Draw`), then
waits for a key (`Read`, `Key`), and a resize at any moment only interrupts the wait (`Resize`).
The rows that the drawing takes below the cursor are counted from the code (`RowsBelow`), given that a
title fits its line or two, as `episode_render` sees to and the other menu's comment assumes
("up to 2 rows per item"), and that the line of the selected titles takes any of `Summaries` rows, of
which the code reserves two. It also has the two halves of entering and leaving raw mode and a signal between any two
steps (`SetRaw`, `SetActive`, `Leave`, `SetBack`, `HandlersBack`, `Signal`, `Restored`).

## Runs

| Run | Configuration | Shows |
|---|---|---|
| `transfer` | sizes 1..11, up to 3 connections, work of 3 bytes worth a split, reads of up to 3 bytes | segments stay disjoint, `disk` and what is owed partition the file, bytes_done counts exactly, complete means whole |
| `engine` | 5 bytes, 2 connections, work of 2 bytes worth a split, all four kinds of server, fresh and resumed, every kind of fault, 2 faults | no lock held by a dead thread and no two setup threads for a connection; a socket belongs to one connection and to one thread at a time; each connection downloads its own part; the bytes on disk are the server's; the state file is there after every incomplete end and gone after the complete one; the engine implements `Transfer` |
| `engine_live` | 4 bytes, 2 connections, HTTP and FTP with ranges, connect, reply, read, close and timeout faults, 2 of them | the download completes |
| `resume` | sizes 1..6, up to 2 connections, 3 starts, crashes anywhere and full disks | after any crashes and restarts, none of them inside a save, the table and the counter account for the file, the state file claims nothing that is not on disk, complete means whole; and even after a torn save nothing is written beyond the end of the file |
| `network` | 3 video and 2 audio segments, 3 workers, all container and ffmpeg options, every kind of fault, 3 of them; every pair of answers of two URLs of one host with a third that has the file or redirects back; 16 FTP servers and 8 listings; 1 cut answer, 3 late replies | a segment is claimed once; a returned 0 means all of the video in order, and all or none of the audio; the temporary directory is gone at the end; the pools drain and the download returns; size and support for ranges are the server's, a transfer begins at the offset asked for, nothing is read beyond a buffer, the exchange ends |
| `cli` | 3 mirrors and 2 test threads; some forty command lines, 2 runs of each, 2 faults, a signal at any point | the slots of the pool are those of the unjoined threads, the chosen mirrors are the fastest and were measured, the search ends; an expansion is every combination once and in order; no file mixes two URLs, none that is complete is written again, exit status 0 is the truth but for the downloads of `gaveup` and `cutshort` |
| `sources` | every master playlist of up to 4 lines and media playlist of up to 6; every config of up to 5 further lines among three; every list of numbers of up to 5 tokens, the menu on screens of 2 to 30 rows, resized at any moment; 193 sites to scan, depths 0 to 2, any fetch failing | segments with the right key, IV and order, the right variant and audio; the right config and the right variables; no page fetched twice, and each candidate with the steps that lead to it; the config that was written gives what was chosen, wherever it can be said in one; both readers of lists agree with their meaning; the cursor is in the window and not scrolled off; the terminal is given back |
| `engine_join` | one expired reconnect delay | violated: a thread is joined that is gone |
| `engine_signal` | one signal | violated: an unfinished download returns 0 |
| `resume_torn` | as `resume` | violated: a file with a hole is reported complete |
| `series_same_leaf` | a series of two episodes whose media URLs end in the same name | violated: one file for both, exit status 0 |
| `scan_case` | as `sources` | violated: a page with its tags in capitals gives a config that finds nothing there |

**Bounds.** The interesting cases of the segment table need a segment with a
tail, a segment worth splitting, one just too small to be split, and a split of
a split; 5 bytes over two connections with `MinChunkWorth = 2` has them all, and
`transfer` repeats them with three connections and every size up to 11, which
covers `size / MinChunkWorth` below, at and above the number asked for. Reads
of 1 and 2 bytes end before, at and after the end of a segment. Two faults are
the fewest that let one fault hit the recovery from another, or hit both
connections at once; two connections are the fewest with a donor and a taker,
and with an id or a descriptor that moves from one to the other. Three workers and three segments
are the fewest with one worker failing while a second writes and a third has
still to claim; audio has fewer segments than there are workers, so `conc` is cut
down; three faults let one hit the pool, one the audio and one the
fallback after ffmpeg.

In `cli`, two test threads for the two mirrors that are left to test are one
slot each, so the wait for a free slot comes from `StartFails` and from tests
that are over but not joined; a batch has two or four items, of which
one can fail, be interrupted, or be found on disk; two runs are the fewest in
which a run meets what an interrupted one has left, and `Before_` adds files
of someone else under the very names a batch comes to. `MaxUrls = 8` and
`MaxLen = 8` are small so that lists, ranges, products and lengths are
met below, at and above the limit. `network` lets `max_redirect` be 3, with
redirect loops among three URLs, so that the limit, the loop check and the
right end all occur; three late replies let a reply be off by one and by two
when the next command is sent. In `sources` two variants and two segments are
the limits of the parsers, met by longer playlists; three items give a menu
with a first, a middle and a last line, and lists with every interval. Two links
per page, three pages in a chain, four fetches and three candidates are limits of the scan that the
sites exceed; depth 0 does not search, 1 stops at the episodes' pages and 2 goes
through a page that leads back, to a page that was visited, and to an ad. The
same system is used for `Extractor`'s limits: a config from the scanner has up to eight
directives and six variables and fits (`MaxDirectives = 9`, `MaxVars = 7`), one in the making
exceeds them. Two pages have tags in capitals, which only the scanner takes for tags. The heights are below, at and above
what the menus need besides one item, and the line of selected titles takes as many rows as there is room for and one more.
The whole run has 3.5 million states and takes a little over a minute. A behaviour's
counters (`MaxFaults`, `MaxRuns`, `MaxCuts`, `MaxLate`, `MaxNocreate`, the lines and tokens
read) are cut off and nothing else. `CHECK_DEADLOCK FALSE`
is there because all these systems end (`ready`, `done`, no start left, a returned
status).

**Fairness** (`engine_live`). Weak fairness of the main thread: it never blocks
in the modelled code except in `pthread_join`, which waits for a thread that has
cleared `state` and only has to return. Weak fairness of each setup thread: the scheduler runs it,
and `io_timeout` bounds its connect and its replies; a thread waits for its lock
only while the main thread is inside one iteration for that connection. Strong
fairness of `select` returning all the descriptors that it was asked about: a
server that goes on sending, or closes, makes its socket readable, so a
connection cannot be passed over for ever. The faults are finitely many by `MaxFaults`. Left out of that run, because
the property does not hold for them: `expire`, `create`, `write` and `signal`
(they end the download, or hit the join described below) and resumed tables
(they hit the second form of the same defect).

`network` assumes, of `HlsDownload`, weak fairness of the main thread and of each worker: the only
blocking calls are `pthread_join`, which is guarded by the exit of the threads,
`pool->lock`, held for a few instructions, and reads bounded by `io_timeout`;
that ffmpeg ends is assumed.

`cli` (for `SearchEnds`) assumes weak fairness of the main thread during a
search, strong fairness of `TimeOut` (the clock passes `search_timeout`; the main
thread looks at every mirror again and again, so the test is enabled again
and again, not all the time), and weak fairness of the end of a thread that
has stored its result or was cancelled. That a mirror ever answers is not
assumed. `network` assumes, of `FluxNew`, weak fairness of the next step: every read and connect
is bounded by `io_timeout`. That the exchange ends rests on the code's counters alone.

## What is proved

All proofs are in `*Proofs.tla`. Those about the download hold for every file size of at least one
byte, every buffer size and every `MinChunkWorth >= 1`, for a number of
connections between 1 and `MinChunkWorth`. The last bound is a real precondition of
`flux_divide`: the tail is `size % seg_len` where `size % num_connections` is
meant, and the two agree only while `seg_len` exceeds the remainder. The code meets it:
`num_connections` is a `uint16_t`, at most 65535, `MIN_CHUNK_WORTH` is 102400,
and `text.c:922` rejects values below 1.

`FluxLayoutProofs`, about the operators:

 * `DividePartitions`: `flux_divide` hands out disjoint segments that together
   are the file. It rests on `DivideSums`, `size = seg_len * m + tail`.
 * `ReactivatedPreserves`: handing over half a segment keeps the table
   well-formed and disjoint, and its union the same.
 * `AdvancedPreserves`: a read takes exactly the bytes written out of the union.
 * `PartlyDonePreserves`: a saved table is a disjoint part of the fresh one.
 * `OffsetsOfFile`: as many offsets of the file as the file has are all of them.
 * `DivideBounds`, `ReactivatedBounds`: a table stays well-formed, and its segments within the
   file, whether or not they are disjoint. State files that were cut short need the latter.

`StateFileProofs` begins with `TypeOK`, `SegmentsDisjoint`, `NothingLost`,
`BytesDoneExact` and `CompleteMeansWhole` of `Transfer`. The
inductive invariant `IInv` is the conjunction of all five and `size # 0`. `CompleteMeansWhole` alone is not inductive:
`flux_do` only compares two numbers, so one needs that `bytes_done` is the
cardinality of `disk` (`BytesDoneExact`), which a read preserves only because
the bytes written are not on disk yet (`NothingLost`), which in turn needs that no
other connection was owed them (`SegmentsDisjoint`); `OffsetsOfFile` then closes the argument.

`FluxEngineProofs`: every safety property of `FluxEngine` that a run expects to hold (`TypeOK`,
`NoOrphanedLock`, `SocketExclusive`, `DownloadsOwnPart`, `ContentCorrect`,
`ResumableOrDone`), and that it implements `Transfer`
(`EngineImplementsTransfer`), for all sizes, numbers of connections, servers and
faults that `EngineAssumption` allows. `Invariance` is one inductive invariant for all of them,
with a part for each thing that could go wrong:

 * `FileInv` is `Transfer`'s invariant about table, counter and disk.
 * `MainInv` says what `ready` and the loop variable can be at each program
   counter: the loop body begins with `ready = 0`, only `conn_check` may find it
   negative, and then some connection still owes bytes, so that the last test
   cannot turn an error into a complete download. It also has `ready = 1` only
   with `bytes_done = Size` if the server has ranges, which the refinement needs.
 * `ThreadInv`: a live thread is the one its connection knows by `tid`, and holds that
   connection's lock or none; a connection with `state` set has a live
   thread, except on the way out of the loop after a failed `pthread_create`. A
   cancellation in `flux_do` needs the lock first and so hits a
   thread that holds none, although ids are reused: that is `NoOrphanedLock`.
 * `FdInv`: a descriptor belongs to one connection, which is enabled or has a thread waiting
   for the reply. There are as many descriptors as connections, and a thread
   that opens one has none, so a free one exists (`FreeFd`).
 * `StreamInv`: from the request on, the server's offset is `currentbyte`, although
   other connections move `lastbyte` meanwhile. `ContentCorrect` follows.

`ReadyMeansRight` is the sum: with servers that honour ranges, `ready = 1` means that every
offset of the local file holds the server's byte. It combines `ContentCorrect`
with the count in `FileInv` and is no property of a run of its own.

The rest of `StateFileProofs` is `ResumeExact`, `SavedCovers` and `ResumedWhole`
for `StateFile`, as long as no save was cut short (`~torn`). The inductive invariant `SIInv`
adds to the properties that the saved table, once written, accounts for a part of
what is on disk, at every moment between two saves and through every restart.
Without the condition the third is false, which is what `resume_torn` shows.
`AlwaysWithinFile` is `WritesWithinFile` without that condition: even a table that was misread
from a torn file, with overlapping or negative segments, leads to no write beyond the end of
the file. Its invariant `WithinInv` therefore says nothing about what the
table owes, only that every segment ends within the file, for the table in memory and for
the one in the state file. Division, the reader and `reactivate_connection` all keep that.

`NetworkProofs`, of the HLS downloader: `TypeOK`, `ClaimedOnce`, `OutputWhole` and `NothingLeftBehind` of `HlsDownload`,
for any number of segments and faults and 1 to 64 workers. `OutputWhole`
speaks of the end only, so the inductive invariant follows the data back to the
pool: what is moved or remuxed was joined whole (`JoinInv`), a join starts only when
every job is `ok` (`PoolDoneKeeps`), because each claimed job is done, in a
worker's hands, or the pool has failed (`JobInv`), and when all threads have exited
without a failure the index is at the end and no hands are left (`PoolInv`). A
job marked `ok` stays done because no other worker can hold it
(`ClaimedOnce`).

`CommandLineProofs` has three parts. The first is about `MirrorSearch`: `PoolAccounts` and `FastestFirst` for any number of mirrors and threads
(`SearchAssumption`). The invariant ties `speed` to the thread that may write it (`MirrorInv`): a
mirror is pending exactly as long as it has no thread. `left` then counts the mirrors whose test is not
over (`PoolInv`), so at 0 nothing is left to join and none can change the list while it is sorted
and used. `OrderInv` adds that `correct` counts the mirrors with a speed. The order is sorted and names every
mirror once (`OrderCovers`, a pigeonhole), so its first `correct` entries are just those
(`OrderBegins`). `CommandLineSearches` carries this over: every step of the command line is one of
`MirrorSearch` or leaves it alone, so both hold of the program.

The second part is about files: `NeverClobbers`, `OneSource` and `ExitTruthful` for all command
lines, names, directories and files that were there before, and any number of faults and runs.

 * `NeverClobbers` rests on `DirInv`. Whether a file may be used is decided once, at `Open` (or
   for an episode when `access` finds no file), and it is written to much later: so the download must remain
   at the file it has found (`AimInv`), that file must keep its state file until the download ends, or
   be a new and empty one (`DiskInv`), and main must be waiting for this download and no other (`PlaceInv`).
 * `OneSource` needs to know who may resume what. In the first run there is no state file but that of the
   download in hand, or of an interrupted one, which was the last (`FirstRunInv`). In a later run, what can be
   resumed was left by an item that goes by that name, and if names are apart (`OwnNames`), that is the
   item which resumes it (`LeftInv`). `UntouchedInv` says that nothing was downloaded before the expansion was
   known. `PureInv` adds the download in progress to the property.
 * `ExitTruthful` speaks of the end. `SavedInv` says it of every item that is over as long as `failed`
   is 0; nothing that was saved is touched again, by the same argument as for `NeverClobbers`. `SeriesInv` does so for
   the episodes that `k` has passed, and counts `attempted` against those that are due: an interrupted series
   returns 0 if `todo` episodes were attempted, and those must have been all that were due.

The third part is `ExpansionExact`, for every URL, whatever its lists and ranges and the limits on their
number and on the length of a result are. The only assumption is that a URL is a sequence of tokens
(`CommandAssumption`). The invariant is `GlobInv`: `product` is the weight of all the patterns found so far, a
pattern that is added multiplies it (`PatternWeighs`, `WeightsGrow`), the literals between them
do not count (`WithLiteralKeeps`), and while URLs are written out the odometer stands at the number of those that are there. That
the digits are those of the next number after one turn (`OdometerTurns`) is the argument of a carry: all wheels behind the one that moves
are at their end, so each of them starts again and carries one to the next (`CountsOn`), and the wheels
before it do not see it. The weights are a recursive function, and dividing by one of them is dividing
by the next and then by the alternatives of the pattern between them (`DivideTwice`). If a pattern has no alternative, `product`
is 0 and nothing is written.

`NetworkProofs`, of the connections: `InfoTruthful`, `BuffersFit`, `FtpInfoTruthful` and `FtpOffsetRight`, for every set of servers
and URLs. What is assumed of a server (`ServersAssumption`, `FtpServersAssumption`) is that it does
not lie: the lengths of a success are the file's, only a server that can send parts answers with
one, and a reply to REST or SIZE is a yes or a no of RFC 959 and 3659. Over HTTP the invariant says
what `conn_info` can have in its buffer at `answer`: the answer for its URL, or, after an answer that was cut off,
something with the status of a redirect or none at all (`AnswerInv`), which it never believes;
that each URL in `visited` was paid for with a hop (`VisitedInv`); and that a body is shorter than its buffer (`BodyInv`).
Over FTP, `Behind` describes a control connection that is out of step: the replies to read begin with one to an earlier command.
Every command that follows then gets a reply that is none of its own, and none of those
can be taken for the size, for an accepted REST or for an opened data connection, so what is once behind
fails before it reports anything.

`SourcesProofs`: `PlaylistRight` for playlists of any length and any lines, qualities and limits.
`LinesAssumption` says what the model leaves to the types of the code: a STREAM-INF has numbers, and
`extractor_resolve_url` makes some URL of every reference. The loops of `hls_select_variant`
are recursive functions (`Winner`, `UpTo`), and what they choose is shown turn by turn, by the least turn
after which it would be wrong (`AfterEveryStep`, `WinnerWins`, `UpToWins`), so that `SelectVariant` gives the
`Nearest`. For the media playlist the invariant is `MediaRead`: after each line, `pending` says
that an EXTINF waits for its URL (`Waiting`), the key state is that of the last KEY (`KeyHolds`), and
the segments so far are those the lines so far name, in order, each with what holds where it stands (`SaysAll`). A
line added at the end leaves the place, the key and the number of all segments before it alone (`SegmentsGrow`, `PlacesGrow`,
`KeysGrow`), except that a MEDIA-SEQUENCE after the first segment changes the number
they count from: there `SequenceFirst`, which the property assumes, fails for good. That there is one key for
all of them is known only once it was fetched (`OneKey`).

The same module proves `CursorShown` for every number of items and all heights the terminal may be
given at any moment, with the arithmetic of `tui_visible_start` and of the scrolling menu
(`ViewInv`: a window that was drawn has the cursor in it, whatever `top` was before; the rows from the cursor
to the end of the drawing are fewer than the window and the rows reserved, and these fewer than the height, or the window
is one item, and then `RowsSuffice` has to say that there are rows for it), and
`TerminalRestored`: `TermInv` says for each place in entering and leaving what the flag, the
terminal and the handlers are, and what they may be once the process has died in it.
`ListsRight` is proved along the tokens of the list, one `Type` step after the other, for lists of any
length and any number of items. `ListInv` says of each reader what it knows so far (`Reading`): its place tells what there is of
the field that is still open, it has chosen what the closed fields mean (`Chosen`), and when it has given
up, either a closed field means nothing or the open one cannot come to mean anything any more
(`Ruined`, `StemShrinks`). The readers differ in when they look at a number, which is the `F` and `P` of `Accepts`.

`ScanProofs`: `ExtractionRight` is proved for configs of any length and any lines, any pages and any limits. That `Captures` and `ScanCaptures` give lists
(`CapturesGiveLists`) is the theorem's one hypothesis: it is about all patterns and texts, which TLC could not
enumerate in an `ASSUME` (`MatchesAssumption` of `MCSources` checks it for the instance). `Parse` is a recursive function of the number of lines read, so that `ReadsStep`
can say what one more line does to `Reads`: no error so far if and only if the lines so far are valid
(`ValidTo`), the last name, the patterns, the directives at their places, and `lastget` set exactly below
a get and its headers, which is where a header goes (`GetFits`). At the end `Keep` is `Valid` and `Wants`
(`KeepTold`). `ExInv` adds what a run keeps, `StoreOK`: the variables are `url` and those of the directives so far, each directive so far has what
it reads, and if no name is given twice then each has the value its directive says. A value that is added is of
a name that no earlier directive reads, so the earlier values stay what they were (`SameText`, `SameTarget`).

`ChainsLead` is proved in the same module for all pages and all limits of which the code's are an instance (`MaxFetches > 1`: the landing
page and a series' first episode are not counted against it before they are fetched). Two hypotheses are about
expressions: `CapturesGiveLists`, as above; and `HrefAssumption`, which TLC evaluates: a link is one of the matches
of the expression that was made from it, as it is unless it has more characters than `synthesize_link_ere`'s buffer holds.
`ScanInv` says of the calls of `discover_chain` what makes the shared array right: each call's page is reached from
the one before by the step that the array has *now* at the caller's place (`StepRight`), so that what deeper calls
left behind does not matter; no two calls are on the same page, and all pages are visited (`FrameRight`); and each
link that is left is one that its own expression finds on the call's page (`ReadList`). Media found by the
innermost call is then given the URLs of the calls as its way (`WayGoes`, `MediaLeads`), and what leads there once
leads there ever after (`LeadsStill`), as `visited` only grows.

`ConfigReproduces` (`ConfigAlwaysReproduces`) joins the two halves: what the scanner writes, and what the extractor makes of it. It is proved for all pages,
all candidates and choices and all limits with room for the longest chain (`ScanAssumption`: 64 directives
and 64 variables for chains of 4 steps). Its hypotheses are about expressions: `CapturesGiveLists`; `TextsCaptured`, that a match is a
text; `AnyFinds`, that an alternation of texts matches one of these; `NoneIsNoExpression`, that `None` stands for no expression.
They are about all expressions and texts, so TLC checks them only for those of its instance (`MatchesAssumption` of `MCSources`).
`TakenAssumption` says of the page that the user has not forced another config, that its URL has its own host and directory in it, which
is what the config matches, and that no config read earlier wants it. The proof has four parts.

 * What is known of a candidate (`FitInv`, kept by `FitKept`): its URL is one that the program writes (`Web`), so writing it down and reading it again
   gives the same URL (`ResolveWeb`, `TargetUrl`); and if
   there is a token, its expression finds the name on the first page.
 * What is written (`SavedFormed`): `Config` and `ConfigOf` are read back by `Parse` (`ParseRight`, from `ExtractionRight`'s proof) as one
   of three forms. `OneForm` is one candidate's, by URL, token or chain; `ListForm` a list of
   media; `LongForm` a list of pages, of which the first episode's was searched.
 * What is used. `UseInv` adds to these forms where a run is: after `q` directives of a pipeline, `PipeStore` says which
   variables there are and what they hold, which is the way that `ChainsLead` proves the candidate to have. If the chain is `Straight`, the extractor's first match on each
   page is the URL of the next (`ChainStage`), so every directive works, unless a page is lost, and the output is the
   candidate's URL (`ChainProceeds`, `PipeProceeds`). For a list it says that the episodes are what its expression finds (`AllListed`), and the media those
   so far (`SameMedias`), or the first episode's own (`OwnMedia`). Each step of the extractor keeps it (`UseKept`).
 * What was meant (`UsedRight`): the three parts of the property from the three forms.

TLC found `UseInv` to be an invariant of `MCSources` before it was proved. Two things in the model were wrong and came out in the proof.
The property counted the URLs of a list against the limit, while the code cuts off the *matches*, before duplicates are removed; and the alternation
was a text with bars in it, in which one reference could be found across two others, which an expression cannot.

Only model-checked: liveness (`EventuallyComplete`, `DownloadReturns`, `SearchEnds`, `ExchangeEnds`), which is out of the prover's reach.

## Where the code and its documentation disagree

Shown by a run:

 * **A thread is joined twice** (`flux.c:643`, `engine_join`). After
   `reconnect_delay` the thread is cancelled and joined, and `state` cleared; the
   next `conn_check` takes the cleared `state` for a thread that has finished
   and joins the same id again, which by then names nothing or another connection's
   thread. The same line joins the `0` of a connection that `flux_start` of a
   resumed download gave work to without a thread (`flux.c:464`).
 * **Exit code 0 for an unfinished download** (`flux.c:538`, `engine_signal`):
   a signal during `select` sets `ready` to -1 and `download_one` returns
   `flux->ready ? 0 : 2`. A write error does the same, and so does
   a body cut short by a server without range support, whose end sets `ready` to 1 (`flux.c:593`):
   `ExitCodeTruthful` fails with the one fault "eof" too. `src/doc/flux.txt:120` says
   that 0 means that "the download was successful".
 * **A torn state file** (`flux.c:306`, `resume_torn`): a crash inside
   `save_state` leaves a prefix that is read as the old format, with `bytes_done`
   trusted and the segments divided anew; the counter reaches the size while
   bytes are missing.
 * **Two episodes, one file** (`text.c:1466`, `series_same_leaf`): the comment
   promises a number in every name; the code puts one only where the URL has no name.
 * **A config that does not see what the scanner saw** (`extractor.c:265`, `scan_case`): the scanner's
   expressions ignore case, and the extractor compiles the same text without `REG_ICASE`.
   `src/README.md:35` says that the config "resolves the real media URL".

Seen while modelling, not shown by a run of their own:

 * Without range support a connection that times out is opened again without a
   Range header, and the file from its first byte is written at the old
   `currentbyte` (`conn.c:313`); `src/doc/fluxrc.example:29` says "abort (and
   resume)". `ContentCorrect` is therefore stated for servers that support ranges.
 * Any 2xx is accepted for a Range request (`conn.c:337`), so a mirror that
   answers 200 has the beginning of the file written into the middle;
   `src/doc/flux.txt:9` says each connection downloads its own part.
   `DownloadsOwnPart` and `ContentCorrect` are stated without such mirrors.
 * `flux_start` ends with `ready = 0` (`flux.c:487`) and so forgets that a thread
   could not be created; `src/doc/API:82` says ready is set "as soon as something
   goes wrong". The connection then has `state` set and no thread, waits for
   `reconnect_delay`, and is cancelled with an id of 0.
 * `save_state_interval = 0` is documented to turn saving off, but `flux_do`
   compares the clock with a time in the past and saves in every iteration (`flux.c:503`).
 * An empty file on an FTP server divides by zero (`flux.c:918`).
 * `conn_info` (`conn.c:476`) follows one redirect fewer than `http_fetch_max`
   for the same `max_redirect` (`src/doc/fluxrc.example:24`). It puts a relative
   Location after the whole URL, name included, and takes `//host/path` for a path.
 * For an empty file that is answered with 416, `conn_info` reports the length of
   the error page; `InfoTruthful` leaves 416 out.
 * A body that ends early is taken for all of it (`http_fetch_read_body`), and the
   limit that is really kept is `max_body` less what one more read needs.
 * The test for room in the header buffer is the wrong way round (`http.c:276`); the
   sizes used never let it matter.
 * FTP: a server that answers REST with 2xx, together with a late reply, lets
   SIZE read a number that was never stored (`ftp.c:126`); `FtpServers` of the
   run answer 350 or 502. The last address of a host counts as connected
   although it was refused (`tcp.c`), and SIGPIPE is never ignored.
 * Search: `search_top` counts only with `verbose` (`text.c:1030`;
   `src/doc/fluxrc.example:95` does not say so). `search_threads = 0` has the
   loop run for ever, `-S0` gives `flux_new` no URL at all, and a clock that steps back stores a
   speed of 0 or less, which reads as one of the states.
 * A state file does not say which URL it belongs to: an unnamed batch whose
   items have one name, interrupted and started again, resumes one URL into the
   other's file. `OneSource` and `ExitTruthful` exclude it (`OwnNames`).
 * An interrupt between the installation of the handlers and the first
   `flux_do` leaves an empty file without a state file, which a named rerun refuses.
 * An interrupt during the last episode returns 1 and not 2; a series takes a partial
   file on disk for a finished episode and returns 0; sorting episodes stops at one without a number.
 * `hls_download` replaces the file named by `-o`, and does not react to Ctrl-C.
 * `flux_open` stores the reduced number of connections in the shared `conf`
   (`flux.c:896`): a small file slows the rest of a batch.
 * Playlists: BYTERANGE is ignored; a default rendition without a URI is replaced
   by one of another language; relative URLs are resolved against the URL asked
   for, not the one redirected to; a height can pick an audio-only variant.
   `PlaylistRight` states what the code does for these.
 * `extractor_resolve_url` takes any reference with `://` in it for absolute
   (`extractor.c:424`), and a reference `?query` loses the name it belongs to.
 * Extractor: the header says that a forced name loads `<name>.conf`; the code
   compares the config's `name`. A directive called `url` replaces `{url}`;
   `MediaRight` is stated for configs that use each name once.
 * Scanner: the comment at `scan.c:1475` says that the first-seen chain to a media URL is
   the shortest; the search is depth-first, and it is not. A page that was first
   reached at the depth limit is not searched when it is reached again nearer to the landing
   page. `SCAN_MAX_FETCHES` does not count iframes and size requests.
 * A config from the scanner (`src/README.md:36`: it "resolves the real media URL") is run by an extractor that
   takes the first match of an expression, and takes references for those of `{url}`
   whatever page they are on. A chain through another match, or over a page in another
   directory, or one that needs case to be ignored, gives another URL or none: `Expressible` in `ConfigReproduces` is exactly this. Several
   chosen candidates become an alternation of texts, which finds only
   those that are on the landing page, though `scan.h` says "EXACTLY the candidates". The list of
   a whole series has one extension and one form of quotes. The limit of 2000 episodes is one of matches (`extractor.c:1237`), which are
   counted before `resolve_dedup_list` removes duplicates: a page that links each of more than 1000 episodes twice loses some. A first episode that is the landing page has been visited,
   and the config is left for the user to complete. A `{` in a URL is read as the beginning of a variable.
 * Terminal: a signal between `tcsetattr` and the assignment of the flag (`tui.c:159`, `tui.c:75`) on the way
   in or out, or a second one inside the handler, ends the program in raw mode; the comment at the head of
   `tui.c` says that it is undone "on every exit path, including SIGINT/SIGTERM". `TerminalRestored` says
   that there are no other such moments. `tui_resized` is set and cleared (`tui.c:594`) and never tested, so
   that a SIGWINCH has an effect only during `read`; one between the drawing and the `read` leaves the menu as it is
   until the next key, though the comment at `tui.c:155` has the loop redraw. The comment
   at `tui.c:907` has "chrome + window <= rows-1", but one item is shown however few rows there are, and the
   header then scrolls away. `CursorShown` speaks of the size that was drawn for, and of the item.

## Not modelled

 * The clock and throttling: a comparison with a timeout may come out either way
   (`Fault("timeout")`, `Fault("expire")`, `TimeOut`); the delay that limits the speed has no
   effect on any state above.
 * A state file that cannot be opened for writing or removed (`flux.c:797`, `flux.c:752`): the code goes on as if
   it could, so `ResumableOrDone` and what `CommandLine` says of state files hold only where it can.
 * `FluxEngine` resumes from tables saved before any work was handed over (`PartlyDone`); `StateFile` from
   any that was saved.
 * In `Downloads`: names that a server gives with Content-Disposition (`flux.c:249`); of HLS names, all but the
   `.m3u8` that becomes `.mp4` (`hls.c:1256`, `hls.c:1513`).
 * In `HttpClient`: an answer that is cut off in its headers, after a Location line of its own.
 * In `FluxEngine`: files of unknown size (`LLONG_MAX`), empty files, and FTP servers without REST;
   redirects and headers (they are `FluxNew`'s). A connection attempt succeeds or fails.
 * TCP, TLS and name resolution (`tcp.c`, `ssl.c`, `ssl_verify.c`, `dn-match.c`): calls into the system and
   OpenSSL with no protocol of their own beyond the life of a descriptor, which is `FluxEngine`'s.
 * Library-internal locks that an asynchronously cancelled thread may hold.
 * Messages, progress display, the options themselves, configuration files (`conf.c`): they end
   in the constants of the modules.
 * The syntax of URLs (`conn_set`), of attribute lists in playlists and of quoted
   words in configs; regular expressions, which are libc's.
 * A file that changes on the server between two runs: the code has nothing that could notice.
 * In `HlsDownload`: running out of memory, the contents of segments and their decryption (a segment
   that cannot be decrypted is one that cannot be fetched), and errors of `opendir`, `unlink` and `rmdir` while cleaning up.
   Signals have no part in it: `hls.c` never looks at `run`.
 * In `Selection`: the menu for one item and the drawing of lines.
 * Hashing, randomness and `sleep.c`: pure functions and a system call.
 * In `PageScan`: the syntax of expressions, Google Drive's links, the sizes that servers report and so the order
   of the candidates (any may be at the top), the page that is larger than the limit (a fetch that
   fails), `conf_store`'s pending config and `--extract-save`'s refusal to overwrite. Where
   several tokens of a page could hold a name, any is taken.

## Plan

Done: `FluxLayout`, `Transfer` and their proofs; `FluxEngine` over `Transfer`,
safety and liveness, with proofs of its safety and of the refinement; `StateFile`
over `Transfer` and its proofs; `HlsDownload` and its proofs; `MirrorSearch` and
its proofs; `UrlGlob`, `Downloads` and their composition `CommandLine`;
`HttpClient`, `FtpClient` and `FluxNew`; `ResolveUrl`, `HlsPlaylist`, `Extractor`, `PageScan`, `Selection`.

What would come next, in this order:

 1. `HlsPlaylist` in front of `HlsDownload`, so that what is joined is what the
    playlist says, discontinuities and keys included.
 2. `FluxNew`'s outcomes as the servers of `FluxEngine`, and files of unknown size.

Composition: `FluxEngine` refines `Transfer`; `StateFile` extends `Transfer`
and so, through that refinement, speaks about the engine; `Downloads` uses the
outcomes of a download (complete, incomplete, refused, given up) as `FluxEngine` and
`StateFile` establish them.
