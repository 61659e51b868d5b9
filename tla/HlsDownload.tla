---------------------------- MODULE HlsDownload ----------------------------
(***************************************************************************)
(* hls_download (src/src/hls.c): a playlist's segments fetched by a pool   *)
(* of worker threads into part files, joined in order into a .ts file,     *)
(* optionally the same again for an audio rendition, and remuxed by ffmpeg *)
(* or moved to the output file.                                            *)
(*                                                                         *)
(* What a segment contains is abstracted to whether its part file has all  *)
(* that was received; an encrypted segment that cannot be decrypted, or    *)
(* has no key, is one that cannot be fetched.                              *)
(***************************************************************************)
EXTENDS Integers, Sequences, FiniteSets

CONSTANTS Segments,      \* media->nsegments of the playlists: [video, audio]
          Concurrency,   \* conf->num_connections, at most 64 here
          Options,       \* what a download may be asked for, see options below
          Faults,        \* which kinds of fault can happen
          MaxFaults      \* bound: how many faults happen in one behaviour

FaultKinds == {"playlist", "create", "fetch", "short", "write", "join",
               "audio", "ffmpeg", "exdev", "move"}

OptionRecords == [mux : {"ts", "mp4", "auto"}, ffmpeg : BOOLEAN, audio : BOOLEAN]

ASSUME HlsAssumption ==
    /\ Segments \in [{"video", "audio"} -> Nat \ {0}]
    /\ Concurrency \in 1..64
    /\ Options \subseteq OptionRecords
    /\ Faults \subseteq FaultKinds
    /\ MaxFaults \in Nat

VARIABLES
    options,    \* mux_pref, whether ffmpeg is in PATH, whether there is an audio_url
    pc,         \* the main thread's place in hls_download
    kind,       \* "video", or "audio" in hls_download_audio
    started,    \* threads created by hls_run_pool
    next,       \* pool.next
    failed,     \* pool.failed
    worker,     \* the workers: where each one is, and the job it has claimed
    part,       \* jobs[i].path: the part files in the temporary directory
    ok,         \* the jobs with jobs[i].ok
    joined,     \* video.ts and audio.ts: the parts they hold, or NoFile
    cursor,     \* the i of hls_concat
    tmpdir,     \* whether the temporary directory exists
    out,        \* the output file
    ret,        \* hls_download's return value, 1 before it is known
    faults      \* bound: faults so far

pool == <<started, next, failed, worker>>
files == <<part, ok, joined, tmpdir>>
vars == <<options, pc, kind, pool, files, cursor, out, ret, faults>>

Jobs == 0..(Segments[kind] - 1)

Workers == 1..Concurrency

NoPart == "none"

NoFile == [exists |-> FALSE, parts |-> <<>>]
File(parts) == [exists |-> TRUE, parts |-> parts]

Fault(which) ==
    /\ which \in Faults
    /\ faults < MaxFaults
    /\ faults' = faults + 1

NoFault == UNCHANGED faults

\* A pool of no threads, before hls_run_pool.
Resting == [w \in Workers |-> [at |-> "none", job |-> 0]]

\* The jobs of a playlist, none of them begun.
Unfetched(k) == [i \in 0..(Segments[k] - 1) |-> NoPart]

NewPool(k) ==
    /\ kind' = k
    /\ started' = 0 /\ next' = 0 /\ failed' = FALSE
    /\ worker' = Resting
    /\ part' = Unfetched(k) /\ ok' = {}
    /\ pc' = "spawn"

Init ==
    /\ options \in Options
    /\ pc = "start" /\ kind = "video" /\ cursor = 0
    /\ started = 0 /\ next = 0 /\ failed = FALSE /\ worker = Resting
    /\ part = Unfetched("video") /\ ok = {}
    /\ joined = [k \in {"video", "audio"} |-> NoFile]
    /\ tmpdir = FALSE
    /\ out = [container |-> "none", video |-> <<>>, audio |-> <<>>]
    /\ ret = 1
    /\ faults = 0

-----------------------------------------------------------------------------
(***************************************************************************)
(* hls_download, to the first pool                                         *)
(***************************************************************************)

\* No playlist, no variant, no segments, no key, two keys, no directory.
Refused ==
    /\ pc = "start"
    /\ Fault("playlist")
    /\ pc' = "done" /\ ret' = -1
    /\ UNCHANGED <<options, kind, pool, files, cursor, out>>

Begin ==
    /\ pc = "start"
    /\ NewPool("video")
    /\ tmpdir' = TRUE
    /\ NoFault
    /\ UNCHANGED <<options, joined, cursor, out, ret>>

-----------------------------------------------------------------------------
(***************************************************************************)
(* hls_run_pool                                                            *)
(***************************************************************************)

\* No more threads than jobs.
Threads == IF Concurrency < Segments[kind] THEN Concurrency ELSE Segments[kind]

CreateWorker ==
    /\ pc = "spawn"
    /\ started < Threads
    /\ started' = started + 1
    /\ worker' = [worker EXCEPT ![started + 1].at = "idle"]
    /\ pc' = IF started + 1 = Threads THEN "wait" ELSE pc
    /\ NoFault
    /\ UNCHANGED <<options, kind, next, failed, files, cursor, out, ret>>

\* pthread_create fails: go on with the threads there are, and with none of
\* them the main thread runs hls_worker itself.
CreateFails ==
    /\ pc = "spawn"
    /\ started < Threads
    /\ Fault("create")
    /\ IF started = 0 THEN /\ started' = 1
                           /\ worker' = [worker EXCEPT ![1].at = "idle"]
                      ELSE UNCHANGED <<started, worker>>
    /\ pc' = "wait"
    /\ UNCHANGED <<options, kind, next, failed, files, cursor, out, ret>>

\* (Without minding the threads that could not be created.)
Finished_AllThreads == \A w \in 1..Threads : worker[w].at = "exited"
Finished == \A w \in 1..started : worker[w].at = "exited"

\* Every thread has been joined; a pool that failed is not concatenated.
PoolDone ==
    /\ pc = "wait"
    /\ Finished
    /\ pc' = IF failed THEN "unlink" ELSE "open"
    /\ NoFault
    /\ UNCHANGED <<options, kind, pool, files, cursor, out, ret>>

-----------------------------------------------------------------------------
(***************************************************************************)
(* hls_worker and hls_fetch_segment                                        *)
(***************************************************************************)

Moves(w, place) == worker' = [worker EXCEPT ![w].at = place]

\* (The index is read and not advanced.)
Claim_NotAdvanced(w) ==
    /\ worker[w].at = "idle"
    /\ ~failed /\ next < Segments[kind]
    /\ worker' = [worker EXCEPT ![w] = [at |-> "fetching", job |-> next]]
    /\ UNCHANGED next

\* Under pool->lock: the next job, and the index advanced.
Claim(w) ==
    /\ worker[w].at = "idle"
    /\ ~failed /\ next < Segments[kind]
    /\ worker' = [worker EXCEPT ![w] = [at |-> "fetching", job |-> next]]
    /\ next' = next + 1

WorkerClaims(w) ==
    /\ Claim(w)
    /\ NoFault
    /\ UNCHANGED <<options, pc, kind, started, failed, files, cursor, out, ret>>

\* Under pool->lock: nothing left, or some job has failed.
WorkerLeaves(w) ==
    /\ worker[w].at = "idle"
    /\ failed \/ next >= Segments[kind]
    /\ Moves(w, "exited")
    /\ NoFault
    /\ UNCHANGED <<options, pc, kind, started, next, failed, files, cursor, out, ret>>

\* The body has been received and decrypted, and its part file opened.
WorkerOpens(w) ==
    /\ worker[w].at = "fetching"
    /\ part' = [part EXCEPT ![worker[w].job] = "partial"]
    /\ Moves(w, "writing")
    /\ NoFault
    /\ UNCHANGED <<options, pc, kind, started, next, failed, ok, joined, tmpdir, cursor, out, ret>>

\* A body cut short by the server is not told from a whole one: it is read
\* until the end of the connection.
WorkerWrites(w) ==
    /\ worker[w].at = "writing"
    /\ \/ NoFault /\ part' = [part EXCEPT ![worker[w].job] = "whole"]
       \/ Fault("short") /\ part' = [part EXCEPT ![worker[w].job] = "short"]
    /\ ok' = ok \cup {worker[w].job}
    /\ Moves(w, "idle")
    /\ UNCHANGED <<options, pc, kind, started, next, failed, joined, tmpdir, cursor, out, ret>>

\* The fetch, the decryption or the open fails; or write or close does, and
\* the part file stays as it is.
WorkerStumbles(w) ==
    /\ \/ worker[w].at = "fetching" /\ Fault("fetch")
       \/ worker[w].at = "writing" /\ Fault("write")
    /\ Moves(w, "failing")
    /\ UNCHANGED <<options, pc, kind, started, next, failed, files, cursor, out, ret>>

\* (The failure is lost.)
ReportFailure_Lost == UNCHANGED failed

ReportFailure == failed' = TRUE

\* Under pool->lock.
WorkerFails(w) ==
    /\ worker[w].at = "failing"
    /\ ReportFailure
    /\ Moves(w, "exited")
    /\ NoFault
    /\ UNCHANGED <<options, pc, kind, started, next, files, cursor, out, ret>>

Worker(w) ==
    \/ WorkerClaims(w) \/ WorkerLeaves(w) \/ WorkerOpens(w)
    \/ WorkerWrites(w) \/ WorkerStumbles(w) \/ WorkerFails(w)

-----------------------------------------------------------------------------
(***************************************************************************)
(* hls_concat, and the removal of the part files                           *)
(***************************************************************************)

JoinOpen ==
    /\ pc = "open"
    /\ joined' = [joined EXCEPT ![kind] = File(<<>>)]
    /\ pc' = "join" /\ cursor' = 0
    /\ NoFault
    /\ UNCHANGED <<options, kind, pool, part, ok, tmpdir, out, ret>>

JoinPart ==
    /\ pc = "join"
    /\ cursor < Segments[kind]
    /\ part[cursor] # NoPart
    /\ joined' = [joined EXCEPT ![kind].parts = Append(@, [seg |-> cursor, got |-> part[cursor]])]
    /\ cursor' = cursor + 1
    /\ NoFault
    /\ UNCHANGED <<options, pc, kind, pool, part, ok, tmpdir, out, ret>>

JoinEnd ==
    /\ pc = "join"
    /\ cursor = Segments[kind]
    /\ pc' = "unlink"
    /\ NoFault
    /\ UNCHANGED <<options, kind, pool, files, cursor, out, ret>>

\* The output or a part cannot be opened, or a read or a write fails.
JoinFails ==
    /\ \/ pc \in {"open", "join"} /\ Fault("join")
       \/ pc = "join" /\ cursor < Segments[kind] /\ part[cursor] = NoPart /\ NoFault
    /\ failed' = TRUE
    /\ pc' = "unlink"
    /\ UNCHANGED <<options, kind, started, next, worker, files, cursor, out, ret>>

WantMp4 == options.mux = "mp4" \/ (options.mux = "auto" /\ options.ffmpeg)

\* Whether the rendition's own download is started.
WantAudio == options.audio /\ WantMp4 /\ options.ffmpeg

\* The part files that were written are removed; without a joined file the
\* video is given up, and so is the audio.  failed stands for rc.
Unlink ==
    /\ pc = "unlink"
    /\ part' = [i \in Jobs |-> IF i \in ok THEN NoPart ELSE part[i]]
    /\ pc' = CASE kind = "video" /\ failed -> "cleanup"
               [] kind = "video" /\ ~failed /\ WantAudio -> "audio"
               [] OTHER -> "mux"
    /\ ret' = IF kind = "video" /\ failed THEN -1 ELSE ret
    /\ NoFault
    /\ UNCHANGED <<options, kind, pool, ok, joined, tmpdir, cursor, out>>

-----------------------------------------------------------------------------
(***************************************************************************)
(* hls_download_audio, and the output file                                 *)
(***************************************************************************)

AudioBegin ==
    /\ pc = "audio"
    /\ NewPool("audio")
    /\ NoFault
    /\ UNCHANGED <<options, joined, tmpdir, cursor, out, ret>>

\* No audio playlist, or one that is not supported.
AudioRefused ==
    /\ pc = "audio"
    /\ Fault("audio")
    /\ pc' = "mux"
    /\ UNCHANGED <<options, kind, pool, files, cursor, out, ret>>

HaveAudio == kind = "audio" /\ ~failed

Produces(container, video, audio) ==
    /\ out' = [container |-> container, video |-> video, audio |-> audio]
    /\ ret' = 0
    /\ pc' = "cleanup"

Remux ==
    /\ pc = "mux"
    /\ WantMp4 /\ options.ffmpeg
    /\ Produces("mp4", joined["video"].parts, IF HaveAudio THEN joined["audio"].parts ELSE <<>>)
    /\ NoFault
    /\ UNCHANGED <<options, kind, pool, files, cursor>>

\* ffmpeg fails, possibly with some output: the .ts file is moved instead.
RemuxFails ==
    /\ pc = "mux"
    /\ WantMp4 /\ options.ffmpeg
    /\ Fault("ffmpeg")
    /\ \/ UNCHANGED out
       \/ out' = [container |-> "broken", video |-> <<>>, audio |-> <<>>]
    /\ pc' = "move"
    /\ UNCHANGED <<options, kind, pool, files, cursor, ret>>

NoRemux ==
    /\ pc = "mux"
    /\ ~(WantMp4 /\ options.ffmpeg)
    /\ pc' = "move"
    /\ NoFault
    /\ UNCHANGED <<options, kind, pool, files, cursor, out, ret>>

\* rename; or, to another file system, a copy and an unlink.
Move ==
    /\ pc = "move"
    /\ NoFault \/ Fault("exdev")
    /\ Produces("ts", joined["video"].parts, <<>>)
    /\ joined' = [joined EXCEPT !["video"] = NoFile]
    /\ UNCHANGED <<options, kind, pool, part, ok, tmpdir, cursor>>

\* rename fails, or the copy does, having truncated the output.
MoveFails ==
    /\ pc = "move"
    /\ Fault("move")
    /\ \/ UNCHANGED out
       \/ out' = [container |-> "broken", video |-> <<>>, audio |-> <<>>]
    /\ ret' = -1
    /\ pc' = "cleanup"
    /\ UNCHANGED <<options, kind, pool, files, cursor>>

\* (Only what hls_download knows it has created.)
RemoveFiles_KnownOnly ==
    /\ joined' = [k \in {"video", "audio"} |->
                     IF k = "video" \/ HaveAudio THEN NoFile ELSE joined[k]]
    /\ UNCHANGED part

\* unlink of audio.ts and video.ts, and hls_rmtree of everything left.
RemoveFiles ==
    /\ joined' = [k \in {"video", "audio"} |-> NoFile]
    /\ part' = [i \in Jobs |-> NoPart]

\* rmdir removes an empty directory only.
Cleanup ==
    /\ pc = "cleanup"
    /\ RemoveFiles
    /\ tmpdir' = (\/ \E i \in Jobs : part'[i] # NoPart
                  \/ \E k \in DOMAIN joined' : joined'[k].exists)
    /\ pc' = "done"
    /\ NoFault
    /\ UNCHANGED <<options, kind, pool, ok, cursor, out, ret>>

Main ==
    \/ Refused \/ Begin
    \/ CreateWorker \/ CreateFails \/ PoolDone
    \/ JoinOpen \/ JoinPart \/ JoinEnd \/ JoinFails \/ Unlink
    \/ AudioBegin \/ AudioRefused
    \/ Remux \/ RemuxFails \/ NoRemux \/ Move \/ MoveFails
    \/ Cleanup

Next == Main \/ \E w \in Workers : Worker(w)

Spec == Init /\ [][Next]_vars

Fairness == WF_vars(Main) /\ \A w \in Workers : WF_vars(Worker(w))

FairSpec == Spec /\ Fairness

-----------------------------------------------------------------------------

WorkerRecords ==
    [at : {"none", "idle", "fetching", "writing", "failing", "exited"}, job : Nat]

PartStates == {NoPart, "partial", "whole", "short"}

TsFiles == [exists : BOOLEAN, parts : Seq([seg : Nat, got : PartStates])]

\* Every variable in its range; pool.next never passes the number of jobs.
TypeOK ==
    /\ options \in Options
    /\ pc \in {"start", "spawn", "wait", "open", "join", "unlink", "audio",
               "mux", "move", "cleanup", "done"}
    /\ kind \in {"video", "audio"}
    /\ started \in 0..Concurrency
    /\ next \in 0..Segments[kind]
    /\ failed \in BOOLEAN
    /\ worker \in [Workers -> WorkerRecords]
    /\ part \in [Jobs -> PartStates]
    /\ ok \subseteq Jobs
    /\ joined \in [{"video", "audio"} -> TsFiles]
    /\ cursor \in Nat
    /\ tmpdir \in BOOLEAN
    /\ ret \in {-1, 0, 1}
    /\ faults \in 0..MaxFaults

Busy(w) == worker[w].at \in {"fetching", "writing", "failing"}

\* The segments are shared out: a job is worked on by one worker at a time, one
\* that is done is never begun again, and none beyond the index has been begun.
ClaimedOnce ==
    /\ \A w, v \in Workers : Busy(w) /\ Busy(v) /\ worker[w].job = worker[v].job => w = v
    /\ \A w \in Workers : Busy(w) => worker[w].job < next /\ worker[w].job \notin ok
    /\ \A i \in Jobs : part[i] # NoPart => i < next

\* A file joined from all of a playlist's segments, in order, each as received.
Whole(parts, k) ==
    /\ Len(parts) = Segments[k]
    /\ \A i \in 1..Segments[k] : /\ parts[i].seg = i - 1
                                 /\ parts[i].got \in {"whole", "short"}

\* A download that returns 0 has put every video segment into the output, in
\* order, and either all of the audio or none of it: whatever failed on the
\* way, no half-written part is ever passed on.
OutputWhole ==
    ret = 0 => /\ out.container \in {"mp4", "ts"}
               /\ Whole(out.video, "video")
               /\ out.audio # <<>> => Whole(out.audio, "audio")

\* "All temp files are removed on both paths" (hls.h), also when the audio
\* download has failed half-way.
NothingLeftBehind == pc = "done" => ~tmpdir

\* Whatever fails, the pools drain and the download returns.
Returns == <>(pc = "done" /\ ret # 1)

=============================================================================
