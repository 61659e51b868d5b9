----------------------------- MODULE StateFile -----------------------------
(***************************************************************************)
(* Resuming (src/src/flux.c): the .st file that save_state writes during a *)
(* download and flux_open reads when the program is started again, over    *)
(* the transfer of Transfer.  The process can be interrupted, and can die  *)
(* between any two steps; what write() was given stays in the files.  The  *)
(* output file is named on the command line (download_one's -o).           *)
(*                                                                         *)
(* The state file is the table that was being saved and how many of its    *)
(* fields have been written: num_connections, bytes_done, and currentbyte  *)
(* and lastbyte of each connection in turn.                                *)
(***************************************************************************)
EXTENDS Transfer

CONSTANT MaxRuns        \* bound: how often the program is started

ASSUME StateFileAssumption == MaxRuns \in Nat

VARIABLES process,   \* "down", "opened" (flux_open is done), "running" (flux_do),
                     \* "saving" (in save_state), "closing" (in flux_close's), "done"
          datafile,  \* whether the output file exists
          saved,     \* the state file
          torn,      \* history: a save was cut short, by a crash or a full disk
          runs       \* bound: starts so far

allvars == <<vars, process, datafile, saved, torn, runs>>

Active == process \in {"opened", "running", "saving", "closing"}

NoStateFile == [exists |-> FALSE, seg |-> <<>>, bytes_done |-> 0, fields |-> 0]

FieldCount(table) == 2 + 2 * Cardinality(DOMAIN table)

\* O_TRUNC: the old state is gone before the first field is written.
Truncated == [exists |-> TRUE, seg |-> seg, bytes_done |-> bytes_done, fields |-> 0]

-----------------------------------------------------------------------------
(***************************************************************************)
(* flux_open's reading of the state file                                   *)
(***************************************************************************)

\* stsize < what num_connections calls for: taken for a file of the old format,
\* which has no lastbyte fields.
Short == saved.fields < FieldCount(saved.seg)

\* currentbyte and lastbyte of the connections, in the order written.
TableField(k) == IF k % 2 = 0 THEN saved.seg[k \div 2].currentbyte ELSE saved.seg[k \div 2].lastbyte

\* The old format: the file is divided again, and the k-th field of the table
\* is read as the currentbyte of connection k, until the fields run out.
LoadedOldFormat ==
    LET divided == Divide(size, Cardinality(DOMAIN saved.seg))
    IN  [i \in DOMAIN divided |->
            IF i + 2 < saved.fields THEN [divided[i] EXCEPT !.currentbyte = TableField(i)]
                                    ELSE divided[i]]

LoadedSeg == IF Short THEN LoadedOldFormat ELSE saved.seg

LoadedBytes_Forgotten == 0
LoadedBytes == IF saved.fields >= 2 THEN saved.bytes_done ELSE 0

-----------------------------------------------------------------------------

Blank == [i \in 0..0 |-> [currentbyte |-> 0, lastbyte |-> 0]]

SInit ==
    /\ size \in Sizes
    /\ seg = Blank /\ bytes_done = 0 /\ disk = {} /\ ready = 0
    /\ process = "down"
    /\ datafile = FALSE
    /\ saved = NoStateFile
    /\ torn = FALSE
    /\ runs = 0

Started ==
    /\ process = "down"
    /\ runs < MaxRuns
    /\ runs' = runs + 1
    /\ ready' = 0

\* "State file found, but no downloaded data": the state file is removed.
DropStale_Kept == saved
DropStale == NoStateFile

\* No output file: flux_divide, and open with O_CREAT.
OpenFresh ==
    /\ Started
    /\ ~datafile
    /\ \E n \in Requested : seg' = Divide(size, n)
    /\ bytes_done' = 0
    /\ datafile' = TRUE
    /\ saved' = DropStale
    /\ process' = "opened"
    /\ UNCHANGED <<size, disk>>

OpenResume ==
    /\ Started
    /\ datafile /\ saved.exists /\ saved.fields >= 1
    /\ seg' = LoadedSeg
    /\ bytes_done' = LoadedBytes
    /\ process' = "opened"
    /\ UNCHANGED <<size, disk, datafile, saved>>

\* "No state file, cannot resume!", or a state file without its first field.
OpenRefused ==
    /\ Started
    /\ datafile
    /\ ~saved.exists \/ saved.fields = 0
    /\ UNCHANGED <<size, seg, bytes_done, disk, process, datafile, saved>>

\* Transfer's steps while flux_do runs.  Fetch is one read written to the file:
\* flux_start and conn_check leave out a segment that begins after its end.
\* TakeOver also happens in flux_start, before flux_do has run.
Fetch(i, n) == process = "running" /\ Remaining(seg, i) >= 0 /\ Deliver(i, n)

TakeOver(i) == process \in {"opened", "running"} /\ Reactivate(i)

Stop == process = "running" /\ (Complete \/ GiveUp)

Transferring ==
    /\ \/ \E i \in Conns, n \in 1..BufferSize : Fetch(i, n)
       \/ \E i \in Conns : TakeOver(i)
       \/ Stop
    /\ UNCHANGED <<process, datafile, saved, runs>>

\* save_state opens the file: the first flux_do always saves (next_state is 0),
\* later ones when save_state_interval has passed.
SaveBegin ==
    /\ process \in {"opened", "running"}
    /\ ready = 0
    /\ saved' = Truncated
    /\ process' = "saving"
    /\ UNCHANGED <<vars, datafile, runs>>

AfterSave == IF process = "saving" THEN "running" ELSE "down"

Forget == seg' = Blank /\ bytes_done' = 0 /\ ready' = 0

\* The process is gone, and its memory with it; after a save, only if that was
\* the one of flux_close.
Leaves(next) == IF next = "down" THEN Forget /\ UNCHANGED <<size, disk>> ELSE UNCHANGED vars

SaveField ==
    /\ process \in {"saving", "closing"}
    /\ saved' = [saved EXCEPT !.fields = @ + 1]
    /\ process' = IF saved.fields + 1 = FieldCount(saved.seg) THEN AfterSave ELSE process
    /\ Leaves(process')
    /\ UNCHANGED <<datafile, runs>>

\* The disk is full: the results of the writes are not looked at.
SaveShort ==
    /\ process \in {"saving", "closing"}
    /\ torn' = TRUE
    /\ process' = AfterSave
    /\ Leaves(process')
    /\ UNCHANGED <<datafile, saved, runs>>

\* flux_close after ready or a signal: a complete download leaves no state
\* file, an incomplete one with data is saved.
CloseComplete ==
    /\ process = "running"
    /\ ready = 1
    /\ saved' = NoStateFile
    /\ process' = "done"
    /\ UNCHANGED <<vars, datafile, runs>>

CloseIncomplete ==
    /\ process \in {"opened", "running"}
    /\ ready # 1
    /\ IF bytes_done > 0
       THEN process' = "closing" /\ saved' = Truncated /\ UNCHANGED vars
       ELSE process' = "down" /\ Leaves("down") /\ UNCHANGED saved
    /\ UNCHANGED <<datafile, runs>>

\* The process dies.
Crash ==
    /\ Active
    /\ torn' = (torn \/ process \in {"saving", "closing"})
    /\ process' = "down"
    /\ Leaves("down")
    /\ UNCHANGED <<datafile, saved, runs>>

\* Between two runs the user removes the output file but not the state file.
RemoveData ==
    /\ process = "down"
    /\ datafile
    /\ datafile' = FALSE
    /\ disk' = {}
    /\ UNCHANGED <<size, seg, bytes_done, ready, process, saved, runs>>

SNext ==
    \/ /\ \/ OpenFresh \/ OpenResume \/ OpenRefused
          \/ Transferring
          \/ SaveBegin \/ SaveField
          \/ CloseComplete \/ CloseIncomplete
          \/ RemoveData
       /\ UNCHANGED torn
    \/ SaveShort \/ Crash

SSpec == SInit /\ [][SNext]_allvars

-----------------------------------------------------------------------------

\* Typed is what holds unless a save was cut short and the state file misread.
Typed ==
    /\ TypeOK
    /\ saved.exists => \E m \in 1..MinChunkWorth : saved.seg \in Layouts(m)
    /\ saved.bytes_done \in 0..size

\* A table accounts for the file: its segments are disjoint, its bytes_done is
\* what they leave out, and what they leave out is on disk.
Accounts(table, done) ==
    /\ Disjoint(table)
    /\ Todo(table) \subseteq 0..(size - 1)
    /\ done + Cardinality(Todo(table)) = size
    /\ disk \cup Todo(table) = 0..(size - 1)

\* Whatever was interrupted before, but for a save, a running download knows
\* exactly what is left: no byte that is not on disk is taken for done, and
\* bytes_done, the test for the end, agrees with the segments flux_open loaded.
ResumeExact == Active /\ ~torn => Accounts(seg, bytes_done)

\* The state file never claims more than the output file holds, also while the
\* download has gone on and segments have been handed over since it was saved.
SavedCovers ==
    (datafile /\ saved.exists /\ ~Short /\ ~torn) => Accounts(saved.seg, saved.bytes_done)

\* A download that is reported complete is whole, however often it was resumed.
ResumedWhole == ~torn => CompleteMeansWhole

\* However a state file was cut short and misread, nothing is written past the
\* end of the file.
WritesWithinFile == disk \subseteq 0..(size - 1)

=============================================================================
