----------------------------- MODULE FtpClient -----------------------------
(***************************************************************************)
(* The FTP side of a connection: ftp_connect, ftp_cwd, ftp_size, ftp_data  *)
(* and ftp_wait (src/src/ftp.c), called from conn_init, conn_info_ftp,     *)
(* conn_setup and conn_exec (src/src/conn.c).                              *)
(*                                                                         *)
(* The server answers every command, in order, but perhaps too late: then  *)
(* ftp_wait gives up with conn->status still that of an earlier reply, and *)
(* its answer is taken for that of the next command.                       *)
(***************************************************************************)
EXTENDS Integers, Sequences

CONSTANTS FtpServers,   \* [user, pass, cwd, rest: reply codes; size: reply codes by name;
                        \* urls: what can be asked for; listing: see Shown]
          MaxRedir,     \* conf->max_redirect
          Wanted,       \* the values of currentbyte a connection begins with
          MaxLate       \* bound: replies that come too late, and connections that fail

ASSUME FtpAssumption ==
    /\ MaxRedir \in Nat /\ MaxLate \in Nat
    /\ Wanted \subseteq Nat

\* Replies that are none of the command's in RFC 959 and RFC 3659 are not given: to
\* REST and to SIZE there is one that says yes and any that says no.  A link leads
\* to something that can be listed.
Refusals == 400..599

ASSUME FtpServersAssumption ==
    \A s \in FtpServers :
        /\ s.rest \in {350} \cup Refusals
        /\ \A f \in s.urls : f.pattern \in BOOLEAN /\ f.name \in DOMAIN s.listing
        /\ \A n \in DOMAIN s.listing :
             /\ s.size[n] \in {213} \cup Refusals
             /\ s.listing[n].kind = "link" => s.listing[n].to \in DOMAIN s.listing

VARIABLES
    ftpserver,  \* the server
    first,      \* this is conn[0], for which conn_info is called
    ftpurl,     \* conn->file: [name, pattern], pattern if it has a * or a ?
    asked,      \* file of ftp_size
    currentbyte,\* conn->currentbyte, where the transfer is to begin
    doing,      \* the command whose reply is awaited (REST1 and REST0 are those that try
                \* whether it is supported, PASVLIST the PASV of a listing), or "connect",
                \* "list" (a listing is read), "ok" (conn_info has returned 1), "transfer",
                \* "fail"
    ftpstatus,  \* conn->status
    replies,    \* replies sent and not read
    marker,     \* the server's: where the next transfer begins
    redir,      \* maxredir of ftp_size
    ftpsize,    \* conn->size
    resumable,  \* conn->supported
    late        \* bound: replies too late so far

ftpvars == <<ftpserver, first, ftpurl, asked, currentbyte, doing, ftpstatus, replies,
             marker, redir, ftpsize, resumable, late>>

SizeUnknown == 1000000

\* What LIST shows of a name or a pattern: [kind, name, to, size].  kind is "file",
\* "link" (to another name), "odd" (no size where ftp_size looks for it), "many"
\* or "none"; size is that of the file it is, or leads to.
Shown(name) == ftpserver.listing[name]

FtpInit ==
    /\ ftpserver \in FtpServers
    /\ first \in BOOLEAN
    /\ ftpurl \in ftpserver.urls /\ asked = ftpurl
    /\ currentbyte \in Wanted
    /\ doing = "connect"
    /\ ftpstatus = 0 /\ replies = <<>>
    /\ marker = 0
    /\ redir = MaxRedir
    /\ ftpsize = 0 /\ resumable = (~first /\ ftpserver.rest = 350)
    /\ late = 0

-----------------------------------------------------------------------------
(***************************************************************************)
(* Commands and replies                                                    *)
(***************************************************************************)

\* What becomes of ftp_wait: the first reply not read, or "Connection gone." as
\* no reply came in time.
Outcomes == IF late < MaxLate THEN BOOLEAN ELSE {TRUE}

Code(inTime) == IF inTime THEN Head(replies) ELSE -1
Left(inTime) == IF inTime THEN Tail(replies) ELSE replies

Wait(inTime) ==
    /\ ftpstatus' = (IF inTime THEN Head(replies) ELSE ftpstatus)
    /\ late' = (IF inTime THEN late ELSE late + 1)

\* The reply to the next command comes after those that are still to be read.
Send(inTime, command, code) ==
    /\ replies' = Append(Left(inTime), code)
    /\ doing' = command

Stop(inTime, end) == replies' = Left(inTime) /\ doing' = end

Kind(code) == code \div 100

\* Awaits(command, Goes): the reply to command is awaited; Goes(inTime) is what
\* is done about it.
Awaits(command, Goes(_)) ==
    /\ doing = command
    /\ \E inTime \in Outcomes : Wait(inTime) /\ Goes(inTime)
    /\ UNCHANGED <<ftpserver, first, currentbyte>>

-----------------------------------------------------------------------------
(***************************************************************************)
(* conn_init: ftp_connect, and ftp_cwd to the directory of the URL         *)
(***************************************************************************)

Connect ==
    /\ doing = "connect"
    /\ \/ doing' = "greeting" /\ replies' = <<220>> /\ UNCHANGED late
       \/ late < MaxLate /\ late' = late + 1 /\ doing' = "fail" /\ UNCHANGED replies
    /\ UNCHANGED <<ftpserver, first, ftpurl, asked, currentbyte, ftpstatus, marker, redir, ftpsize, resumable>>

Greeted(inTime) ==
    IF Kind(Code(inTime)) = 2 THEN Send(inTime, "USER", ftpserver.user) ELSE Stop(inTime, "fail")

\* conn->status is looked at, not what ftp_wait has returned: both are the same
\* here, or the status is that of the greeting.
UserSent(inTime) ==
    CASE Kind(Code(inTime)) = 2 -> Send(inTime, "TYPE", 200)
      [] Kind(Code(inTime)) # 2 /\ Kind(ftpstatus') = 3 -> Send(inTime, "PASS", ftpserver.pass)
      [] OTHER -> Stop(inTime, "fail")

PassSent(inTime) ==
    IF Kind(Code(inTime)) = 2 THEN Send(inTime, "TYPE", 200) ELSE Stop(inTime, "fail")

TypeSent(inTime) ==
    IF Kind(Code(inTime)) = 2 THEN Send(inTime, "CWD", ftpserver.cwd) ELSE Stop(inTime, "fail")

Login ==
    /\ \/ Awaits("greeting", Greeted) \/ Awaits("USER", UserSent)
       \/ Awaits("PASS", PassSent) \/ Awaits("TYPE", TypeSent)
    /\ UNCHANGED <<ftpurl, asked, marker, redir, ftpsize, resumable>>

-----------------------------------------------------------------------------
(***************************************************************************)
(* conn_info_ftp                                                           *)
(***************************************************************************)

Resumes(code) == Kind(code) \in {2, 3}

\* The server remembers the marker if it knows REST.
Restart(code, at) == marker' = IF Resumes(code) THEN at ELSE marker

CwdSent(inTime) ==
    CASE Kind(Code(inTime)) = 2 /\ first ->
           Send(inTime, "REST1", ftpserver.rest) /\ Restart(ftpserver.rest, 1)
      [] Kind(Code(inTime)) = 2 /\ ~first ->
           Send(inTime, "PASV", 227) /\ UNCHANGED marker
      [] OTHER -> Stop(inTime, "fail") /\ UNCHANGED marker

ChangeDirectory ==
    /\ Awaits("CWD", CwdSent)
    /\ UNCHANGED <<ftpurl, asked, redir, ftpsize, resumable>>

\* PASV for a listing, if there are redirects left.
AskListing(inTime) ==
    IF redir > 0 THEN Send(inTime, "PASVLIST", 227) ELSE Stop(inTime, "fail")

\* ftp_size: SIZE unless there may be several files.
AskSize(inTime, file) ==
    IF file.pattern THEN AskListing(inTime) ELSE Send(inTime, "SIZE", ftpserver.size[file.name])

\* 3xx from ftp_wait, or 2xx in conn->status, which without a reply is that of
\* the reply before.
Rest1Sent_NoReset(inTime) ==
    /\ resumable' = (Kind(Code(inTime)) = 3 \/ Kind(ftpstatus') = 2)
    /\ AskSize(inTime, ftpurl) /\ UNCHANGED marker
Rest1Sent(inTime) ==
    /\ resumable' = (Kind(Code(inTime)) = 3 \/ Kind(ftpstatus') = 2)
    /\ IF resumable'
       THEN Send(inTime, "REST0", ftpserver.rest) /\ Restart(ftpserver.rest, 0)
       ELSE AskSize(inTime, ftpurl) /\ UNCHANGED marker

\* Whatever the reply is.
Rest0Sent(inTime) == AskSize(inTime, ftpurl) /\ UNCHANGED marker

TestRestart ==
    /\ \/ Awaits("REST1", Rest1Sent)
       \/ Awaits("REST0", Rest0Sent) /\ UNCHANGED resumable
    /\ UNCHANGED <<ftpurl, asked, redir, ftpsize>>

Unusable(inTime) == Stop(inTime, "fail") /\ UNCHANGED <<ftpsize, resumable>>

\* 502 or the like: the server does not know SIZE.
NoSize(code) == code \div 10 = 50

SizeGiven_OrMore(code) == Kind(code) \in {2, 3}
SizeGiven(code) == Kind(code) = 2

\* Another reply of that kind has no number: the variable is read as it is.
SizeRead(code) ==
    IF code = 213 THEN ftpsize' = Shown(asked.name).size ELSE ftpsize' \in {0, 1, SizeUnknown}

SizeSent(inTime) ==
    CASE SizeGiven(Code(inTime)) ->
           /\ Stop(inTime, "ok")
           /\ SizeRead(Code(inTime))
           /\ UNCHANGED resumable
      [] ~SizeGiven(Code(inTime)) /\ NoSize(ftpstatus') ->
           AskListing(inTime) /\ UNCHANGED <<ftpsize, resumable>>
      [] OTHER -> Unusable(inTime)

AskedSize == Awaits("SIZE", SizeSent) /\ UNCHANGED <<ftpurl, asked, marker, redir>>

\* ftp_data looks for the address in the reply, which that to another command
\* does not have, and connects.
Passive(inTime) == Kind(Code(inTime)) = 2 /\ Code(inTime) = 227

ToListSent(inTime) ==
    IF Passive(inTime) THEN Send(inTime, "LIST", 150) ELSE Stop(inTime, "fail")

ListSent(inTime) ==
    IF Kind(Code(inTime)) = 1 THEN Send(inTime, "list", 226) ELSE Stop(inTime, "fail")

StartListing ==
    /\ \/ Awaits("PASVLIST", ToListSent) /\ UNCHANGED marker
       \/ Awaits("LIST", ListSent) /\ marker' = 0
    /\ UNCHANGED <<ftpurl, asked, redir, ftpsize, resumable>>

\* ftp_size puts the name it has read in the place of the one it was given,
\* which is conn->file unless a link has been followed.
Renamed(line) == IF redir = MaxRedir THEN [name |-> line.name, pattern |-> FALSE] ELSE ftpurl

\* The listing is read until the data connection ends and then the reply that
\* says so.  One line is wanted; a link is followed, with one redirect less, and
\* a size that cannot be told is -2.
ReadListing(inTime) ==
    LET line == Shown(asked.name) IN
    IF Kind(Code(inTime)) # 2 \/ line.kind \in {"none", "many"}
    THEN Unusable(inTime) /\ UNCHANGED <<ftpurl, asked, redir>>
    ELSE \/ /\ line.kind = "link"
            /\ ftpurl' = Renamed(line)
            /\ asked' = [name |-> line.to, pattern |-> FALSE]
            /\ redir' = redir - 1
            /\ AskSize(inTime, asked')
            /\ UNCHANGED <<ftpsize, resumable>>
         \/ /\ line.kind = "odd"
            /\ Stop(inTime, "ok")
            /\ ftpsize' = SizeUnknown /\ resumable' = FALSE
            /\ UNCHANGED <<ftpurl, asked, redir>>
         \/ /\ line.kind = "file"
            /\ Stop(inTime, "ok")
            /\ ftpsize' = line.size
            /\ ftpurl' = Renamed(line)
            /\ UNCHANGED <<asked, redir, resumable>>

Listed == Awaits("list", ReadListing) /\ UNCHANGED marker

-----------------------------------------------------------------------------
(***************************************************************************)
(* conn_setup and conn_exec, on the connection conn_info has left          *)
(***************************************************************************)

\* A file that cannot be resumed is begun again.
SetUp ==
    /\ doing = "ok"
    /\ currentbyte' = IF resumable THEN currentbyte ELSE 0
    /\ doing' = "PASV" /\ replies' = Append(replies, 227)
    /\ UNCHANGED <<ftpserver, first, ftpurl, asked, ftpstatus, marker, redir, ftpsize, resumable, late>>

Found == ~ftpurl.pattern /\ Shown(ftpurl.name).kind # "none"

Retrieve(inTime) == Send(inTime, "RETR", IF Found THEN 150 ELSE 550)

PasvSent(inTime) ==
    CASE Passive(inTime) /\ currentbyte = 0 -> Retrieve(inTime) /\ UNCHANGED marker
      [] Passive(inTime) /\ currentbyte > 0 ->
           Send(inTime, "REST", ftpserver.rest) /\ Restart(ftpserver.rest, currentbyte)
      [] OTHER -> Stop(inTime, "fail") /\ UNCHANGED marker

\* Without a reply the status is that of PASV: 227.
RestSent(inTime) ==
    IF Kind(Code(inTime)) = 3 \/ Kind(ftpstatus') = 2 THEN Retrieve(inTime) ELSE Stop(inTime, "fail")

RetrSent(inTime) == Stop(inTime, IF Kind(Code(inTime)) = 1 THEN "transfer" ELSE "fail")

StartTransfer ==
    /\ \/ Awaits("PASV", PasvSent)
       \/ Awaits("REST", RestSent) /\ UNCHANGED marker
       \/ Awaits("RETR", RetrSent) /\ UNCHANGED marker
    /\ UNCHANGED <<ftpurl, asked, redir, ftpsize, resumable>>

\* A data connection that is refused.
DataFails ==
    /\ doing \in {"PASVLIST", "PASV"}
    /\ late < MaxLate /\ late' = late + 1
    /\ doing' = "fail"
    /\ UNCHANGED <<ftpserver, first, ftpurl, asked, currentbyte, ftpstatus, replies, marker, redir, ftpsize, resumable>>

FtpNext ==
    \/ Connect \/ Login \/ ChangeDirectory \/ TestRestart
    \/ AskedSize \/ StartListing \/ Listed
    \/ SetUp \/ StartTransfer \/ DataFails

-----------------------------------------------------------------------------

\* However late the replies are: when conn_info is content, the size is that of
\* the file, or unknown, the server can resume if that is believed, and no reply
\* is left that the transfer could take for its own.
FtpInfoTruthful ==
    (first /\ doing = "ok") =>
        /\ ftpsize \in {Shown(asked.name).size, SizeUnknown}
        /\ resumable => ftpserver.rest = 350
        /\ replies = <<>>

\* What is written to the file from currentbyte on is what the server sends from
\* there: the test of REST by conn_info leaves nothing behind, and a REST that is
\* answered late or not at all does not go unnoticed.
FtpOffsetRight == doing = "transfer" => marker = currentbyte

=============================================================================
