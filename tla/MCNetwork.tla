----------------------------- MODULE MCNetwork -----------------------------
(***************************************************************************)
(* What a server is asked on one connection after the other, on small      *)
(* instances: the exchange before a download, or the segments of a         *)
(* playlist; each behaviour is about one of them.                          *)
(*                                                                         *)
(* The exchange is with three URLs of two hosts and one of FTP, that       *)
(* answer with a file or redirect to one another in every way Location is  *)
(* written; FTP servers know REST and SIZE or not, and have files, links,  *)
(* a loop of links and listings of every kind.  A playlist has three video *)
(* and two audio segments.                                                 *)
(***************************************************************************)
EXTENDS HlsDownload, FluxNew, TLC

VARIABLE topic

mcvars == <<topic, vars, netvars>>

MCSegments == [k \in {"video", "audio"} |-> IF k = "video" THEN 3 ELSE 2]

MCFaults == FaultKinds

Page(host, file) == [proto |-> "http", host |-> host, dir |-> <<"d">>, file |-> file]
A == Page("h", <<"a">>)
B == Page("h", <<"b">>)
C == Page("g", <<"c">>)
F == [Page("f", <<"f">>) EXCEPT !.proto = "ftp"]
MCStarts == {A, F}

Answer(s, l, r) == [status |-> s, location |-> [form |-> "none"], length |-> l, range |-> r]
Served(holds, ranges, answer) == [answer |-> answer, holds |-> holds, ranges |-> ranges]

\* Content-Length and Content-Range may be left out; the length of an error page
\* is that of the page.
Files ==
    {Served(3, TRUE, Answer(206, l, r)) : l \in {3, Absent}, r \in {3, -3, Absent}}
    \cup {Served(3, FALSE, Answer(200, l, Absent)) : l \in {3, Absent}}
    \cup {Served(0, FALSE, Answer(200, 0, Absent)), Served(0, TRUE, Answer(416, 7, 0)),
          Served(0, FALSE, Answer(404, 7, Absent))}

To(location) == Served(0, FALSE, [Answer(302, Absent, Absent) EXCEPT !.location = location])
ToUrl(u) == To([form |-> "absolute", url |-> u])
ToPath(u) == To([form |-> "path", dir |-> u.dir, file |-> u.file])
Redirects == {ToUrl(A), ToUrl(B), ToUrl(F), ToPath(A), ToPath(B), To([form |-> "host", url |-> C]),
              To([form |-> "relative", file |-> <<"b">>]), To([form |-> "none"])}

MCServers == {A :> x @@ B :> y @@ C :> z : x \in Files \cup Redirects, y \in Files \cup Redirects,
                                           z \in {Served(3, FALSE, Answer(200, 3, Absent)), ToUrl(A)}}

Line(what, name, to) == [kind |-> what, name |-> name, to |-> to, size |-> 3]
Listing == "f" :> Line("file", "f", "") @@ "l" :> Line("link", "l", "f")
           @@ "loop" :> Line("link", "loop", "loop") @@ "odd" :> Line("odd", "odd", "")
           @@ "none" :> Line("none", "", "") @@ "f*" :> Line("file", "f", "")
           @@ "l*" :> Line("link", "l", "f") @@ "*" :> Line("many", "", "")

Name(n) == [name |-> n, pattern |-> n \in {"f*", "l*", "*"}]

\* REST is answered with 350; a server that answers it with 2xx makes SIZE read
\* what is not there when a reply is late.
MCFtpServers ==
    {[user |-> user, pass |-> pass, cwd |-> 250, rest |-> rest,
      size |-> [n \in DOMAIN Listing |-> IF ~knows THEN 502 ELSE IF n \in {"none", "loop"} THEN 550 ELSE 213],
      urls |-> {Name(n) : n \in DOMAIN Listing}, listing |-> Listing] :
         user \in {230, 331}, pass \in {230, 530}, rest \in {350, 502}, knows \in BOOLEAN}

MCWanted == {0, 2}

AnyOf(S) == CHOOSE x \in S : TRUE

\* While segments are fetched nobody else asks for anything.  The HTTP servers are
\* all tried with one FTP server, and the other way round.
MCInit ==
    /\ \/ topic = "exchange" /\ options = AnyOf(OptionRecords)
       \/ topic = "segments" /\ client = "fetch" /\ url = A /\ server = AnyOf(MCServers)
    /\ Init /\ NetInit
    /\ hphase = "ftp" => client = "info" /\ server = AnyOf(MCServers)
    /\ hphase # "ftp" =>
         /\ ftpurl = Name("l") /\ currentbyte = 0
         /\ ftpserver = CHOOSE s \in MCFtpServers : s.rest = 350 /\ s.user = 230 /\ s.pass = 230

Exchange == topic = "exchange" /\ NetNext /\ UNCHANGED <<topic, vars>>
HlsMain == topic = "segments" /\ Main /\ UNCHANGED <<topic, netvars>>
HlsWorker(w) == topic = "segments" /\ Worker(w) /\ UNCHANGED <<topic, netvars>>

MCNext == Exchange \/ HlsMain \/ \E w \in Workers : HlsWorker(w)

\* FairNet and FairSpec, each for the behaviours that it is about.
MCSpec ==
    /\ MCInit /\ [][MCNext]_mcvars
    /\ WF_mcvars(Exchange)
    /\ WF_mcvars(HlsMain) /\ \A w \in Workers : WF_mcvars(HlsWorker(w))

\* A download that asks servers for its file ends, whatever they answer.
ExchangeEnds == topic = "exchange" => NetEnds

\* hls_download returns, whatever fails.
DownloadReturns == topic = "segments" => Returns

=============================================================================
