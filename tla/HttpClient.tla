----------------------------- MODULE HttpClient -----------------------------
(***************************************************************************)
(* The HTTP requests that are made before a download or instead of one:    *)
(* conn_info (src/src/conn.c), which finds out the size of a file and      *)
(* whether parts of it can be requested, http_fetch_max, which reads a     *)
(* page, a playlist or a segment into memory, and http_probe_len           *)
(* (src/src/http.c).  Each of them follows redirects, in its own way.      *)
(*                                                                         *)
(* A server is a function from URLs to answers.  An answer may be cut off; *)
(* what conn_info then finds in the buffer of headers is what was in it.   *)
(***************************************************************************)
EXTENDS Integers, Sequences, FiniteSets

CONSTANTS MaxRedirect,  \* conf->max_redirect
          Servers,      \* the servers, see below
          Starts,       \* the URLs to begin with
          ReadSize,     \* HTTP_FETCH_READ
          MaxBody,      \* max_body of http_fetch_max
          MaxCuts       \* bound: how many answers are cut off or not given

ASSUME HttpAssumption ==
    /\ MaxRedirect \in Nat /\ MaxCuts \in Nat
    /\ ReadSize \in Nat \ {0} /\ MaxBody \in Nat \ {0}

\* What servers may say: the lengths of a success are those of the file, if they
\* are given at all, and only a server that can send parts of the file answers
\* with one.
Honest(f) ==
    /\ f.answer.status \in Nat /\ f.answer.length \in Int /\ f.answer.range \in Int
    /\ f.answer.status \div 100 = 2 =>
         /\ f.answer.length > 0 => f.answer.length = f.holds
         /\ f.answer.range > 0 => f.answer.range = f.holds
         /\ f.answer.status = 206 \/ f.answer.range > 0 => f.ranges

ASSUME ServersAssumption == \A s \in Servers : \A u \in DOMAIN s : Honest(s[u])

VARIABLES
    client,     \* "info", "fetch" or "probe"
    server,     \* for URLs: what is answered, [status, location, length, range], the
                \* size of the file, holds, and whether parts of it can be had, ranges
    url,        \* conn: [proto, host, dir, file]
    hphase,     \* "request", "answer", "body", "ok", "fail" or "ftp": conn_info finds a
                \* URL of FTP, at once or, its -1, where it is redirected to
    status,     \* http->status
    headers,    \* the answer http_header reads
    hops,       \* i of conn_info, redirects of the others
    visited,    \* urlseq
    size,       \* conn->size, Unknown for LLONG_MAX; http_probe_len's *out_size
    supported,  \* conn->supported
    body,       \* http_fetch_read_body: [len, cap, left], left being what is still to come
    cuts        \* bound: answers cut off so far

httpvars == <<client, server, url, hphase, status, headers, hops, visited, size, supported, body, cuts>>

Absent == -2
Unknown == 1000000

NoHeaders == [status |-> 0, location |-> [form |-> "none"], length |-> Absent, range |-> Absent]

IsHttp(u) == u.proto = "http"

NoBody == [len |-> 0, cap |-> 0, left |-> 0]

HttpInit ==
    /\ client \in {"info", "fetch", "probe"}
    /\ server \in Servers
    /\ url \in Starts
    /\ hphase = IF client = "info" /\ ~IsHttp(url) THEN "ftp" ELSE "request"
    /\ status = 0 /\ headers = NoHeaders
    /\ hops = 0 /\ visited = {}
    /\ size = 0 /\ supported = FALSE
    /\ body = NoBody
    /\ cuts = 0

Cut == cuts < MaxCuts /\ cuts' = cuts + 1

-----------------------------------------------------------------------------
(***************************************************************************)
(* Requests and answers                                                    *)
(***************************************************************************)

\* conn_info asks for the file from its first byte on, which a server that can
\* resume answers with 206; the others ask for all of it.
AnswerOf(u) ==
    LET answer == IF u \in DOMAIN server THEN server[u].answer ELSE [NoHeaders EXCEPT !.status = 404] IN
    IF client = "info" \/ answer.status # 206 THEN answer
    ELSE [answer EXCEPT !.status = 200, !.range = Absent]

Exec ==
    /\ hphase = "request" /\ IsHttp(url)
    /\ headers' = AnswerOf(url)
    /\ status' = headers'.status
    /\ hphase' = "answer"
    /\ UNCHANGED <<client, server, url, hops, visited, size, supported, body, cuts>>

\* "Connection gone." while the headers are read.  conn_info looks at them all
\* the same: status is that of the answer before, and the first bytes of the new
\* answer are in front of the old one's header lines, or nothing is.  (That they
\* have a Location line of their own is left out.)
ExecCut ==
    /\ hphase = "request" /\ IsHttp(url)
    /\ Cut
    /\ IF client = "info"
       THEN /\ hphase' = "answer"
            /\ headers' \in {headers, [headers EXCEPT !.location = NoHeaders.location]}
       ELSE hphase' = "fail" /\ UNCHANGED headers
    /\ UNCHANGED <<client, server, url, status, hops, visited, size, supported, body>>

\* No connection, or for http_fetch_max and http_probe_len a URL of another
\* protocol.
ConnectFails ==
    /\ hphase = "request"
    /\ IF IsHttp(url) THEN Cut ELSE UNCHANGED cuts
    /\ hphase' = "fail"
    /\ UNCHANGED <<client, server, url, status, headers, hops, visited, size, supported, body>>

-----------------------------------------------------------------------------
(***************************************************************************)
(* Redirects                                                               *)
(***************************************************************************)

Redirected == hphase = "answer" /\ status \div 100 = 3

NoLocation == headers.location.form = "none"

\* conn_info: everything that begins with a slash is a path of this host, and
\* what is relative is put after the whole URL, the name of the file included.
InfoTarget(u, loc) ==
    CASE loc.form = "absolute" -> loc.url
      [] loc.form = "path" -> [u EXCEPT !.dir = loc.dir, !.file = loc.file]
      [] loc.form = "host" -> [u EXCEPT !.dir = <<"", loc.url.host>> \o loc.url.dir, !.file = loc.url.file]
      [] loc.form = "relative" -> [u EXCEPT !.file = @ \o loc.file]

\* http_fetch_max and http_probe_len.
FetchTarget(u, loc) ==
    CASE loc.form = "absolute" -> loc.url
      [] loc.form = "path" -> [u EXCEPT !.dir = loc.dir, !.file = loc.file]
      [] loc.form = "host" -> [loc.url EXCEPT !.proto = u.proto]
      [] loc.form = "relative" -> [u EXCEPT !.file = loc.file]

NextUrl == IF client = "info" THEN InfoTarget(url, headers.location) ELSE FetchTarget(url, headers.location)

RedirectNowhere ==
    /\ Redirected /\ NoLocation
    /\ hphase' = "fail"
    /\ UNCHANGED <<client, server, url, status, headers, hops, visited, size, supported, body, cuts>>

\* Redirected to FTP: the caller of conn_info starts again.
RedirectToFtp ==
    /\ Redirected /\ ~NoLocation
    /\ client = "info" /\ ~IsHttp(NextUrl)
    /\ url' = NextUrl
    /\ hphase' = "ftp"
    /\ UNCHANGED <<client, server, status, headers, hops, visited, size, supported, body, cuts>>

Counted_Not(n) == n
Counted(n) == n + 1

\* ++i >= max_redirect, and ++redirects > max_redirect.
TooMany == IF client = "info" THEN Counted(hops) >= MaxRedirect ELSE Counted(hops) > MaxRedirect

\* urlseq_check_loop: only what a redirect led to is remembered.  (Hashes of
\* different URLs are taken to be different.)
Loop == client = "info" /\ NextUrl \in visited

Follow ==
    /\ Redirected /\ ~NoLocation
    /\ client = "info" => IsHttp(NextUrl)
    /\ hops' = Counted(hops)
    /\ IF TooMany \/ Loop
       THEN hphase' = "fail" /\ UNCHANGED <<url, visited, status, headers>>
       ELSE /\ url' = NextUrl
            /\ hphase' = "request"
            /\ IF client = "info"
               THEN visited' = visited \cup {NextUrl} /\ UNCHANGED <<status, headers>>
               ELSE status' = 0 /\ headers' = NoHeaders /\ UNCHANGED visited
    /\ UNCHANGED <<client, server, size, supported, body, cuts>>

-----------------------------------------------------------------------------
(***************************************************************************)
(* The answer that is no redirect                                          *)
(***************************************************************************)

Larger(a, b) == IF a > b THEN a ELSE b

Success == status \div 100 = 2

\* conn_info's reading of the status and of the Content-Range (-3 if it does not
\* tell the whole size) and Content-Length headers.
Acceptable == status = 416 \/ Success
RangeIgnored == headers.range <= 0 /\ status \in {200, 416}
Unexpected == headers.range <= 0 /\ status \notin {200, 206, 416}
Partial_Success == status \in {200, 206} \/ headers.range > 0
Partial == (status = 206 \/ headers.range > 0) /\ ~RangeIgnored
Reported == Larger(headers.range, headers.length)

InfoAnswer ==
    /\ hphase = "answer" /\ ~Redirected /\ client = "info"
    /\ IF ~Acceptable \/ Unexpected
       THEN hphase' = "fail" /\ UNCHANGED <<size, supported>>
       ELSE /\ hphase' = "ok"
            /\ size' = IF Reported <= 0 THEN Unknown ELSE Reported
            /\ supported' = (Partial /\ Reported > 0)
    /\ UNCHANGED <<client, server, url, status, headers, hops, visited, body, cuts>>

ProbeAnswer ==
    /\ hphase = "answer" /\ ~Redirected /\ client = "probe"
    /\ IF Success /\ headers.length >= 0
       THEN hphase' = "ok" /\ size' = headers.length
       ELSE hphase' = "fail" /\ UNCHANGED size
    /\ UNCHANGED <<client, server, url, status, headers, hops, visited, supported, body, cuts>>

\* The body may be longer or shorter than what the header says.
FetchAnswer ==
    /\ hphase = "answer" /\ ~Redirected /\ client = "fetch"
    /\ IF Success
       THEN hphase' = "body" /\ \E n \in 0..(MaxBody + 1) : body' = [len |-> 0, cap |-> 2 * ReadSize, left |-> n]
       ELSE hphase' = "fail" /\ UNCHANGED body
    /\ UNCHANGED <<client, server, url, status, headers, hops, visited, size, supported, cuts>>

Least(a, b) == IF a < b THEN a ELSE b

Needed_NoEnd == body.len + ReadSize
Needed == body.len + ReadSize + 1

\* Doubled until it is enough, but not beyond max_body.
Doubled(cap, need) == {c \in need..(2 * need - 1) : \E e \in 1..need : c = cap * 2 ^ e}

\* The one capacity that body then has.
Capacities == IF Needed > body.cap THEN {Least(c, MaxBody) : c \in Doubled(body.cap, Needed)} ELSE {body.cap}

ReadBody ==
    /\ hphase = "body" /\ body.left > 0
    /\ \E cap \in Capacities, n \in 1..Least(ReadSize, body.left) :
         /\ cap >= Needed
         /\ body' = [len |-> body.len + n, cap |-> cap, left |-> body.left - n]
    /\ UNCHANGED <<client, server, url, hphase, status, headers, hops, visited, size, supported, cuts>>

\* The connection ends, which is taken for the end of the body.
BodyEnds ==
    /\ hphase = "body" /\ body.left = 0
    /\ \E cap \in Capacities : cap >= Needed /\ body' = [body EXCEPT !.cap = cap]
    /\ hphase' = "ok"
    /\ UNCHANGED <<client, server, url, status, headers, hops, visited, size, supported, cuts>>

\* "Fetched body too large.", or a read that fails.
BodyFails ==
    /\ hphase = "body"
    /\ \E cap \in Capacities : IF cap >= Needed THEN Cut ELSE UNCHANGED cuts
    /\ hphase' = "fail"
    /\ UNCHANGED <<client, server, url, status, headers, hops, visited, size, supported, body>>

HttpNext ==
    \/ Exec \/ ExecCut \/ ConnectFails
    \/ RedirectNowhere \/ RedirectToFtp \/ Follow
    \/ InfoAnswer \/ ProbeAnswer \/ FetchAnswer
    \/ ReadBody \/ BodyEnds \/ BodyFails

=============================================================================
