------------------------------ MODULE FluxNew ------------------------------
(***************************************************************************)
(* What is asked of servers before a download: flux_new (src/src/flux.c)   *)
(* calls conn_init and conn_info until there is an answer, over HTTP and,  *)
(* if that is what the URL says or a redirect leads to, over FTP.  The     *)
(* threads of a download over FTP, and http_fetch_max and http_probe_len,  *)
(* go through the same steps without the ones before.                      *)
(***************************************************************************)
EXTENDS HttpClient, FtpClient

netvars == <<httpvars, ftpvars>>

\* Threads set up a connection with the URL that flux_new has ended with.
NetInit ==
    /\ HttpInit /\ FtpInit
    /\ hphase = "ftp" \/ first

Http == hphase # "ftp" /\ HttpNext /\ UNCHANGED ftpvars

Ftp == hphase = "ftp" /\ FtpNext /\ UNCHANGED httpvars

NetNext == Http \/ Ftp

NetSpec == NetInit /\ [][NetNext]_netvars

\* Every step is one the program takes by itself: a read or a connection that
\* waits ends with io_timeout.
FairNet == NetSpec /\ WF_netvars(NetNext)

-----------------------------------------------------------------------------

Ended ==
    IF hphase = "ftp" THEN doing \in {"transfer", "fail"} ELSE hphase \in {"ok", "fail"}

\* Whatever servers redirect to, link to or leave out, flux_new, http_fetch_max
\* and http_probe_len come to an end.
NetEnds == <>Ended

\* The size and the support of ranges that conn_info reports are those of the
\* file that the last redirect leads to, or the size is unknown.  416 is left
\* out: it has the size of an error page.
InfoTruthful ==
    (client = "info" /\ hphase = "ok" /\ status # 416) =>
        /\ size \in {server[url].holds, Unknown}
        /\ supported => server[url].ranges

\* A body is read into memory that is there, within the limit given, and so are
\* the URLs conn_info has been redirected to.
BuffersFit ==
    /\ hphase \in {"body", "ok"} /\ client = "fetch" =>
         body.len < body.cap /\ body.cap <= Larger(2 * ReadSize, MaxBody)
    /\ Cardinality(visited) <= MaxRedirect

=============================================================================
