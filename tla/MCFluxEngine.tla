---------------------------- MODULE MCFluxEngine ----------------------------
(* Instances of FluxEngine: two connections over a file of a few bytes, work *)
(* of two bytes being worth a split.                                         *)
EXTENDS FluxEngine

HttpServer(s, r) == [supported |-> s, rangeIgnored |-> r, ftp |-> FALSE]
FtpServer == [supported |-> TRUE, rangeIgnored |-> FALSE, ftp |-> TRUE]

\* HTTP with ranges, with a mirror that ignores them, without ranges; FTP.
AnyServer == {HttpServer(TRUE, FALSE), HttpServer(TRUE, TRUE), HttpServer(FALSE, FALSE), FtpServer}
RangeServer == {HttpServer(TRUE, FALSE)}
RangeServers == {HttpServer(TRUE, FALSE), FtpServer}

FreshOnly == {FALSE}
FreshOrResumed == BOOLEAN

AllFaults == FaultKinds
LossFaults == {"connect", "reply", "read", "eof", "timeout"}
SignalOnly == {"signal"}
ExpireOnly == {"expire"}

=============================================================================
