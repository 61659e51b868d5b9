---------------------------- MODULE NetworkProofs ----------------------------
(***************************************************************************)
(* What flux_new and the connections of a download believe of a server is  *)
(* true, for every server, every chain of redirects and of links, however  *)
(* many answers are cut off and however many replies come too late; and    *)
(* what hls_download promises of the segments that it is sent, for any     *)
(* number of segments and of workers.                                      *)
(***************************************************************************)
EXTENDS FluxNew, HlsDownload, FiniteSetTheorems, TLAPS

(***************************************************************************)
(* FTP.  A reply that came too late stays in front of those to the         *)
(* commands after it, and every command takes the reply before its own.    *)
(* The reply to a REST is none that SIZE, PASV or RETR go on with, and     *)
(* that to SIZE none that PASV goes on with: what once is behind stays     *)
(* behind until it fails.                                                  *)
(***************************************************************************)
Behind(codes, own) ==
    /\ replies \in Seq(Int) /\ Len(replies) > 1
    /\ \A i \in 1..(Len(replies) - 1) : replies[i] \in codes
    /\ replies[Len(replies)] = own

NoSuccess == {350} \cup Refusals
ToRestOrSize == NoSuccess \cup {213}

(* conn->supported is only believed of a server that has been asked. *)
Trusted == resumable => ftpserver.rest = 350

LoginInv ==
    /\ ftpserver \in FtpServers
    /\ asked.name \in DOMAIN ftpserver.listing /\ asked.pattern \in BOOLEAN
    /\ doing \in {"connect", "greeting", "USER", "PASS", "TYPE", "CWD", "REST1", "REST0"} => ftpurl = asked
    /\ doing \in {"connect", "greeting", "USER", "PASS", "TYPE", "CWD"} => marker = 0
    /\ doing \in {"greeting", "USER", "PASS", "TYPE", "CWD"} => replies = <<replies[1]>>
    /\ doing = "greeting" => replies[1] = 220
    /\ doing = "USER" => ftpstatus = 220
    /\ currentbyte \in Nat

(* The marker that the test of REST sets is set back, or was not taken. *)
TestInv ==
    /\ doing = "REST1" =>
         /\ replies = <<ftpserver.rest>> /\ Kind(ftpstatus) = 2
         /\ ftpserver.rest # 350 => marker = 0
    /\ doing = "REST0" =>
         /\ marker = 0
         /\ (replies = <<ftpserver.rest>> /\ ftpserver.rest = 350) \/ Behind(NoSuccess, ftpserver.rest)

SizeInv ==
    /\ doing = "SIZE" =>
         /\ marker = 0
         /\ \/ replies = <<ftpserver.size[asked.name]>> /\ Trusted
            \/ Behind(NoSuccess, ftpserver.size[asked.name])
    /\ doing = "ok" =>
         /\ marker = 0 /\ replies = <<>> /\ Trusted
         /\ ftpsize \in {Shown(asked.name).size, SizeUnknown}

ListInv ==
    /\ doing = "PASVLIST" =>
         /\ marker = 0
         /\ (replies = <<227>> /\ Trusted) \/ Behind(ToRestOrSize, 227)
    /\ doing \in {"LIST", "list"} =>
         /\ marker = 0 /\ Trusted
         /\ replies = (IF doing = "LIST" THEN <<150>> ELSE <<226>>)

DataInv ==
    /\ doing = "PASV" => marker = 0 /\ replies = <<227>>
    /\ doing = "REST" =>
         /\ replies = <<ftpserver.rest>>
         /\ ftpserver.rest = 350 => marker = currentbyte
    /\ doing = "RETR" =>
         (Len(replies) = 1 /\ marker = currentbyte) \/ Behind(NoSuccess, replies[Len(replies)])
    /\ doing = "transfer" => marker = currentbyte

FtpInv == LoginInv /\ TestInv /\ SizeInv /\ ListInv /\ DataInv

(***************************************************************************)
(* HTTP.  What conn_info finds in the buffer is the answer for its URL, or *)
(* what is left of an answer that was a redirect, or of none.              *)
(***************************************************************************)
Inconclusive == status = 0 \/ status \div 100 = 3

AnswerInv ==
    /\ server \in Servers
    /\ client = "info" =>
         /\ hphase = "request" => Inconclusive
         /\ hphase = "answer" => Inconclusive \/ (headers = AnswerOf(url) /\ status = headers.status)

(* Every URL in visited was a redirect that was counted. *)
VisitedInv ==
    /\ hops \in Nat /\ IsFiniteSet(visited)
    /\ Cardinality(visited) <= hops /\ Cardinality(visited) <= MaxRedirect
    /\ client # "info" => visited = {}

FetchInv == hphase = "body" => client = "fetch"

BodyInv ==
    (client = "fetch" /\ hphase \in {"body", "ok"}) =>
        /\ body \in [len : Nat, cap : Nat, left : Nat]
        /\ body.len < body.cap /\ body.cap <= Larger(2 * ReadSize, MaxBody)

HttpInv == AnswerInv /\ InfoTruthful /\ VisitedInv /\ FetchInv /\ BodyInv

NetInv == FtpInv /\ HttpInv

-----------------------------------------------------------------------------
(* A reply behind, and every command sent after it, is behind. *)
LEMMA SendBehind ==
    ASSUME NEW codes \in SUBSET Int, NEW code \in Int, NEW inTime \in BOOLEAN,
           replies \in Seq(Int), Len(replies) > 0, inTime => Len(replies) > 1,
           \A i \in 1..Len(replies) : replies[i] \in codes,
           replies' = Append(Left(inTime), code)
    PROVE  Behind(codes, code)'
  <1>1. CASE inTime
    <2>1. Left(inTime) = Tail(replies)
      BY <1>1 DEF Left
    <2>2. Tail(replies) \in Seq(Int) /\ Len(Tail(replies)) = Len(replies) - 1
      OBVIOUS
    <2>3. \A i \in 1..(Len(replies) - 1) : Tail(replies)[i] = replies[i + 1]
      OBVIOUS
    <2>4. replies' \in Seq(Int) /\ Len(replies') = Len(replies) /\ replies'[Len(replies')] = code
      BY <2>1, <2>2
    <2>5. ASSUME NEW i \in 1..(Len(replies') - 1) PROVE replies'[i] \in codes
      <3>1. i \in 1..(Len(replies) - 1) /\ i + 1 \in 1..Len(replies)
        BY <2>4
      <3>2. replies'[i] = Tail(replies)[i]
        BY <2>1, <2>2, <3>1
      <3> QED
        BY <2>3, <3>1, <3>2
    <2> QED
      BY <1>1, <2>4, <2>5 DEF Behind
  <1>2. CASE ~inTime
    BY <1>2 DEF Behind, Left
  <1> QED
    BY <1>1, <1>2

LEMMA Codes ==
    ASSUME FtpInv
    PROVE  /\ ftpserver.rest \in NoSuccess
           /\ \A n \in DOMAIN ftpserver.listing : ftpserver.size[n] \in ToRestOrSize
           /\ NoSuccess \subseteq ToRestOrSize /\ ToRestOrSize \subseteq Int /\ NoSuccess \subseteq Int
           /\ 213 \notin NoSuccess /\ 227 \notin ToRestOrSize
           /\ \A code \in ToRestOrSize : code \in NoSuccess \/ code = 213
           /\ \A code \in NoSuccess : Kind(code) \in {3, 4, 5} /\ (Resumes(code) => code = 350)
  <1>1. \A code \in NoSuccess : Kind(code) \in {3, 4, 5} /\ (Resumes(code) => code = 350)
    BY DEF NoSuccess, Refusals, Kind, Resumes
  <1>2. /\ NoSuccess \subseteq ToRestOrSize /\ ToRestOrSize \subseteq Int /\ NoSuccess \subseteq Int
        /\ 213 \notin NoSuccess /\ 227 \notin ToRestOrSize
        /\ \A code \in ToRestOrSize : code \in NoSuccess \/ code = 213
    BY DEF NoSuccess, ToRestOrSize, Refusals
  <1>3. ftpserver \in FtpServers
    BY DEF FtpInv, LoginInv
  <1>4. /\ ftpserver.rest \in NoSuccess
        /\ \A n \in DOMAIN ftpserver.listing : ftpserver.size[n] \in ToRestOrSize
    BY <1>3, FtpServersAssumption DEF NoSuccess, ToRestOrSize
  <1> QED
    BY <1>1, <1>2, <1>4

LEMMA FtpInitInv == FtpInit => FtpInv
  BY FtpAssumption, FtpServersAssumption
     DEF FtpInit, FtpInv, LoginInv, TestInv, SizeInv, ListInv, DataInv

LEMMA Single == \A x : Head(<<x>>) = x /\ Tail(<<x>>) = <<>> /\ Append(<<>>, x) = <<x>>
  OBVIOUS

LEMMA Pair ==
    ASSUME NEW x \in Int, NEW y \in Int
    PROVE  /\ Append(<<x>>, y) \in Seq(Int) /\ Len(Append(<<x>>, y)) = 2
           /\ Append(<<x>>, y)[1] = x /\ Append(<<x>>, y)[2] = y
  OBVIOUS

(* What is said of a reply only matters while it is awaited. *)
LEMMA Elsewhere ==
    /\ doing' \notin {"REST1", "REST0"} => TestInv'
    /\ doing' \notin {"SIZE", "ok"} => SizeInv'
    /\ doing' \notin {"PASVLIST", "LIST", "list"} => ListInv'
    /\ doing' \notin {"PASV", "REST", "RETR", "transfer"} => DataInv'
  <1>1. doing' \notin {"REST1", "REST0"} => TestInv'
    BY DEF TestInv
  <1>2. doing' \notin {"SIZE", "ok"} => SizeInv'
    BY DEF SizeInv
  <1>3. doing' \notin {"PASVLIST", "LIST", "list"} => ListInv'
    BY DEF ListInv
  <1>4. doing' \notin {"PASV", "REST", "RETR", "transfer"} => DataInv'
    BY DEF DataInv
  <1> QED
    BY <1>1, <1>2, <1>3, <1>4

LEMMA ConnectInv == FtpInv /\ Connect => FtpInv'
  <1> SUFFICES ASSUME FtpInv, Connect PROVE FtpInv'
    OBVIOUS
  <1>1. LoginInv' /\ doing' \in {"greeting", "fail"}
    BY DEF Connect, FtpInv, LoginInv
  <1> QED
    BY <1>1, Elsewhere DEF FtpInv

LEMMA LoginKeepsInv == FtpInv /\ Login => FtpInv'
  <1> SUFFICES ASSUME FtpInv, Login PROVE FtpInv'
    OBVIOUS
  <1>1. UNCHANGED <<ftpserver, ftpurl, asked, currentbyte, marker>>
    BY DEF Login, Awaits
  <1> DEFINE Goal == LoginInv' /\ doing' \in {"USER", "PASS", "TYPE", "CWD", "fail"}
  <1> SUFFICES Goal
    BY Elsewhere DEF FtpInv
  <1>2. CASE Awaits("greeting", Greeted)
    <2>1. PICK inTime \in BOOLEAN : Wait(inTime) /\ Greeted(inTime)
      BY <1>2 DEF Awaits, Outcomes
    <2>2. doing = "greeting"
      BY <1>2 DEF Awaits
    <2> QED
      BY <1>1, <2>1, <2>2 DEF Greeted, Wait, Send, Stop, Code, Left, Kind, FtpInv, LoginInv
  <1>3. CASE Awaits("USER", UserSent)
    <2>1. PICK inTime \in BOOLEAN : Wait(inTime) /\ UserSent(inTime)
      BY <1>3 DEF Awaits, Outcomes
    <2>2. doing = "USER"
      BY <1>3 DEF Awaits
    <2> QED
      BY <1>1, <2>1, <2>2 DEF UserSent, Wait, Send, Stop, Code, Left, Kind, FtpInv, LoginInv
  <1>4. CASE Awaits("PASS", PassSent)
    <2>1. PICK inTime \in BOOLEAN : Wait(inTime) /\ PassSent(inTime)
      BY <1>4 DEF Awaits, Outcomes
    <2>2. doing = "PASS"
      BY <1>4 DEF Awaits
    <2> QED
      BY <1>1, <2>1, <2>2 DEF PassSent, Wait, Send, Stop, Code, Left, Kind, FtpInv, LoginInv
  <1>5. CASE Awaits("TYPE", TypeSent)
    <2>1. PICK inTime \in BOOLEAN : Wait(inTime) /\ TypeSent(inTime)
      BY <1>5 DEF Awaits, Outcomes
    <2>2. doing = "TYPE"
      BY <1>5 DEF Awaits
    <2> QED
      BY <1>1, <2>1, <2>2 DEF TypeSent, Wait, Send, Stop, Code, Left, Kind, FtpInv, LoginInv
  <1> QED
    BY <1>2, <1>3, <1>4, <1>5 DEF Login

LEMMA ChangeDirectoryInv == FtpInv /\ ChangeDirectory => FtpInv'
  <1> SUFFICES ASSUME FtpInv, ChangeDirectory PROVE FtpInv'
    OBVIOUS
  <1>1. UNCHANGED <<ftpserver, ftpurl, asked, currentbyte>> /\ doing = "CWD"
    BY DEF ChangeDirectory, Awaits
  <1>2. PICK inTime \in BOOLEAN : Wait(inTime) /\ CwdSent(inTime)
    BY DEF ChangeDirectory, Awaits, Outcomes
  <1>3. ftpserver.rest \in NoSuccess /\ \A code \in NoSuccess : Resumes(code) => code = 350
    BY Codes
  <1>4. replies = <<replies[1]>> /\ marker = 0 /\ ftpurl = asked
    BY <1>1 DEF FtpInv, LoginInv
  <1>5. CASE Kind(Code(inTime)) = 2
    <2>1. inTime
      BY <1>5 DEF Code, Kind
    <2>2. Kind(ftpstatus') = 2
      BY <1>2, <1>5, <2>1 DEF Wait, Code
    <2>3. Left(inTime) = <<>>
      BY <1>4, <2>1, Single DEF Left
    <2>4. \A code : Append(Left(inTime), code) = <<code>>
      BY <2>3, Single
    <2>5. doing' \in {"REST1", "PASV"} /\ LoginInv'
      BY <1>1, <1>2, <1>4, <1>5 DEF CwdSent, Send, FtpInv, LoginInv
    <2>6. TestInv'
      BY <1>1, <1>2, <1>3, <1>4, <1>5, <2>2, <2>4 DEF CwdSent, Send, Restart, TestInv
    <2>7. DataInv'
      BY <1>1, <1>2, <1>3, <1>4, <1>5, <2>4 DEF CwdSent, Send, Restart, DataInv
    <2> QED
      BY <2>5, <2>6, <2>7, Elsewhere DEF FtpInv
  <1>6. CASE Kind(Code(inTime)) # 2
    <2>1. doing' = "fail" /\ LoginInv'
      BY <1>1, <1>2, <1>4, <1>6 DEF CwdSent, Stop, FtpInv, LoginInv
    <2> QED
      BY <2>1, Elsewhere DEF FtpInv
  <1> QED
    BY <1>5, <1>6

(* The answer to a REST that may be late goes before that to SIZE or PASV. *)
LEMMA AskSizeInv ==
    ASSUME FtpInv, NEW inTime \in BOOLEAN, NEW file,
           file.name \in DOMAIN ftpserver.listing,
           \/ replies = <<replies[1]>> /\ inTime /\ Trusted'
           \/ /\ replies \in Seq(Int) /\ Len(replies) > 0 /\ (inTime => Len(replies) > 1)
              /\ \A i \in 1..Len(replies) : replies[i] \in NoSuccess,
           AskSize(inTime, file), asked' = file,
           UNCHANGED ftpserver, marker' = 0
    PROVE  SizeInv' /\ ListInv' /\ doing' \in {"SIZE", "PASVLIST", "fail"}
  <1> PICK sizeCode : sizeCode = ftpserver.size[file.name]
    OBVIOUS
  <1>1. /\ sizeCode \in ToRestOrSize /\ ToRestOrSize \subseteq Int
        /\ NoSuccess \subseteq Int /\ NoSuccess \subseteq ToRestOrSize
    BY Codes
  <1>2. \/ replies' = Append(Left(inTime), 227) /\ doing' = "PASVLIST"
        \/ replies' = Append(Left(inTime), sizeCode) /\ doing' = "SIZE"
        \/ doing' = "fail"
    BY DEF AskSize, AskListing, Send, Stop
  <1>3. sizeCode = (ftpserver.size[asked.name])'
    OBVIOUS
  <1>4. CASE replies = <<replies[1]>> /\ inTime /\ Trusted'
    <2>1. \A code : Append(Left(inTime), code) = <<code>>
      BY <1>4, Single DEF Left
    <2>2. SizeInv'
      BY <1>2, <1>3, <1>4, <2>1 DEF SizeInv
    <2>3. ListInv'
      BY <1>2, <1>4, <2>1 DEF ListInv
    <2> QED
      BY <1>2, <2>2, <2>3
  <1>5. CASE /\ replies \in Seq(Int) /\ Len(replies) > 0 /\ (inTime => Len(replies) > 1)
             /\ \A i \in 1..Len(replies) : replies[i] \in NoSuccess
    <2> /\ replies \in Seq(Int) /\ Len(replies) > 0 /\ (inTime => Len(replies) > 1)
        /\ \A i \in 1..Len(replies) : replies[i] \in NoSuccess
      BY <1>5
    <2>1. CASE replies' = Append(Left(inTime), 227) /\ doing' = "PASVLIST"
      <3>1. \A i \in 1..Len(replies) : replies[i] \in ToRestOrSize
        BY <1>1
      <3>2. ToRestOrSize \in SUBSET Int /\ 227 \in Int
        BY <1>1
      <3> replies' = Append(Left(inTime), 227)
        BY <2>1
      <3>3. Behind(ToRestOrSize, 227)'
        BY <3>1, <3>2, SendBehind
      <3>4. ListInv'
        BY <2>1, <3>3 DEF ListInv
      <3> QED
        BY <2>1, <3>4, Elsewhere
    <2>2. CASE replies' = Append(Left(inTime), sizeCode) /\ doing' = "SIZE"
      <3>1. NoSuccess \in SUBSET Int /\ sizeCode \in Int
        BY <1>1
      <3> replies' = Append(Left(inTime), sizeCode)
        BY <2>2
      <3>2. Behind(NoSuccess, sizeCode)'
        BY <3>1, SendBehind
      <3>3. SizeInv'
        BY <1>3, <2>2, <3>2 DEF SizeInv
      <3> QED
        BY <2>2, <3>3, Elsewhere
    <2>3. CASE doing' = "fail"
      BY <2>3, Elsewhere
    <2> QED
      BY <1>2, <2>1, <2>2, <2>3
  <1> QED
    BY <1>4, <1>5

(* In any state in which it is asked for, the file can be found in the listing. *)
LEMMA KnownName ==
    ASSUME FtpInv
    PROVE  /\ ftpserver \in FtpServers /\ asked.name \in DOMAIN ftpserver.listing
           /\ \A n \in DOMAIN ftpserver.listing :
                ftpserver.listing[n].kind = "link" => ftpserver.listing[n].to \in DOMAIN ftpserver.listing
  <1>1. ftpserver \in FtpServers /\ asked.name \in DOMAIN ftpserver.listing
    BY DEF FtpInv, LoginInv
  <1> QED
    BY <1>1, FtpServersAssumption

LEMMA Rest1Inv ==
    ASSUME FtpInv, doing = "REST1", NEW inTime \in BOOLEAN, Wait(inTime), Rest1Sent(inTime),
           UNCHANGED <<ftpserver, first, currentbyte, ftpurl, asked, redir, ftpsize>>
    PROVE  FtpInv'
  <1>1. doing = "REST1" /\ UNCHANGED <<ftpserver, first, currentbyte>>
    OBVIOUS
  <1>2. Wait(inTime) /\ Rest1Sent(inTime)
    OBVIOUS
  <1>3. replies = <<ftpserver.rest>> /\ Kind(ftpstatus) = 2 /\ (ftpserver.rest # 350 => marker = 0) /\ ftpurl = asked
    BY <1>1 DEF FtpInv, TestInv, LoginInv
  <1>4. /\ ftpserver.rest \in NoSuccess /\ NoSuccess \subseteq Int
        /\ Kind(ftpserver.rest) \in {3, 4, 5} /\ (Resumes(ftpserver.rest) => ftpserver.rest = 350)
    BY Codes
  <1>5. ftpserver.rest = 350 => Kind(ftpserver.rest) = 3 /\ Resumes(ftpserver.rest)
    BY DEF Kind, Resumes
  <1>6. LoginInv'
    <2>1. doing' \in {"REST0", "SIZE", "PASVLIST", "fail"}
      BY <1>2 DEF Rest1Sent, AskSize, AskListing, Send, Stop
    <2> QED
      BY <1>1, <1>3, <2>1 DEF FtpInv, LoginInv
  <1>9. resumable' <=> Kind(Code(inTime)) = 3 \/ Kind(ftpstatus') = 2
    BY <1>2 DEF Rest1Sent
  <1>7. CASE resumable'
    <2>1. replies' = Append(Left(inTime), ftpserver.rest) /\ doing' = "REST0" /\ Restart(ftpserver.rest, 0)
      BY <1>2, <1>7 DEF Rest1Sent, Send
    <2>2. marker' = 0
      BY <1>3, <1>4, <1>5, <2>1 DEF Restart
    <2>3. CASE inTime
      <3>1. Code(inTime) = ftpserver.rest /\ ftpstatus' = ftpserver.rest /\ Left(inTime) = <<>>
        BY <1>2, <1>3, <2>3, Single DEF Code, Wait, Left
      <3>2. Kind(ftpserver.rest) = 3
        BY <1>4, <1>7, <1>9, <3>1
      <3>3. ftpserver.rest = 350 /\ replies' = <<ftpserver.rest>>
        BY <1>4, <2>1, <3>1, <3>2, Single DEF Resumes
      <3>4. TestInv'
        BY <1>1, <2>1, <2>2, <3>3 DEF TestInv
      <3> QED
        BY <1>6, <2>1, <3>4, Elsewhere DEF FtpInv
    <2>4. CASE ~inTime
      <3>1. replies' = Append(<<ftpserver.rest>>, ftpserver.rest)
        BY <1>3, <2>1, <2>4 DEF Left
      <3>4. ftpserver.rest \in Int /\ ftpserver'.rest = ftpserver.rest
        BY <1>1, <1>4
      <3>5. replies' \in Seq(Int) /\ Len(replies') = 2 /\ replies'[1] = ftpserver.rest /\ replies'[2] = ftpserver.rest
        BY <3>1, <3>4, Pair
      <3>2. Behind(NoSuccess, ftpserver.rest)'
        BY <1>4, <3>4, <3>5 DEF Behind
      <3>3. TestInv'
        BY <2>1, <2>2, <3>2 DEF TestInv
      <3> QED
        BY <1>6, <2>1, <3>3, Elsewhere DEF FtpInv
    <2> QED
      BY <2>3, <2>4
  <1>8. CASE ~resumable'
    <2>1. inTime
      BY <1>2, <1>3, <1>8 DEF Rest1Sent, Wait
    <2>2. ftpserver.rest # 350
      BY <1>3, <1>5, <1>8, <1>9, <2>1, Single DEF Code
    <2>3. AskSize(inTime, ftpurl) /\ marker' = 0
      BY <1>2, <1>3, <1>8, <2>2 DEF Rest1Sent
    <2>4. Trusted' /\ ftpurl.name \in DOMAIN ftpserver.listing
      BY <1>3, <1>8, KnownName DEF Trusted
    <2>5. replies = <<replies[1]>> /\ asked' = ftpurl /\ ftpserver' = ftpserver
      BY <1>1, <1>3
    <2>6. SizeInv' /\ ListInv' /\ doing' \in {"SIZE", "PASVLIST", "fail"}
      BY <2>1, <2>3, <2>4, <2>5, AskSizeInv
    <2> QED
      BY <1>6, <2>6, Elsewhere DEF FtpInv
  <1> QED
    BY <1>7, <1>8

LEMMA Rest0Inv ==
    ASSUME FtpInv, doing = "REST0", NEW inTime \in BOOLEAN, Wait(inTime), Rest0Sent(inTime),
           UNCHANGED <<ftpserver, first, currentbyte, ftpurl, asked, redir, ftpsize, resumable>>
    PROVE  FtpInv'
  <1>1. doing = "REST0" /\ UNCHANGED <<ftpserver, first, currentbyte>>
    OBVIOUS
  <1>2. AskSize(inTime, ftpurl) /\ UNCHANGED marker
    BY DEF Rest0Sent
  <1>3. /\ marker = 0 /\ ftpurl = asked
        /\ (replies = <<ftpserver.rest>> /\ ftpserver.rest = 350) \/ Behind(NoSuccess, ftpserver.rest)
    BY <1>1 DEF FtpInv, TestInv, LoginInv
  <1>4. ftpserver.rest \in NoSuccess /\ NoSuccess \subseteq Int
    BY Codes
  <1>5. ftpurl.name \in DOMAIN ftpserver.listing /\ asked' = ftpurl /\ ftpserver' = ftpserver /\ marker' = 0
    BY <1>1, <1>2, <1>3, KnownName
  <1>6. AskSize(inTime, ftpurl)
    BY <1>2
  <1>7. \/ replies = <<replies[1]>> /\ inTime /\ Trusted'
        \/ /\ replies \in Seq(Int) /\ Len(replies) > 0 /\ (inTime => Len(replies) > 1)
           /\ \A i \in 1..Len(replies) : replies[i] \in NoSuccess
    <2>1. CASE replies = <<ftpserver.rest>> /\ ftpserver.rest = 350
      <3>1. CASE inTime
        BY <1>1, <2>1, <3>1 DEF Trusted
      <3>2. CASE ~inTime
        BY <1>4, <2>1, <3>2
      <3> QED
        BY <3>1, <3>2
    <2>2. CASE Behind(NoSuccess, ftpserver.rest)
      <3>1. replies \in Seq(Int) /\ Len(replies) > 1 /\ replies[Len(replies)] \in NoSuccess
        BY <1>4, <2>2 DEF Behind
      <3>2. \A i \in 1..Len(replies) : i \in 1..(Len(replies) - 1) \/ i = Len(replies)
        BY <3>1
      <3>3. \A i \in 1..Len(replies) : replies[i] \in NoSuccess
        BY <2>2, <3>1, <3>2 DEF Behind
      <3> QED
        BY <3>1, <3>3
    <2> QED
      BY <1>3, <2>1, <2>2
  <1>8. SizeInv' /\ ListInv' /\ doing' \in {"SIZE", "PASVLIST", "fail"}
    BY <1>5, <1>6, <1>7, AskSizeInv
  <1>9. LoginInv'
    BY <1>1, <1>2, <1>8 DEF FtpInv, LoginInv
  <1> QED
    BY <1>8, <1>9, Elsewhere DEF FtpInv

LEMMA TestRestartInv == FtpInv /\ TestRestart => FtpInv'
  <1> SUFFICES ASSUME FtpInv, TestRestart PROVE FtpInv'
    OBVIOUS
  <1>1. \/ /\ doing = "REST1" /\ \E inTime \in BOOLEAN : Wait(inTime) /\ Rest1Sent(inTime)
           /\ UNCHANGED <<ftpserver, first, currentbyte, ftpurl, asked, redir, ftpsize>>
        \/ /\ doing = "REST0" /\ \E inTime \in BOOLEAN : Wait(inTime) /\ Rest0Sent(inTime)
           /\ UNCHANGED <<ftpserver, first, currentbyte, ftpurl, asked, redir, ftpsize, resumable>>
    BY DEF TestRestart, Awaits, Outcomes
  <1> QED
    BY <1>1, Rest1Inv, Rest0Inv

(* After the login, only what is awaited changes what is to be shown. *)
LEMMA LoggedIn ==
    ASSUME FtpInv, UNCHANGED <<ftpserver, asked, currentbyte>>,
           doing' \notin {"connect", "greeting", "USER", "PASS", "TYPE", "CWD", "REST1", "REST0"}
    PROVE  LoginInv'
  BY DEF FtpInv, LoginInv

LEMMA FailedInv ==
    ASSUME FtpInv, UNCHANGED <<ftpserver, asked, currentbyte>>, doing' = "fail"
    PROVE  FtpInv'
  BY LoggedIn, Elsewhere DEF FtpInv

LEMMA InTime ==
    ASSUME NEW inTime \in BOOLEAN, NEW k \in {1, 2, 3}, Kind(Code(inTime)) = k
    PROVE  inTime
  BY DEF Code, Kind

LEMMA BehindHead ==
    ASSUME NEW codes, NEW own, Behind(codes, own)
    PROVE  Head(replies) \in codes
  BY DEF Behind

LEMMA BehindAll ==
    ASSUME NEW codes, NEW own, NEW all, Behind(codes, own), codes \subseteq all, own \in all
    PROVE  /\ replies \in Seq(Int) /\ Len(replies) > 1
           /\ \A i \in 1..Len(replies) : replies[i] \in all
  <1>1. replies \in Seq(Int) /\ Len(replies) > 1 /\ replies[Len(replies)] \in all
    BY DEF Behind
  <1>2. \A i \in 1..Len(replies) : i \in 1..(Len(replies) - 1) \/ i = Len(replies)
    BY <1>1
  <1>3. \A i \in 1..(Len(replies) - 1) : replies[i] \in all
    BY DEF Behind
  <1> QED
    BY <1>1, <1>2, <1>3

(* Asking for the passive port leaves its answer behind the others.            *)
LEMMA PassiveBehind ==
    ASSUME NEW inTime \in BOOLEAN, replies \in Seq(Int), Len(replies) > 0, inTime => Len(replies) > 1,
           \A i \in 1..Len(replies) : replies[i] \in ToRestOrSize,
           replies' = Append(Left(inTime), 227)
    PROVE  Behind(ToRestOrSize, 227)'
  <1>1. ToRestOrSize \in SUBSET Int
    BY DEF ToRestOrSize, NoSuccess, Refusals
  <1>2. 227 \in Int
    OBVIOUS
  <1> QED
    BY <1>1, <1>2, SendBehind, Zenon

(* SIZE believes the reply that says yes only if it is its own, and so does PASV. *)
LEMMA SizeSentInv ==
    ASSUME FtpInv, doing = "SIZE", NEW inTime \in BOOLEAN, Wait(inTime), SizeSent(inTime),
           UNCHANGED <<ftpserver, first, currentbyte, ftpurl, asked, marker, redir>>
    PROVE  FtpInv'
  <1> PICK code : code = ftpserver.size[asked.name]
    OBVIOUS
  <1>1. marker = 0 /\ ((replies = <<code>> /\ Trusted) \/ Behind(NoSuccess, code))
    BY DEF FtpInv, SizeInv
  <1>2. code \in ToRestOrSize
    BY Codes, KnownName
  <1>7. \A c \in NoSuccess : Kind(c) # 2
    <2>1. \A c \in NoSuccess : Kind(c) \in {3, 4, 5}
      BY Codes
    <2> QED
      BY <2>1
  <1>6. code \in Int /\ (code \in NoSuccess \/ code = 213)
    <2>1. \A c \in ToRestOrSize : c \in NoSuccess \/ c = 213
      BY Codes
    <2>2. ToRestOrSize \subseteq Int
      BY Codes
    <2> QED
      BY <1>2, <2>1, <2>2
  <1>3. CASE SizeGiven(Code(inTime))
    <2>1. /\ replies' = Left(inTime) /\ doing' = "ok" /\ UNCHANGED resumable
          /\ SizeRead(Code(inTime)) /\ Kind(Code(inTime)) = 2
      BY <1>3 DEF SizeSent, Stop, SizeGiven
    <2>2. inTime
      BY <2>1, InTime
    <2>3. Code(inTime) = Head(replies)
      BY <2>2 DEF Code
    <2>4. replies = <<code>> /\ Trusted
      <3>1. Head(replies) \notin NoSuccess
        BY <1>7, <2>1, <2>3
      <3> QED
        BY <1>1, <3>1, BehindHead
    <2>5. Code(inTime) = 213
      <3>1. Code(inTime) = code
        BY <2>3, <2>4, Single
      <3> QED
        BY <1>6, <1>7, <2>1, <3>1
    <2>6. ftpsize' = Shown(asked.name).size /\ replies' = <<>>
      BY <2>1, <2>2, <2>4, <2>5, Single DEF SizeRead, Left
    <2>7. SizeInv'
      BY <1>1, <2>1, <2>4, <2>6 DEF SizeInv, Trusted, Shown
    <2> QED
      BY <2>1, <2>7, LoggedIn, Elsewhere DEF FtpInv
  <1>4. CASE replies' = Append(Left(inTime), 227) /\ doing' = "PASVLIST" /\ UNCHANGED resumable
    <2>1. CASE replies = <<code>> /\ Trusted /\ inTime
      <3>1. replies' = <<227>>
        BY <1>4, <2>1, Single DEF Left
      <3>2. ListInv'
        BY <1>1, <1>4, <2>1, <3>1 DEF ListInv, Trusted
      <3> QED
        BY <1>4, <3>2, LoggedIn, Elsewhere DEF FtpInv
    <2>2. CASE replies = <<code>> /\ ~inTime
      <3>2. replies \in Seq(Int) /\ Len(replies) > 0
        BY <1>6, <2>2
      <3>3. \A i \in 1..Len(replies) : replies[i] \in ToRestOrSize
        BY <1>2, <2>2
      <3>6. inTime => Len(replies) > 1
        BY <2>2
      <3>4. replies' = Append(Left(inTime), 227)
        BY <1>4
      <3>5. Behind(ToRestOrSize, 227)'
        BY <3>2, <3>3, <3>4, <3>6, PassiveBehind, Zenon
      <3>7. ListInv'
        BY <1>1, <1>4, <3>5 DEF ListInv
      <3> QED
        BY <1>4, <3>7, LoggedIn, Elsewhere DEF FtpInv
    <2>3. CASE Behind(NoSuccess, code)
      <3>2. NoSuccess \subseteq ToRestOrSize
        BY Codes
      <3>8. code \in ToRestOrSize
        BY <1>2
      <3>3. /\ replies \in Seq(Int) /\ Len(replies) > 1
            /\ \A i \in 1..Len(replies) : replies[i] \in ToRestOrSize
        BY <2>3, <3>2, <3>8, BehindAll
      <3>4. replies' = Append(Left(inTime), 227)
        BY <1>4
      <3>5. replies \in Seq(Int) /\ Len(replies) > 0
        BY <3>3
      <3>9. \A i \in 1..Len(replies) : replies[i] \in ToRestOrSize
        BY <3>3
      <3>10. inTime => Len(replies) > 1
        BY <3>3
      <3>6. Behind(ToRestOrSize, 227)'
        BY <3>4, <3>5, <3>9, <3>10, PassiveBehind, Zenon
      <3>7. ListInv'
        BY <1>1, <1>4, <3>6 DEF ListInv
      <3> QED
        BY <1>4, <3>7, LoggedIn, Elsewhere DEF FtpInv
    <2> QED
      BY <1>1, <2>1, <2>2, <2>3
  <1>5. CASE doing' = "fail"
    BY <1>5, FailedInv
  <1> QED
    BY <1>3, <1>4, <1>5 DEF SizeSent, Unusable, AskListing, Send, Stop

LEMMA AskedSizeInv == FtpInv /\ AskedSize => FtpInv'
  <1> SUFFICES ASSUME FtpInv, AskedSize PROVE FtpInv'
    OBVIOUS
  <1>1. /\ doing = "SIZE" /\ \E inTime \in BOOLEAN : Wait(inTime) /\ SizeSent(inTime)
        /\ UNCHANGED <<ftpserver, first, currentbyte, ftpurl, asked, marker, redir>>
    BY DEF AskedSize, Awaits, Outcomes
  <1> QED
    BY <1>1, SizeSentInv

LEMMA ToListSentInv ==
    ASSUME FtpInv, doing = "PASVLIST", NEW inTime \in BOOLEAN, Wait(inTime), ToListSent(inTime),
           UNCHANGED <<ftpserver, first, currentbyte, ftpurl, asked, marker, redir, ftpsize, resumable>>
    PROVE  FtpInv'
  <1>1. marker = 0 /\ ((replies = <<227>> /\ Trusted) \/ Behind(ToRestOrSize, 227))
    BY DEF FtpInv, ListInv
  <1>2. CASE Passive(inTime)
    <2>1. replies' = Append(Left(inTime), 150) /\ doing' = "LIST" /\ Kind(Code(inTime)) = 2 /\ Code(inTime) = 227
      BY <1>2 DEF ToListSent, Send, Passive
    <2>2. inTime
      BY <2>1, InTime
    <2>3. Head(replies) = 227
      BY <2>1, <2>2 DEF Code
    <2>4. Head(replies) \notin ToRestOrSize
      BY <2>3, Codes
    <2>5. replies = <<227>> /\ Trusted
      BY <1>1, <2>4, BehindHead
    <2>6. replies' = <<150>>
      BY <2>1, <2>2, <2>5, Single DEF Left
    <2>7. ListInv'
      BY <1>1, <2>1, <2>5, <2>6 DEF ListInv, Trusted
    <2> QED
      BY <2>1, <2>7, LoggedIn, Elsewhere DEF FtpInv
  <1>3. CASE ~Passive(inTime)
    BY <1>3, FailedInv DEF ToListSent, Stop
  <1> QED
    BY <1>2, <1>3

LEMMA ListSentInv ==
    ASSUME FtpInv, doing = "LIST", NEW inTime \in BOOLEAN, Wait(inTime), ListSent(inTime), marker' = 0,
           UNCHANGED <<ftpserver, first, currentbyte, ftpurl, asked, redir, ftpsize, resumable>>
    PROVE  FtpInv'
  <1>1. replies = <<150>> /\ Trusted
    BY DEF FtpInv, ListInv
  <1>2. CASE Kind(Code(inTime)) = 1
    <2>1. replies' = Append(Left(inTime), 226) /\ doing' = "list"
      BY <1>2 DEF ListSent, Send
    <2>2. inTime
      BY <1>2, InTime
    <2>3. replies' = <<226>>
      BY <1>1, <2>1, <2>2, Single DEF Left
    <2>4. ListInv'
      BY <1>1, <2>1, <2>3 DEF ListInv, Trusted
    <2> QED
      BY <2>1, <2>4, LoggedIn, Elsewhere DEF FtpInv
  <1>3. CASE Kind(Code(inTime)) # 1
    BY <1>3, FailedInv DEF ListSent, Stop
  <1> QED
    BY <1>2, <1>3

LEMMA StartListingInv == FtpInv /\ StartListing => FtpInv'
  <1> SUFFICES ASSUME FtpInv, StartListing PROVE FtpInv'
    OBVIOUS
  <1>1. \/ /\ doing = "PASVLIST" /\ \E inTime \in BOOLEAN : Wait(inTime) /\ ToListSent(inTime)
           /\ UNCHANGED <<ftpserver, first, currentbyte, ftpurl, asked, marker, redir, ftpsize, resumable>>
        \/ /\ doing = "LIST" /\ \E inTime \in BOOLEAN : Wait(inTime) /\ ListSent(inTime)
           /\ marker' = 0
           /\ UNCHANGED <<ftpserver, first, currentbyte, ftpurl, asked, redir, ftpsize, resumable>>
    BY DEF StartListing, Awaits, Outcomes
  <1> QED
    BY <1>1, ToListSentInv, ListSentInv

LEMMA ReadListingInv ==
    ASSUME FtpInv, doing = "list", NEW inTime \in BOOLEAN, Wait(inTime), ReadListing(inTime),
           UNCHANGED <<ftpserver, first, currentbyte, marker>>
    PROVE  FtpInv'
  <1> DEFINE line == Shown(asked.name)
  <1>1. marker = 0 /\ replies = <<226>> /\ Trusted
    BY DEF FtpInv, ListInv
  <1>2. CASE Kind(Code(inTime)) # 2 \/ line.kind \in {"none", "many"}
    BY <1>2, FailedInv DEF ReadListing, Unusable, Stop
  <1>3. CASE Kind(Code(inTime)) = 2 /\ line.kind \notin {"none", "many"}
    <2>1. inTime
      BY <1>3, InTime
    <2>2. Left(inTime) = <<>>
      BY <1>1, <2>1, Single DEF Left
    <2>3. CASE /\ line.kind = "link"
               /\ asked' = [name |-> line.to, pattern |-> FALSE]
               /\ AskSize(inTime, asked')
               /\ UNCHANGED <<ftpsize, resumable>>
      <3>1. asked'.name \in DOMAIN ftpserver.listing /\ asked'.pattern \in BOOLEAN
        BY <2>3, KnownName DEF Shown
      <3>2. PICK file : file = asked'
        OBVIOUS
      <3>3. file.name \in DOMAIN ftpserver.listing /\ AskSize(inTime, file) /\ asked' = file
        BY <2>3, <3>1, <3>2
      <3>4. Trusted' /\ replies = <<replies[1]>> /\ marker' = 0
        BY <1>1, <2>3 DEF Trusted
      <3>5. SizeInv' /\ ListInv' /\ doing' \in {"SIZE", "PASVLIST", "fail"}
        BY <2>1, <3>3, <3>4, AskSizeInv
      <3>6. LoginInv'
        BY <3>1, <3>5 DEF FtpInv, LoginInv
      <3> QED
        BY <3>5, <3>6, Elsewhere DEF FtpInv
    <2>4. CASE /\ replies' = Left(inTime) /\ doing' = "ok" /\ UNCHANGED asked
               /\ ftpsize' \in {line.size, SizeUnknown}
               /\ resumable' = FALSE \/ UNCHANGED resumable
      <3>1. SizeInv'
        BY <1>1, <2>2, <2>4 DEF SizeInv, Trusted, Shown
      <3> QED
        BY <2>4, <3>1, LoggedIn, Elsewhere DEF FtpInv
    <2> QED
      BY <1>3, <2>3, <2>4 DEF ReadListing, Stop
  <1> QED
    BY <1>2, <1>3

LEMMA ListedInv == FtpInv /\ Listed => FtpInv'
  <1> SUFFICES ASSUME FtpInv, Listed PROVE FtpInv'
    OBVIOUS
  <1>1. /\ doing = "list" /\ \E inTime \in BOOLEAN : Wait(inTime) /\ ReadListing(inTime)
        /\ UNCHANGED <<ftpserver, first, currentbyte, marker>>
    BY DEF Listed, Awaits, Outcomes
  <1> QED
    BY <1>1, ReadListingInv

LEMMA SetUpInv == FtpInv /\ SetUp => FtpInv'
  <1> SUFFICES ASSUME FtpInv, SetUp PROVE FtpInv'
    OBVIOUS
  <1>1. /\ doing = "ok" /\ doing' = "PASV" /\ replies' = Append(replies, 227)
        /\ currentbyte' = (IF resumable THEN currentbyte ELSE 0)
        /\ UNCHANGED <<ftpserver, asked, marker>>
    BY DEF SetUp
  <1>2. marker = 0 /\ replies = <<>>
    BY <1>1 DEF FtpInv, SizeInv
  <1>3. DataInv'
    BY <1>1, <1>2, Single DEF DataInv
  <1>4. LoginInv'
    BY <1>1 DEF FtpInv, LoginInv
  <1> QED
    BY <1>1, <1>3, <1>4, Elsewhere DEF FtpInv

LEMMA PasvSentInv ==
    ASSUME FtpInv, doing = "PASV", NEW inTime \in BOOLEAN, Wait(inTime), PasvSent(inTime),
           UNCHANGED <<ftpserver, first, currentbyte, ftpurl, asked, redir, ftpsize, resumable>>
    PROVE  FtpInv'
  <1>1. marker = 0 /\ replies = <<227>> /\ currentbyte \in Nat
    BY DEF FtpInv, DataInv, LoginInv
  <1>2. ASSUME Passive(inTime) PROVE \A code : Append(Left(inTime), code) = <<code>>
    <2>1. inTime
      BY <1>2, InTime DEF Passive
    <2> QED
      BY <1>1, <2>1, Single DEF Left
  <1>3. CASE Passive(inTime) /\ currentbyte = 0
    <2>1. /\ replies' = Append(Left(inTime), IF Found THEN 150 ELSE 550)
          /\ doing' = "RETR" /\ marker' = marker
      BY <1>3 DEF PasvSent, Retrieve, Send
    <2>2. PICK code : code = (IF Found THEN 150 ELSE 550)
      OBVIOUS
    <2>3. replies' = <<code>>
      BY <1>2, <1>3, <2>1, <2>2
    <2>4. DataInv'
      BY <1>1, <1>3, <2>1, <2>3 DEF DataInv
    <2> QED
      BY <2>1, <2>4, LoggedIn, Elsewhere DEF FtpInv
  <1>4. CASE Passive(inTime) /\ currentbyte > 0
    <2>1. /\ replies' = Append(Left(inTime), ftpserver.rest)
          /\ doing' = "REST" /\ Restart(ftpserver.rest, currentbyte)
      BY <1>1, <1>4 DEF PasvSent, Send
    <2>2. replies' = <<ftpserver.rest>>
      BY <1>2, <1>4, <2>1
    <2>3. ftpserver.rest = 350 => marker' = currentbyte
      BY <2>1 DEF Restart, Resumes, Kind
    <2>4. DataInv'
      BY <2>1, <2>2, <2>3 DEF DataInv
    <2> QED
      BY <2>1, <2>4, LoggedIn, Elsewhere DEF FtpInv
  <1>5. CASE ~Passive(inTime)
    <2>1. doing' = "fail"
      BY <1>5 DEF PasvSent, Stop
    <2> QED
      BY <2>1, FailedInv
  <1> QED
    BY <1>1, <1>3, <1>4, <1>5

(* A REST that is not answered in time goes on, but RETR then takes its reply. *)
LEMMA RestSentInv ==
    ASSUME FtpInv, doing = "REST", NEW inTime \in BOOLEAN, Wait(inTime), RestSent(inTime),
           UNCHANGED <<ftpserver, first, currentbyte, ftpurl, asked, marker, redir, ftpsize, resumable>>
    PROVE  FtpInv'
  <1>1. replies = <<ftpserver.rest>> /\ (ftpserver.rest = 350 => marker = currentbyte)
    BY DEF FtpInv, DataInv
  <1>2. ftpserver.rest \in NoSuccess
    BY Codes
  <1>3. PICK code \in {150, 550} : code = IF Found THEN 150 ELSE 550
    OBVIOUS
  <1>4. CASE Kind(Code(inTime)) = 3 \/ Kind(ftpstatus') = 2
    <2>1. replies' = Append(Left(inTime), code) /\ doing' = "RETR"
      BY <1>3, <1>4 DEF RestSent, Retrieve, Send
    <2>2. CASE inTime
      <3>1. Code(inTime) = ftpserver.rest /\ ftpstatus' = ftpserver.rest /\ Left(inTime) = <<>>
        BY <1>1, <2>2, Single DEF Code, Wait, Left
      <3>2. Kind(ftpserver.rest) \in {3, 4, 5} /\ (Resumes(ftpserver.rest) => ftpserver.rest = 350)
        BY <1>2, Codes
      <3>3. ftpserver.rest = 350
        BY <1>4, <3>1, <3>2 DEF Resumes
      <3>4. replies' = <<code>> /\ marker' = currentbyte'
        BY <1>1, <2>1, <3>1, <3>3, Single
      <3>5. DataInv'
        BY <2>1, <3>4 DEF DataInv
      <3> QED
        BY <2>1, <3>5, LoggedIn, Elsewhere DEF FtpInv
    <2>3. CASE ~inTime
      <3>1. replies' = Append(<<ftpserver.rest>>, code)
        BY <1>1, <2>1, <2>3 DEF Left
      <3>2. ftpserver.rest \in Int
        BY <1>2, Codes
      <3>3. /\ replies' \in Seq(Int) /\ Len(replies') = 2
            /\ replies'[1] = ftpserver.rest /\ replies'[2] = code
        BY <3>1, <3>2, Pair
      <3>4. Behind(NoSuccess, replies[Len(replies)])'
        BY <1>2, <3>3 DEF Behind
      <3>5. DataInv'
        BY <2>1, <3>4 DEF DataInv
      <3> QED
        BY <2>1, <3>5, LoggedIn, Elsewhere DEF FtpInv
    <2> QED
      BY <2>2, <2>3
  <1>5. CASE ~(Kind(Code(inTime)) = 3 \/ Kind(ftpstatus') = 2)
    <2>1. doing' = "fail"
      BY <1>5 DEF RestSent, Stop
    <2> QED
      BY <2>1, FailedInv
  <1> QED
    BY <1>4, <1>5

LEMMA RetrSentInv ==
    ASSUME FtpInv, doing = "RETR", NEW inTime \in BOOLEAN, Wait(inTime), RetrSent(inTime),
           UNCHANGED <<ftpserver, first, currentbyte, ftpurl, asked, marker, redir, ftpsize, resumable>>
    PROVE  FtpInv'
  <1>1. (Len(replies) = 1 /\ marker = currentbyte) \/ Behind(NoSuccess, replies[Len(replies)])
    BY DEF FtpInv, DataInv
  <1>2. CASE Kind(Code(inTime)) = 1
    <2>1. doing' = "transfer"
      BY <1>2 DEF RetrSent, Stop
    <2>2. inTime
      BY <1>2, InTime
    <2>3. Kind(Head(replies)) = 1
      BY <1>2, <2>2 DEF Code
    <2>4. \A code \in NoSuccess : Kind(code) \in {3, 4, 5}
      BY Codes
    <2>5. Head(replies) \notin NoSuccess
      BY <2>3, <2>4
    <2>6. PICK own : own = replies[Len(replies)]
      OBVIOUS
    <2>7. ~Behind(NoSuccess, own)
      BY <2>5, BehindHead
    <2>8. marker = currentbyte
      BY <1>1, <2>6, <2>7
    <2>9. DataInv'
      BY <2>1, <2>8 DEF DataInv
    <2> QED
      BY <2>1, <2>9, LoggedIn, Elsewhere DEF FtpInv
  <1>3. CASE Kind(Code(inTime)) # 1
    <2>1. doing' = "fail"
      BY <1>3 DEF RetrSent, Stop
    <2> QED
      BY <2>1, FailedInv
  <1> QED
    BY <1>2, <1>3

LEMMA StartTransferInv == FtpInv /\ StartTransfer => FtpInv'
  <1> SUFFICES ASSUME FtpInv, StartTransfer PROVE FtpInv'
    OBVIOUS
  <1>1. /\ UNCHANGED <<ftpserver, first, currentbyte, ftpurl, asked, redir, ftpsize, resumable>>
        /\ \/ doing = "PASV" /\ \E inTime \in BOOLEAN : Wait(inTime) /\ PasvSent(inTime)
           \/ doing = "REST" /\ marker' = marker /\ \E inTime \in BOOLEAN : Wait(inTime) /\ RestSent(inTime)
           \/ doing = "RETR" /\ marker' = marker /\ \E inTime \in BOOLEAN : Wait(inTime) /\ RetrSent(inTime)
    BY DEF StartTransfer, Awaits, Outcomes
  <1>2. CASE doing = "PASV" /\ \E inTime \in BOOLEAN : Wait(inTime) /\ PasvSent(inTime)
    BY <1>1, <1>2, PasvSentInv
  <1>3. CASE doing = "REST" /\ marker' = marker /\ \E inTime \in BOOLEAN : Wait(inTime) /\ RestSent(inTime)
    BY <1>1, <1>3, RestSentInv
  <1>4. CASE doing = "RETR" /\ marker' = marker /\ \E inTime \in BOOLEAN : Wait(inTime) /\ RetrSent(inTime)
    BY <1>1, <1>4, RetrSentInv
  <1> QED
    BY <1>1, <1>2, <1>3, <1>4

LEMMA FtpStep == FtpInv /\ FtpNext => FtpInv'
  <1>1. FtpInv /\ DataFails => FtpInv'
    BY FailedInv DEF DataFails
  <1> QED
    BY <1>1, ConnectInv, LoginKeepsInv, ChangeDirectoryInv, TestRestartInv, AskedSizeInv, StartListingInv,
       ListedInv, SetUpInv, StartTransferInv
    DEF FtpNext

LEMMA FtpTruth == FtpInv => FtpInfoTruthful /\ FtpOffsetRight
  BY DEF FtpInv, SizeInv, DataInv, Trusted, FtpInfoTruthful, FtpOffsetRight

-----------------------------------------------------------------------------
LEMMA HttpInitInv == HttpInit => HttpInv
  <1> SUFFICES ASSUME HttpInit PROVE HttpInv
    OBVIOUS
  <1>1. AnswerInv /\ InfoTruthful /\ FetchInv /\ BodyInv
    BY DEF HttpInit, AnswerInv, Inconclusive, InfoTruthful, FetchInv, BodyInv
  <1>2. VisitedInv
    BY HttpAssumption, FS_EmptySet DEF HttpInit, VisitedInv
  <1> QED
    BY <1>1, <1>2 DEF HttpInv

(* What a step leaves alone stays true. *)
LEMMA VisitedSame ==
    ASSUME HttpInv, UNCHANGED <<client, hops, visited>>
    PROVE  VisitedInv'
  BY DEF HttpInv, VisitedInv

LEMMA BodySame ==
    ASSUME HttpInv, UNCHANGED client, UNCHANGED body \/ client # "fetch",
           hphase' \in {hphase, "request", "answer", "fail", "ftp"} \/ client # "fetch"
    PROVE  BodyInv'
  BY DEF HttpInv, BodyInv

LEMMA FetchSame ==
    ASSUME HttpInv, UNCHANGED client, hphase' \in {hphase, "request", "answer", "ok", "fail", "ftp"} \/ client = "fetch"
    PROVE  FetchInv'
  BY DEF HttpInv, FetchInv

LEMMA AnswerSame ==
    ASSUME HttpInv, UNCHANGED <<client, server>>,
           hphase' \notin {"request", "answer"} \/ client # "info"
    PROVE  AnswerInv'
  BY DEF HttpInv, AnswerInv

LEMMA NotInfo ==
    ASSUME hphase' # "ok" \/ client' # "info"
    PROVE  InfoTruthful'
  BY DEF InfoTruthful

LEMMA ExecInv == HttpInv /\ (Exec \/ ExecCut \/ ConnectFails) => HttpInv'
  <1> SUFFICES ASSUME HttpInv, Exec \/ ExecCut \/ ConnectFails PROVE HttpInv'
    OBVIOUS
  <1>1. /\ hphase = "request" /\ hphase' \in {"answer", "fail"}
        /\ UNCHANGED <<client, server, url, hops, visited, body>>
    BY DEF Exec, ExecCut, ConnectFails
  <1>2. AnswerInv'
    <2>1. CASE Exec
      <3>1. /\ headers' = AnswerOf(url) /\ status' = headers'.status
            /\ hphase' = "answer" /\ UNCHANGED <<client, server, url>>
        BY <2>1 DEF Exec
      <3>2. AnswerOf(url)' = AnswerOf(url)
        BY <3>1 DEF AnswerOf
      <3> QED
        BY <3>1, <3>2 DEF HttpInv, AnswerInv
    <2>2. CASE ExecCut
      BY <1>1, <2>2 DEF ExecCut, HttpInv, AnswerInv, Inconclusive
    <2>3. CASE ConnectFails
      BY <1>1, <2>3, AnswerSame DEF ConnectFails
    <2> QED
      BY <2>1, <2>2, <2>3
  <1> QED
    BY <1>1, <1>2, VisitedSame, BodySame, FetchSame, NotInfo DEF HttpInv

LEMMA RedirectFailsInv == HttpInv /\ (RedirectNowhere \/ RedirectToFtp) => HttpInv'
  <1> SUFFICES ASSUME HttpInv, RedirectNowhere \/ RedirectToFtp PROVE HttpInv'
    OBVIOUS
  <1>1. hphase' \in {"fail", "ftp"} /\ UNCHANGED <<client, server, hops, visited, body>>
    BY DEF RedirectNowhere, RedirectToFtp
  <1> QED
    BY <1>1, AnswerSame, VisitedSame, BodySame, FetchSame, NotInfo DEF HttpInv

(* A URL is added to visited by a redirect that was counted and not too many. *)
LEMMA FollowInv == HttpInv /\ Follow => HttpInv'
  <1> SUFFICES ASSUME HttpInv, Follow PROVE HttpInv'
    OBVIOUS
  <1>1. /\ hphase' \in {"fail", "request"} /\ UNCHANGED <<client, server, body>>
        /\ hops' = hops + 1 /\ status \div 100 = 3
    BY DEF Follow, Counted, Redirected
  <1>2. AnswerInv'
    BY <1>1 DEF Follow, HttpInv, AnswerInv, Inconclusive
  <1>3. VisitedInv'
    <2>1. /\ hops \in Nat /\ IsFiniteSet(visited)
          /\ Cardinality(visited) <= hops /\ Cardinality(visited) <= MaxRedirect
          /\ client # "info" => visited = {}
      BY DEF HttpInv, VisitedInv
    <2>2. Cardinality(visited) \in Nat
      BY <2>1, FS_CardinalityType
    <2>3. CASE UNCHANGED visited
      BY <1>1, <2>1, <2>2, <2>3 DEF VisitedInv
    <2>4. CASE ~TooMany /\ client = "info" /\ visited' = visited \cup {NextUrl}
      <3>1. IsFiniteSet(visited') /\ Cardinality(visited') <= Cardinality(visited) + 1
        BY <2>1, <2>2, <2>4, FS_AddElement
      <3>2. hops + 1 < MaxRedirect
        BY <2>1, <2>4, HttpAssumption DEF TooMany, Counted
      <3>3. Cardinality(visited') \in Nat
        BY <3>1, FS_CardinalityType
      <3>4. Cardinality(visited') <= hops' /\ Cardinality(visited') <= MaxRedirect
        BY <1>1, <2>1, <2>2, <3>1, <3>2, <3>3, HttpAssumption
      <3> QED
        BY <1>1, <2>1, <2>4, <3>1, <3>4 DEF VisitedInv
    <2> QED
      BY <2>3, <2>4 DEF Follow
  <1> QED
    BY <1>1, <1>2, <1>3, BodySame, FetchSame, NotInfo DEF HttpInv

(* The answer that conn_info reads is that for its URL, as it is no redirect. *)
LEMMA InfoAnswerInv == HttpInv /\ InfoAnswer => HttpInv'
  <1> SUFFICES ASSUME HttpInv, InfoAnswer PROVE HttpInv'
    OBVIOUS
  <1>1. /\ hphase = "answer" /\ client = "info" /\ ~(status \div 100 = 3)
        /\ hphase' \in {"ok", "fail"}
        /\ UNCHANGED <<client, server, url, status, headers, hops, visited, body>>
    BY DEF InfoAnswer, Redirected
  <1>2. ASSUME hphase' = "ok", status # 416
        PROVE  size' \in {server[url].holds, Unknown} /\ (supported' => server[url].ranges)
    <2>1. /\ Success /\ ~Unexpected
          /\ size' = (IF Reported <= 0 THEN Unknown ELSE Reported)
          /\ supported' = (Partial /\ Reported > 0)
      BY <1>2 DEF InfoAnswer, Acceptable
    <2>2. status \div 100 = 2
      BY <2>1 DEF Success
    <2>3. headers = AnswerOf(url) /\ status = headers.status /\ server \in Servers
      BY <1>1, <2>2 DEF HttpInv, AnswerInv, Inconclusive
    <2>4. url \in DOMAIN server /\ headers = server[url].answer
      BY <1>1, <2>2, <2>3 DEF AnswerOf, NoHeaders
    <2>5. Honest(server[url])
      BY <2>3, <2>4, ServersAssumption
    <2>6. /\ headers.length \in Int /\ headers.range \in Int
          /\ headers.length > 0 => headers.length = server[url].holds
          /\ headers.range > 0 => headers.range = server[url].holds
          /\ status = 206 \/ headers.range > 0 => server[url].ranges
      BY <2>2, <2>3, <2>4, <2>5 DEF Honest
    <2>7. size' \in {server[url].holds, Unknown}
      BY <2>1, <2>6 DEF Reported, Larger
    <2>8. supported' => server[url].ranges
      BY <2>1, <2>6 DEF Partial
    <2> QED
      BY <2>7, <2>8
  <1>3. InfoTruthful'
    BY <1>1, <1>2 DEF InfoTruthful
  <1> QED
    BY <1>1, <1>3, AnswerSame, VisitedSame, BodySame, FetchSame DEF HttpInv

LEMMA ProbeAnswerInv == HttpInv /\ ProbeAnswer => HttpInv'
  <1> SUFFICES ASSUME HttpInv, ProbeAnswer PROVE HttpInv'
    OBVIOUS
  <1>1. /\ client = "probe" /\ hphase' \in {"ok", "fail"}
        /\ UNCHANGED <<client, server, hops, visited, body>>
    BY DEF ProbeAnswer
  <1> QED
    BY <1>1, AnswerSame, VisitedSame, BodySame, FetchSame, NotInfo DEF HttpInv

LEMMA FetchAnswerInv == HttpInv /\ FetchAnswer => HttpInv'
  <1> SUFFICES ASSUME HttpInv, FetchAnswer PROVE HttpInv'
    OBVIOUS
  <1>1. client = "fetch" /\ UNCHANGED <<client, server, hops, visited>>
    BY DEF FetchAnswer
  <1>2. BodyInv'
    <2>1. CASE hphase' = "fail"
      BY <2>1 DEF BodyInv
    <2>2. CASE \E n \in 0..(MaxBody + 1) : body' = [len |-> 0, cap |-> 2 * ReadSize, left |-> n]
      BY <2>2, HttpAssumption DEF BodyInv, Larger
    <2> QED
      BY <2>1, <2>2 DEF FetchAnswer
  <1> QED
    BY <1>1, <1>2, AnswerSame, VisitedSame, FetchSame, NotInfo DEF HttpInv

LEMMA CapacityFits ==
    ASSUME BodyInv, client = "fetch", hphase = "body", NEW cap \in Capacities
    PROVE  cap \in Nat /\ cap <= Larger(2 * ReadSize, MaxBody)
  <1>1. body \in [len : Nat, cap : Nat, left : Nat] /\ body.cap <= Larger(2 * ReadSize, MaxBody)
    BY DEF BodyInv
  <1>2. CASE cap = body.cap
    BY <1>1, <1>2
  <1>3. CASE \E c \in Doubled(body.cap, Needed) : cap = Least(c, MaxBody)
    <2>1. PICK c \in Doubled(body.cap, Needed) : cap = Least(c, MaxBody)
      BY <1>3
    <2>2. Needed \in Nat
      BY <1>1, HttpAssumption DEF Needed
    <2>3. c \in Nat
      BY <2>1, <2>2 DEF Doubled
    <2> QED
      BY <2>1, <2>3, HttpAssumption DEF Least, Larger
  <1> QED
    BY <1>2, <1>3 DEF Capacities

LEMMA ReadInv == HttpInv /\ (ReadBody \/ BodyEnds \/ BodyFails) => HttpInv'
  <1> SUFFICES ASSUME HttpInv, ReadBody \/ BodyEnds \/ BodyFails PROVE HttpInv'
    OBVIOUS
  <1>1. /\ hphase = "body" /\ hphase' \in {"body", "ok", "fail"}
        /\ UNCHANGED <<client, server, url, status, hops, visited, size, supported>>
    BY DEF ReadBody, BodyEnds, BodyFails
  <1>2. BodyInv'
    <2>1. CASE client # "fetch"
      BY <1>1, <2>1 DEF BodyInv
    <2>2. CASE client = "fetch"
      <3>1. BodyInv /\ body \in [len : Nat, cap : Nat, left : Nat]
        BY <1>1, <2>2 DEF HttpInv, BodyInv
      <3>2. \A cap \in Capacities : cap \in Nat /\ cap <= Larger(2 * ReadSize, MaxBody)
        BY <1>1, <2>2, <3>1, CapacityFits
      <3>3. CASE ReadBody
        <4>1. PICK cap \in Capacities, n \in 1..Least(ReadSize, body.left) :
                /\ cap >= Needed
                /\ body' = [len |-> body.len + n, cap |-> cap, left |-> body.left - n]
          BY <3>3 DEF ReadBody
        <4>2. n \in Nat /\ n <= ReadSize /\ n <= body.left
          BY <3>1, HttpAssumption DEF Least
        <4>3. cap \in Nat /\ cap <= Larger(2 * ReadSize, MaxBody)
          BY <3>2
        <4>4. body.len + n \in Nat /\ body.left - n \in Nat /\ body.len + n < cap
          BY <3>1, <4>1, <4>2, <4>3, HttpAssumption DEF Needed
        <4> QED
          BY <4>1, <4>3, <4>4 DEF BodyInv
      <3>4. CASE BodyEnds
        <4>1. PICK cap \in Capacities : cap >= Needed /\ body' = [body EXCEPT !.cap = cap]
          BY <3>4 DEF BodyEnds
        <4>2. cap \in Nat /\ cap <= Larger(2 * ReadSize, MaxBody)
          BY <3>2
        <4>3. body.len < cap
          BY <3>1, <4>1, <4>2, HttpAssumption DEF Needed
        <4> QED
          BY <3>1, <4>1, <4>2, <4>3 DEF BodyInv
      <3>5. CASE BodyFails
        BY <3>5 DEF BodyFails, BodyInv
      <3> QED
        BY <3>3, <3>4, <3>5
    <2> QED
      BY <2>1, <2>2
  <1>3. InfoTruthful'
    BY <1>1 DEF HttpInv, FetchInv, InfoTruthful
  <1> QED
    BY <1>1, <1>2, <1>3, AnswerSame, VisitedSame, FetchSame DEF HttpInv

LEMMA HttpStep == HttpInv /\ HttpNext => HttpInv'
  BY ExecInv, RedirectFailsInv, FollowInv, InfoAnswerInv, ProbeAnswerInv, FetchAnswerInv, ReadInv
  DEF HttpNext

LEMMA HttpTruth == HttpInv => InfoTruthful /\ BuffersFit
  BY DEF HttpInv, VisitedInv, BodyInv, BuffersFit

-----------------------------------------------------------------------------
LEMMA NetInitInv == NetInit => NetInv
  BY FtpInitInv, HttpInitInv DEF NetInit, NetInv

(* HTTP and FTP share no state. *)
LEMMA NetStep == NetInv /\ [NetNext]_netvars => NetInv'
  <1> SUFFICES ASSUME NetInv, [NetNext]_netvars PROVE NetInv'
    OBVIOUS
  <1>1. UNCHANGED ftpvars => FtpInv'
    <2>1. FtpInv
      BY DEF NetInv
    <2> QED
      BY <2>1
      DEF FtpInv, LoginInv, TestInv, SizeInv, ListInv, DataInv, Trusted, Behind, Shown, ftpvars
  <1>2. UNCHANGED httpvars => HttpInv'
    <2>1. HttpInv
      BY DEF NetInv
    <2>2. CASE UNCHANGED httpvars
      <3>1. AnswerOf(url)' = AnswerOf(url)
        BY <2>2 DEF AnswerOf, httpvars
      <3>2. AnswerInv'
        BY <2>1, <2>2, <3>1 DEF HttpInv, AnswerInv, Inconclusive, httpvars
      <3>3. InfoTruthful' /\ VisitedInv' /\ FetchInv' /\ BodyInv'
        BY <2>1, <2>2 DEF HttpInv, InfoTruthful, VisitedInv, FetchInv, BodyInv, httpvars
      <3> QED
        BY <3>2, <3>3 DEF HttpInv
    <2> QED
      BY <2>2
  <1>3. CASE Http
    BY <1>1, <1>3, HttpStep DEF Http, NetInv
  <1>4. CASE Ftp
    BY <1>2, <1>4, FtpStep DEF Ftp, NetInv
  <1>5. CASE UNCHANGED netvars
    BY <1>1, <1>2, <1>5 DEF netvars, NetInv
  <1> QED
    BY <1>3, <1>4, <1>5 DEF NetNext

LEMMA NetTruth == NetSpec => []NetInv
  BY NetInitInv, NetStep, PTL DEF NetSpec

(* The size and the support of REST that flux_new reports of a file on an  *)
(* FTP server are those of the file the links lead to, whatever replies    *)
(* came too late (conn.c, ftp.c).                                          *)
THEOREM NetFtpInfoTruthful == NetSpec => []FtpInfoTruthful
  <1>1. NetInv => FtpInfoTruthful
    BY FtpTruth DEF NetInv
  <1> QED
    BY <1>1, NetTruth, PTL

(* A thread that gets its data from an FTP server gets it from its         *)
(* currentbyte on: RETR is not sent before that offset was accepted.       *)
THEOREM NetFtpOffsetRight == NetSpec => []FtpOffsetRight
  <1>1. NetInv => FtpOffsetRight
    BY FtpTruth DEF NetInv
  <1> QED
    BY <1>1, NetTruth, PTL

(* The size and the support of ranges that conn_info reports over HTTP are *)
(* those of the file that the last redirect leads to (conn.c).             *)
THEOREM NetInfoTruthful == NetSpec => []InfoTruthful
  <1>1. NetInv => InfoTruthful
    BY HttpTruth DEF NetInv
  <1> QED
    BY <1>1, NetTruth, PTL

(* http_fetch_read_body never writes behind its buffer nor lets it grow    *)
(* over max_body, and conn_info never remembers more URLs than urlseq has  *)
(* place for.                                                              *)
THEOREM NetBuffersFit == NetSpec => []BuffersFit
  <1>1. NetInv => BuffersFit
    BY HttpTruth DEF NetInv
  <1> QED
    BY <1>1, NetTruth, PTL

-----------------------------------------------------------------------------
(***************************************************************************)
(* hls_download                                                            *)
(***************************************************************************)

(* What a part file holds once hls_fetch_segment has returned 0. *)
Received == {"whole", "short"}

(* Only the two pool phases have workers that are still working. *)
Pooling == pc \in {"spawn", "wait"}

(* Threads are created in order; until the pool drains, an exit without a     *)
(* failure means that the index is at the end.                                *)
PoolInv ==
    /\ \A w \in Workers : w > started => worker[w].at = "none"
    /\ \A w \in Workers : w <= started => worker[w].at # "none"
    /\ \A w \in Workers : Busy(w) => Pooling
    /\ \A w \in Workers : worker[w].at = "idle" => Pooling
    /\ pc = "wait" => started > 0
    /\ pc \in {"start", "audio"} => kind = "video"
    /\ pc \in {"start", "spawn", "wait", "open", "join"} /\ failed => Pooling
    /\ \A w \in Workers : worker[w].at = "exited" /\ ~failed => next = Segments[kind] \/ ~Pooling

(* A claimed job is done, or in a worker's hands, or the pool has failed. *)
JobInv ==
    (Pooling \/ pc \in {"open", "join"}) =>
        /\ \A i \in ok : i < next /\ part[i] \in Received
        /\ \A i \in Jobs : i < next => \/ i \in ok
                                       \/ failed
                                       \/ \E w \in Workers : Busy(w) /\ worker[w].job = i

(* The first n segments, in order, each received. *)
Good(parts, n) ==
    /\ Len(parts) = n
    /\ \A i \in 1..n : parts[i].seg = i - 1 /\ parts[i].got \in Received

(* A join starts from a pool that did everything, and each later stage relies *)
(* on the joined file that the stage before it left whole.                    *)
JoinInv ==
    /\ pc \in {"open", "join"} => ok = Jobs /\ ~failed
    /\ pc = "join" => cursor <= Segments[kind] /\ Good(joined[kind].parts, cursor)
    /\ (pc = "unlink" /\ ~failed) => Good(joined[kind].parts, Segments[kind])
    /\ (kind = "audio" \/ pc \in {"audio", "mux", "move"}) /\ pc \notin {"cleanup", "done"}
          => Good(joined["video"].parts, Segments["video"])
    /\ (pc = "mux" /\ HaveAudio) => Good(joined["audio"].parts, Segments["audio"])

(* How the download ends. *)
EndInv ==
    /\ OutputWhole
    /\ ret = 0 => pc \in {"cleanup", "done"}
    /\ pc \in {"start", "done"} => ~tmpdir

(* The inductive invariant. *)
IInv ==
    /\ TypeOK
    /\ ClaimedOnce
    /\ PoolInv
    /\ JobInv
    /\ JoinInv
    /\ EndInv

(* Every playlist has a segment, and a pool at least one thread. *)
LEMMA Sizes ==
    ASSUME TypeOK
    PROVE  /\ Segments[kind] \in Nat /\ Segments[kind] > 0
           /\ Segments["video"] \in Nat /\ Segments["audio"] \in Nat
           /\ Concurrency \in Nat /\ Concurrency > 0
           /\ Threads \in 1..Concurrency
  <1>1. Segments["video"] \in Nat \ {0} /\ Segments["audio"] \in Nat \ {0}
    BY HlsAssumption
  <1>2. Segments[kind] \in Nat \ {0}
    BY <1>1 DEF TypeOK
  <1>3. Concurrency \in Nat /\ Concurrency > 0
    BY HlsAssumption
  <1> QED
    BY <1>1, <1>2, <1>3 DEF Threads

(* Nothing has been started when the playlist is refused. *)
LEMMA RefusedKeeps ==
    ASSUME IInv, Refused
    PROVE  IInv'
  <1>1. TypeOK'
    BY HlsAssumption DEF IInv, Refused, TypeOK, Fault, pool, files, Workers,
           WorkerRecords, Jobs, PartStates, NoPart
  <1>2. ClaimedOnce'
    BY HlsAssumption DEF IInv, Refused, ClaimedOnce, TypeOK, PoolInv, Fault,
           pool, files, Workers, Busy, Jobs, NoPart, PartStates, Pooling
  <1>3. PoolInv'
    BY HlsAssumption DEF IInv, Refused, PoolInv, TypeOK, Fault, pool, files,
           Workers, Busy, Pooling, Jobs, PartStates, NoPart
  <1>4. JobInv'
    BY HlsAssumption DEF IInv, Refused, JobInv, TypeOK, PoolInv, ClaimedOnce,
           Fault, pool, files, Pooling, Received, Jobs, Workers, Busy,
           PartStates, NoPart
  <1>5. JoinInv'
    BY HlsAssumption DEF IInv, Refused, JoinInv, TypeOK, PoolInv, JobInv,
           Fault, pool, files, Jobs, Good, HaveAudio, Workers, PartStates,
           TsFiles, Busy, Pooling, Received, NoPart
  <1>6. EndInv'
    BY HlsAssumption DEF IInv, Refused, EndInv, JoinInv, PoolInv, TypeOK,
           Fault, pool, files, OutputWhole, Jobs, Good, HaveAudio, Workers,
           Busy, Pooling, PartStates, Whole, Received, NoPart
  <1> QED
    BY <1>1, <1>2, <1>3, <1>4, <1>5, <1>6 DEF IInv

(* The video's pool begins with no job claimed. *)
LEMMA BeginKeeps ==
    ASSUME IInv, Begin
    PROVE  IInv'
  <1>1. TypeOK'
    <2>1. kind' = "video" /\ NewPool("video")
      BY DEF Begin, NewPool
    <2>2. worker' \in [Workers -> WorkerRecords]
      BY <2>1 DEF NewPool, Resting, WorkerRecords
    <2>3. part' \in [Jobs' -> PartStates] /\ ok' = {}
      BY <2>1 DEF NewPool, Unfetched, Jobs, PartStates
    <2>4. started' = 0 /\ next' = 0 /\ failed' = FALSE
      BY <2>1 DEF NewPool
    <2>5. started' \in 0..Concurrency /\ next' \in 0..Segments[kind']
      BY <2>1, <2>4, Sizes DEF IInv
    <2> QED
      BY <2>1, <2>2, <2>3, <2>4, <2>5 DEF IInv, TypeOK, Begin, NewPool, NoFault
  <1>2. ClaimedOnce'
    BY HlsAssumption DEF IInv, Begin, ClaimedOnce, TypeOK, PoolInv, NewPool,
           NoFault, Workers, Busy, Jobs, NoPart, PartStates, Pooling, Resting,
           Unfetched
  <1>3. PoolInv'
    BY HlsAssumption DEF IInv, Begin, PoolInv, TypeOK, NewPool, NoFault,
           Workers, Busy, Pooling, Jobs, PartStates, Resting, Unfetched,
           NoPart
  <1>4. JobInv'
    BY HlsAssumption DEF IInv, Begin, JobInv, TypeOK, PoolInv, ClaimedOnce,
           NewPool, NoFault, Pooling, Received, Jobs, Workers, Busy,
           PartStates, NoPart, Resting, Unfetched
  <1>5. JoinInv'
    BY HlsAssumption DEF IInv, Begin, JoinInv, TypeOK, PoolInv, JobInv,
           NewPool, NoFault, Jobs, Good, HaveAudio, Workers, PartStates,
           TsFiles, Busy, Pooling, Received, Resting, Unfetched, NoPart
  <1>6. EndInv'
    BY HlsAssumption DEF IInv, Begin, EndInv, JoinInv, PoolInv, TypeOK,
           NewPool, NoFault, OutputWhole, Jobs, Good, HaveAudio, Workers,
           Busy, Pooling, PartStates, Resting, Unfetched, Whole, Received,
           NoPart
  <1> QED
    BY <1>1, <1>2, <1>3, <1>4, <1>5, <1>6 DEF IInv

(* The thread created was not working, so no claim changes. *)
LEMMA CreateWorkerKeeps ==
    ASSUME IInv, CreateWorker
    PROVE  IInv'
  <1>1. TypeOK'
    <2>1. started + 1 \in Workers
      BY Sizes DEF IInv, TypeOK, CreateWorker, Workers
    <2>2. worker' \in [Workers -> WorkerRecords]
      BY <2>1 DEF IInv, TypeOK, CreateWorker, WorkerRecords
    <2>3. started' \in 0..Concurrency
      BY <2>1 DEF CreateWorker, Workers
    <2> QED
      BY <2>2, <2>3 DEF IInv, TypeOK, CreateWorker, NoFault, files, Jobs, Workers
  <1>2. ClaimedOnce'
    BY HlsAssumption DEF IInv, CreateWorker, ClaimedOnce, TypeOK, PoolInv,
           Threads, NoFault, files, Workers, Busy, Jobs, NoPart, PartStates,
           Pooling
  <1>3. PoolInv'
    <2>1. started \in Nat /\ started + 1 \in Workers /\ Pooling /\ Pooling'
      BY Sizes DEF IInv, TypeOK, CreateWorker, Workers, Pooling
    <2>2. /\ worker'[started + 1].at = "idle"
          /\ \A w \in Workers : w # started + 1 => worker'[w] = worker[w]
      BY <2>1 DEF IInv, TypeOK, CreateWorker, WorkerRecords
    <2>3. /\ \A w \in Workers : w > started' => worker'[w].at = "none"
          /\ \A w \in Workers : w <= started' => worker'[w].at # "none"
      BY <2>1, <2>2 DEF IInv, PoolInv, CreateWorker, Workers
    <2>4. \A w \in Workers : worker'[w].at = "exited" /\ ~failed' => next' = Segments[kind]'
      BY <2>1, <2>2 DEF IInv, PoolInv, CreateWorker, Pooling
    <2>5. pc' \in {"spawn", "wait"} /\ started' > 0 /\ Workers' = Workers
      BY <2>1 DEF CreateWorker, Workers
    <2> QED
      BY <2>1, <2>3, <2>4, <2>5 DEF PoolInv
  <1>4. JobInv'
    <2>1. started + 1 \in Workers /\ worker[started + 1].at = "none"
      BY Sizes DEF IInv, TypeOK, PoolInv, CreateWorker, Workers
    <2>2. /\ \A w \in Workers : Busy(w)' <=> Busy(w)
          /\ \A w \in Workers : worker'[w].job = worker[w].job
      BY <2>1 DEF IInv, TypeOK, CreateWorker, WorkerRecords, Busy
    <2>3. Pooling /\ JobInv
      BY DEF IInv, CreateWorker, Pooling
    <2> QED
      BY <2>2, <2>3 DEF JobInv, CreateWorker, files, Jobs
  <1>5. JoinInv'
    BY HlsAssumption DEF IInv, CreateWorker, JoinInv, TypeOK, PoolInv, JobInv,
           Threads, NoFault, files, Jobs, Good, HaveAudio, Workers,
           PartStates, TsFiles, Busy, Pooling, Received, NoPart
  <1>6. EndInv'
    BY HlsAssumption DEF IInv, CreateWorker, EndInv, JoinInv, PoolInv, TypeOK,
           Threads, NoFault, files, OutputWhole, Jobs, Good, HaveAudio,
           Workers, Busy, Pooling, PartStates, Whole, Received, NoPart
  <1> QED
    BY <1>1, <1>2, <1>3, <1>4, <1>5, <1>6 DEF IInv

(* The pool goes on with at least one thread, which has claimed nothing. *)
LEMMA CreateFailsKeeps ==
    ASSUME IInv, CreateFails
    PROVE  IInv'
  <1>0. \A w \in Workers : (Busy(w)' <=> Busy(w)) /\ worker'[w].job = worker[w].job
    <2>1. CASE started = 0
      <3>1. 1 \in Workers /\ worker[1].at = "none"
        BY <2>1, Sizes DEF IInv, PoolInv, Workers
      <3> QED
        BY <2>1, <3>1 DEF IInv, TypeOK, CreateFails, WorkerRecords, Busy
    <2>2. CASE started # 0
      BY <2>2 DEF CreateFails, Busy
    <2> QED
      BY <2>1, <2>2
  <1>1. TypeOK'
    <2>1. 1 \in Workers
      BY Sizes DEF IInv, Workers
    <2>2. started' \in 0..Concurrency
      BY Sizes DEF IInv, TypeOK, CreateFails
    <2>3. worker' \in [Workers -> WorkerRecords]
      BY <2>1 DEF IInv, TypeOK, CreateFails, WorkerRecords
    <2>4. faults' \in 0..MaxFaults
      BY HlsAssumption DEF IInv, TypeOK, CreateFails, Fault
    <2> QED
      BY <2>2, <2>3, <2>4 DEF IInv, TypeOK, CreateFails, files, Jobs, Workers
  <1>2. ClaimedOnce'
    <2>1. \A w \in Workers : (Busy(w)' <=> Busy(w)) /\ worker'[w].job = worker[w].job
      BY <1>0
    <2> QED
      BY <2>1 DEF IInv, ClaimedOnce, CreateFails, files, Jobs
  <1>3. PoolInv'
    <2>1. Pooling /\ Pooling' /\ pc = "spawn" /\ pc' = "wait"
      BY DEF CreateFails, Pooling
    <2>2. UNCHANGED <<kind, next, failed>>
      BY DEF CreateFails
    <2>3. CASE started = 0
      <3>1. started' = 1 /\ worker' = [worker EXCEPT ![1].at = "idle"] /\ 1 \in Workers
        BY <2>3, Sizes DEF IInv, CreateFails, Workers
      <3>2. /\ worker'[1].at = "idle"
            /\ \A w \in Workers : w # 1 => worker'[w] = worker[w]
        BY <3>1 DEF IInv, TypeOK, WorkerRecords
      <3>3. /\ \A w \in Workers : w > started' => worker'[w].at = "none"
            /\ \A w \in Workers : w <= started' => worker'[w].at # "none"
            /\ started' > 0
        BY <2>3, <3>1, <3>2 DEF IInv, PoolInv, Workers
      <3>4. \A w \in Workers : worker'[w].at = "exited" /\ ~failed' => next' = Segments[kind]'
        BY <2>1, <2>2, <3>2 DEF IInv, PoolInv
      <3> QED
        BY <2>1, <3>3, <3>4 DEF PoolInv
    <2>4. CASE started # 0
      <3>1. UNCHANGED <<started, worker>> /\ started > 0
        BY <2>4 DEF IInv, TypeOK, CreateFails
      <3> QED
        BY <2>1, <2>2, <3>1 DEF IInv, PoolInv, Busy
    <2> QED
      BY <2>3, <2>4
  <1>4. JobInv'
    <2>1. \A w \in Workers : (Busy(w)' <=> Busy(w)) /\ worker'[w].job = worker[w].job
      BY <1>0
    <2> QED
      BY <2>1 DEF IInv, JobInv, CreateFails, Pooling, files, Jobs
  <1>5. JoinInv'
    BY HlsAssumption DEF IInv, CreateFails, JoinInv, TypeOK, PoolInv, JobInv,
           Threads, Fault, files, Jobs, Good, HaveAudio, Workers, PartStates,
           TsFiles, Busy, Pooling, Received, NoPart
  <1>6. EndInv'
    BY HlsAssumption DEF IInv, CreateFails, EndInv, JoinInv, PoolInv, TypeOK,
           Threads, Fault, files, OutputWhole, Jobs, Good, HaveAudio, Workers,
           Busy, Pooling, PartStates, Whole, Received, NoPart
  <1> QED
    BY <1>1, <1>2, <1>3, <1>4, <1>5, <1>6 DEF IInv

(* With every thread exited and none failed, every job has been done. *)
LEMMA PoolDoneKeeps ==
    ASSUME IInv, PoolDone
    PROVE  IInv'
  <1>1. TypeOK'
    BY HlsAssumption DEF IInv, PoolDone, TypeOK, Finished, NoFault, pool,
           files, Workers, WorkerRecords, Jobs, PartStates, NoPart
  <1>2. ClaimedOnce'
    BY HlsAssumption DEF IInv, PoolDone, ClaimedOnce, TypeOK, PoolInv,
           Finished, NoFault, pool, files, Workers, Busy, Jobs, NoPart,
           PartStates, Pooling
  <1>3. PoolInv'
    BY HlsAssumption DEF IInv, PoolDone, PoolInv, TypeOK, Finished, NoFault,
           pool, files, Workers, Busy, Pooling, Jobs, PartStates, NoPart
  <1>4. JobInv'
    BY HlsAssumption DEF IInv, PoolDone, JobInv, TypeOK, PoolInv, ClaimedOnce,
           Finished, NoFault, pool, files, Pooling, Received, Jobs, Workers,
           Busy, PartStates, NoPart
  <1>5. JoinInv'
    <2>1. CASE failed
      BY <2>1 DEF IInv, JoinInv, PoolDone, Good, HaveAudio, files, pool
    <2>2. CASE ~failed
      <3>1. 1 \in Workers /\ 1 <= started
        BY Sizes DEF IInv, TypeOK, PoolInv, PoolDone, Workers
      <3>2. \A w \in 1..started : worker[w].at = "exited"
        BY DEF PoolDone, Finished
      <3>3. next = Segments[kind]
        BY <2>2, <3>1, <3>2 DEF IInv, TypeOK, PoolInv, PoolDone, Pooling
      <3>4. \A w \in Workers : ~Busy(w)
        BY <3>2 DEF IInv, TypeOK, PoolInv, Busy, Workers
      <3>5. ok = Jobs
        <4>1. \A i \in Jobs : i < next
          BY <3>3, Sizes DEF IInv, Jobs
        <4>2. \A i \in Jobs : i < next => i \in ok
          BY <2>2, <3>4 DEF IInv, JobInv, PoolDone, Pooling
        <4> QED
          BY <4>1, <4>2 DEF IInv, TypeOK
      <3>6. pc' = "open" /\ UNCHANGED <<kind, failed, ok, joined>>
        BY <2>2 DEF PoolDone, pool, files
      <3> QED
        BY <2>2, <3>5, <3>6 DEF IInv, JoinInv, Jobs, Good, HaveAudio, PoolDone, pool, files
    <2> QED
      BY <2>1, <2>2
  <1>6. EndInv'
    BY HlsAssumption DEF IInv, PoolDone, EndInv, JoinInv, PoolInv, TypeOK,
           Finished, NoFault, pool, files, OutputWhole, Jobs, Good, HaveAudio,
           Workers, Busy, Pooling, PartStates, Whole, Received, NoPart
  <1> QED
    BY <1>1, <1>2, <1>3, <1>4, <1>5, <1>6 DEF IInv

(* The joined file begins empty. *)
LEMMA JoinOpenKeeps ==
    ASSUME IInv, JoinOpen
    PROVE  IInv'
  <1>1. TypeOK'
    <2>1. File(<<>>) \in TsFiles
      BY DEF File, TsFiles
    <2>2. joined' \in [{"video", "audio"} -> TsFiles]
      BY <2>1 DEF IInv, TypeOK, JoinOpen
    <2> QED
      BY <2>2 DEF IInv, TypeOK, JoinOpen, NoFault, pool, Jobs, Workers
  <1>2. ClaimedOnce'
    BY HlsAssumption DEF IInv, JoinOpen, ClaimedOnce, TypeOK, PoolInv, File,
           NoFault, pool, Workers, Busy, Jobs, NoPart, PartStates, Pooling
  <1>3. PoolInv'
    BY HlsAssumption DEF IInv, JoinOpen, PoolInv, TypeOK, File, NoFault, pool,
           Workers, Busy, Pooling, Jobs, PartStates, NoPart
  <1>4. JobInv'
    BY HlsAssumption DEF IInv, JoinOpen, JobInv, TypeOK, PoolInv, ClaimedOnce,
           File, NoFault, pool, Pooling, Received, Jobs, Workers, Busy,
           PartStates, NoPart
  <1>5. JoinInv'
    BY HlsAssumption DEF IInv, JoinOpen, JoinInv, TypeOK, PoolInv, JobInv,
           File, NoFault, pool, Jobs, Good, HaveAudio, Workers, PartStates,
           TsFiles, Busy, Pooling, Received, NoPart
  <1>6. EndInv'
    BY HlsAssumption DEF IInv, JoinOpen, EndInv, JoinInv, PoolInv, TypeOK,
           File, NoFault, pool, OutputWhole, Jobs, Good, HaveAudio, Workers,
           Busy, Pooling, PartStates, Whole, Received, NoPart
  <1> QED
    BY <1>1, <1>2, <1>3, <1>4, <1>5, <1>6 DEF IInv

(* What is appended is the next part, received to its end. *)
LEMMA JoinPartKeeps ==
    ASSUME IInv, JoinPart
    PROVE  IInv'
  <1>1. TypeOK'
    <2> DEFINE Seg == [seg : Nat, got : PartStates]
               new == [seg |-> cursor, got |-> part[cursor]]
    <2>1. cursor \in Jobs /\ new \in Seg
      BY Sizes DEF IInv, TypeOK, JoinPart, Jobs
    <2>2. /\ joined \in [{"video", "audio"} -> TsFiles]
          /\ kind \in {"video", "audio"}
          /\ joined' = [joined EXCEPT ![kind].parts = Append(@, new)]
      BY DEF IInv, TypeOK, JoinPart
    <2>3. /\ joined[kind].exists \in BOOLEAN
          /\ joined[kind].parts \in Seq(Seg)
      BY <2>2 DEF TsFiles
    <2> HIDE DEF new, Seg
    <2>4. Append(joined[kind].parts, new) \in Seq(Seg)
      BY <2>1, <2>3
    <2>5. [joined[kind] EXCEPT !.parts = Append(@, new)] \in TsFiles
      BY <2>2, <2>3, <2>4 DEF TsFiles, Seg
    <2>6. joined' \in [{"video", "audio"} -> TsFiles]
      BY <2>2, <2>5
    <2> QED
      BY <2>6 DEF IInv, TypeOK, JoinPart, NoFault, pool, Jobs, Workers
  <1>2. ClaimedOnce'
    BY HlsAssumption DEF IInv, JoinPart, ClaimedOnce, TypeOK, PoolInv, NoPart,
           NoFault, pool, Workers, Busy, Jobs, PartStates, Pooling
  <1>3. PoolInv'
    BY HlsAssumption DEF IInv, JoinPart, PoolInv, TypeOK, NoPart, NoFault,
           pool, Workers, Busy, Pooling, Jobs, PartStates
  <1>4. JobInv'
    BY HlsAssumption DEF IInv, JoinPart, JobInv, TypeOK, PoolInv, ClaimedOnce,
           NoPart, NoFault, pool, Pooling, Received, Jobs, Workers, Busy,
           PartStates
  <1>5. JoinInv'
    <2> DEFINE Seg == [seg : Nat, got : PartStates]
               new == [seg |-> cursor, got |-> part[cursor]]
               old == joined[kind].parts
    <2>1. /\ joined' = [joined EXCEPT ![kind].parts = Append(@, new)]
          /\ pc = "join" /\ pc' = "join" /\ cursor' = cursor + 1
          /\ UNCHANGED <<kind, failed, ok, part>>
          /\ cursor \in Nat /\ cursor < Segments[kind]
      BY DEF IInv, TypeOK, JoinPart, pool
    <2>2. cursor \in Jobs /\ ok = Jobs /\ ~failed /\ part[cursor] \in Received
      BY <2>1, Sizes DEF IInv, Jobs, JoinInv, JobInv
    <2>3. /\ old \in Seq(Seg) /\ kind \in {"video", "audio"}
          /\ joined \in [{"video", "audio"} -> TsFiles]
      BY DEF IInv, TypeOK, TsFiles
    <2>4. joined'[kind].parts = Append(old, new) /\ \A k \in {"video", "audio"} \ {kind} : joined'[k] = joined[k]
      BY <2>1, <2>3 DEF TsFiles
    <2>5. Good(old, cursor)
      BY <2>1 DEF IInv, JoinInv
    <2>6. Good(Append(old, new), cursor + 1)
      <3>1. /\ Len(Append(old, new)) = cursor + 1
            /\ Append(old, new)[cursor + 1] = new
            /\ \A i \in 1..cursor : Append(old, new)[i] = old[i]
        BY <2>1, <2>3, <2>5 DEF Good
      <3>2. new.seg = cursor /\ new.got \in Received
        BY <2>2
      <3>3. \A i \in 1..cursor + 1 : i = cursor + 1 \/ i \in 1..cursor
        BY <2>1
      <3> HIDE DEF new, old
      <3> QED
        BY <2>1, <2>5, <3>1, <3>2, <3>3 DEF Good
    <2>7. kind = "audio" => Good(joined'["video"].parts, Segments["video"])
      BY <2>1, <2>4 DEF IInv, JoinInv
    <2> HIDE DEF new, old
    <2>8. Good(joined[kind].parts, cursor)'
      BY <2>1, <2>4, <2>6 DEF Good
    <2>9. cursor' <= Segments[kind]
      BY <2>1, Sizes DEF IInv
    <2>10. Good(joined["video"].parts, Segments["video"])' \/ kind # "audio"
      BY <2>7 DEF Good
    <2> QED
      BY <2>1, <2>2, <2>8, <2>9, <2>10 DEF JoinInv, Jobs
  <1>6. EndInv'
    BY HlsAssumption DEF IInv, JoinPart, EndInv, JoinInv, PoolInv, TypeOK,
           NoPart, NoFault, pool, OutputWhole, Jobs, Good, HaveAudio, Workers,
           Busy, Pooling, PartStates, Whole, Received
  <1> QED
    BY <1>1, <1>2, <1>3, <1>4, <1>5, <1>6 DEF IInv

(* The joined file has all the parts. *)
LEMMA JoinEndKeeps ==
    ASSUME IInv, JoinEnd
    PROVE  IInv'
  <1>1. TypeOK'
    BY HlsAssumption DEF IInv, JoinEnd, TypeOK, NoFault, pool, files, Workers,
           WorkerRecords, Jobs, PartStates, NoPart
  <1>2. ClaimedOnce'
    BY HlsAssumption DEF IInv, JoinEnd, ClaimedOnce, TypeOK, PoolInv, NoFault,
           pool, files, Workers, Busy, Jobs, NoPart, PartStates, Pooling
  <1>3. PoolInv'
    BY HlsAssumption DEF IInv, JoinEnd, PoolInv, TypeOK, NoFault, pool, files,
           Workers, Busy, Pooling, Jobs, PartStates, NoPart
  <1>4. JobInv'
    BY HlsAssumption DEF IInv, JoinEnd, JobInv, TypeOK, PoolInv, ClaimedOnce,
           NoFault, pool, files, Pooling, Received, Jobs, Workers, Busy,
           PartStates, NoPart
  <1>5. JoinInv'
    BY HlsAssumption DEF IInv, JoinEnd, JoinInv, TypeOK, PoolInv, JobInv,
           NoFault, pool, files, Jobs, Good, HaveAudio, Workers, PartStates,
           TsFiles, Busy, Pooling, Received, NoPart
  <1>6. EndInv'
    BY HlsAssumption DEF IInv, JoinEnd, EndInv, JoinInv, PoolInv, TypeOK,
           NoFault, pool, files, OutputWhole, Jobs, Good, HaveAudio, Workers,
           Busy, Pooling, PartStates, Whole, Received, NoPart
  <1> QED
    BY <1>1, <1>2, <1>3, <1>4, <1>5, <1>6 DEF IInv

(* A failed join is never taken for a joined file. *)
LEMMA JoinFailsKeeps ==
    ASSUME IInv, JoinFails
    PROVE  IInv'
  <1>1. TypeOK'
    BY HlsAssumption DEF IInv, JoinFails, TypeOK, Fault, NoPart, NoFault,
           files, Workers, WorkerRecords, Jobs, PartStates
  <1>2. ClaimedOnce'
    BY HlsAssumption DEF IInv, JoinFails, ClaimedOnce, TypeOK, PoolInv, Fault,
           NoPart, NoFault, files, Workers, Busy, Jobs, PartStates, Pooling
  <1>3. PoolInv'
    BY HlsAssumption DEF IInv, JoinFails, PoolInv, TypeOK, Fault, NoPart,
           NoFault, files, Workers, Busy, Pooling, Jobs, PartStates
  <1>4. JobInv'
    BY HlsAssumption DEF IInv, JoinFails, JobInv, TypeOK, PoolInv,
           ClaimedOnce, Fault, NoPart, NoFault, files, Pooling, Received,
           Jobs, Workers, Busy, PartStates
  <1>5. JoinInv'
    BY HlsAssumption DEF IInv, JoinFails, JoinInv, TypeOK, PoolInv, JobInv,
           Fault, NoPart, NoFault, files, Jobs, Good, HaveAudio, Workers,
           PartStates, TsFiles, Busy, Pooling, Received
  <1>6. EndInv'
    BY HlsAssumption DEF IInv, JoinFails, EndInv, JoinInv, PoolInv, TypeOK,
           Fault, NoPart, NoFault, files, OutputWhole, Jobs, Good, HaveAudio,
           Workers, Busy, Pooling, PartStates, Whole, Received
  <1> QED
    BY <1>1, <1>2, <1>3, <1>4, <1>5, <1>6 DEF IInv

(* The part files go only once they are joined, or given up. *)
LEMMA UnlinkKeeps ==
    ASSUME IInv, Unlink
    PROVE  IInv'
  <1>1. TypeOK'
    BY HlsAssumption DEF IInv, Unlink, TypeOK, Jobs, NoPart, WantAudio,
           NoFault, pool, Workers, WorkerRecords, PartStates, WantMp4
  <1>2. ClaimedOnce'
    BY HlsAssumption DEF IInv, Unlink, ClaimedOnce, TypeOK, PoolInv, Jobs,
           NoPart, WantAudio, NoFault, pool, Workers, Busy, PartStates,
           Pooling, WantMp4
  <1>3. PoolInv'
    BY HlsAssumption DEF IInv, Unlink, PoolInv, TypeOK, Jobs, NoPart,
           WantAudio, NoFault, pool, Workers, Busy, Pooling, PartStates,
           WantMp4
  <1>4. JobInv'
    BY HlsAssumption DEF IInv, Unlink, JobInv, TypeOK, PoolInv, ClaimedOnce,
           Jobs, NoPart, WantAudio, NoFault, pool, Pooling, Received, Workers,
           Busy, PartStates, WantMp4
  <1>5. JoinInv'
    BY HlsAssumption DEF IInv, Unlink, JoinInv, TypeOK, PoolInv, JobInv, Jobs,
           NoPart, WantAudio, NoFault, pool, Good, HaveAudio, Workers,
           PartStates, TsFiles, Busy, Pooling, Received, WantMp4
  <1>6. EndInv'
    BY HlsAssumption DEF IInv, Unlink, EndInv, JoinInv, PoolInv, TypeOK, Jobs,
           NoPart, WantAudio, NoFault, pool, OutputWhole, Good, HaveAudio,
           Workers, Busy, Pooling, PartStates, WantMp4, Whole, Received
  <1> QED
    BY <1>1, <1>2, <1>3, <1>4, <1>5, <1>6 DEF IInv

(* The audio's pool begins like the video's, whose joined file stays. *)
LEMMA AudioBeginKeeps ==
    ASSUME IInv, AudioBegin
    PROVE  IInv'
  <1>1. TypeOK'
    <2>1. kind' = "audio" /\ NewPool("audio")
      BY DEF AudioBegin, NewPool
    <2>2. worker' \in [Workers -> WorkerRecords]
      BY <2>1 DEF NewPool, Resting, WorkerRecords
    <2>3. part' \in [Jobs' -> PartStates] /\ ok' = {}
      BY <2>1 DEF NewPool, Unfetched, Jobs, PartStates
    <2>4. started' = 0 /\ next' = 0 /\ failed' = FALSE
      BY <2>1 DEF NewPool
    <2>5. started' \in 0..Concurrency /\ next' \in 0..Segments[kind']
      BY <2>1, <2>4, Sizes DEF IInv
    <2> QED
      BY <2>1, <2>2, <2>3, <2>4, <2>5 DEF IInv, TypeOK, AudioBegin, NewPool, NoFault
  <1>2. ClaimedOnce'
    BY HlsAssumption DEF IInv, AudioBegin, ClaimedOnce, TypeOK, PoolInv,
           NewPool, NoFault, Workers, Busy, Jobs, NoPart, PartStates, Pooling,
           Resting, Unfetched
  <1>3. PoolInv'
    BY HlsAssumption DEF IInv, AudioBegin, PoolInv, TypeOK, NewPool, NoFault,
           Workers, Busy, Pooling, Jobs, PartStates, Resting, Unfetched,
           NoPart
  <1>4. JobInv'
    BY HlsAssumption DEF IInv, AudioBegin, JobInv, TypeOK, PoolInv,
           ClaimedOnce, NewPool, NoFault, Pooling, Received, Jobs, Workers,
           Busy, PartStates, NoPart, Resting, Unfetched
  <1>5. JoinInv'
    BY HlsAssumption DEF IInv, AudioBegin, JoinInv, TypeOK, PoolInv, JobInv,
           NewPool, NoFault, Jobs, Good, HaveAudio, Workers, PartStates,
           TsFiles, Busy, Pooling, Received, Resting, Unfetched, NoPart
  <1>6. EndInv'
    BY HlsAssumption DEF IInv, AudioBegin, EndInv, JoinInv, PoolInv, TypeOK,
           NewPool, NoFault, OutputWhole, Jobs, Good, HaveAudio, Workers,
           Busy, Pooling, PartStates, Resting, Unfetched, Whole, Received,
           NoPart
  <1> QED
    BY <1>1, <1>2, <1>3, <1>4, <1>5, <1>6 DEF IInv

(* Without an audio playlist there is no audio to mux. *)
LEMMA AudioRefusedKeeps ==
    ASSUME IInv, AudioRefused
    PROVE  IInv'
  <1>1. TypeOK'
    BY HlsAssumption DEF IInv, AudioRefused, TypeOK, Fault, pool, files,
           Workers, WorkerRecords, Jobs, PartStates, NoPart
  <1>2. ClaimedOnce'
    BY HlsAssumption DEF IInv, AudioRefused, ClaimedOnce, TypeOK, PoolInv,
           Fault, pool, files, Workers, Busy, Jobs, NoPart, PartStates,
           Pooling
  <1>3. PoolInv'
    BY HlsAssumption DEF IInv, AudioRefused, PoolInv, TypeOK, Fault, pool,
           files, Workers, Busy, Pooling, Jobs, PartStates, NoPart
  <1>4. JobInv'
    BY HlsAssumption DEF IInv, AudioRefused, JobInv, TypeOK, PoolInv,
           ClaimedOnce, Fault, pool, files, Pooling, Received, Jobs, Workers,
           Busy, PartStates, NoPart
  <1>5. JoinInv'
    <2>1. kind = "video"
      BY DEF IInv, PoolInv, AudioRefused
    <2> QED
      BY <2>1 DEF IInv, JoinInv, AudioRefused, Good, HaveAudio, pool, files
  <1>6. EndInv'
    BY HlsAssumption DEF IInv, AudioRefused, EndInv, JoinInv, PoolInv, TypeOK,
           Fault, pool, files, OutputWhole, Jobs, Good, HaveAudio, Workers,
           Busy, Pooling, PartStates, Whole, Received, NoPart
  <1> QED
    BY <1>1, <1>2, <1>3, <1>4, <1>5, <1>6 DEF IInv

(* What ffmpeg is given is whole. *)
LEMMA RemuxKeeps ==
    ASSUME IInv, Remux
    PROVE  IInv'
  <1>1. TypeOK'
    BY HlsAssumption DEF IInv, Remux, TypeOK, WantMp4, Produces, HaveAudio,
           NoFault, pool, files, Workers, WorkerRecords, Jobs, PartStates,
           NoPart
  <1>2. ClaimedOnce'
    BY HlsAssumption DEF IInv, Remux, ClaimedOnce, TypeOK, PoolInv, WantMp4,
           Produces, HaveAudio, NoFault, pool, files, Workers, Busy, Jobs,
           NoPart, PartStates, Pooling
  <1>3. PoolInv'
    BY HlsAssumption DEF IInv, Remux, PoolInv, TypeOK, WantMp4, Produces,
           HaveAudio, NoFault, pool, files, Workers, Busy, Pooling, Jobs,
           PartStates, NoPart
  <1>4. JobInv'
    BY HlsAssumption DEF IInv, Remux, JobInv, TypeOK, PoolInv, ClaimedOnce,
           WantMp4, Produces, HaveAudio, NoFault, pool, files, Pooling,
           Received, Jobs, Workers, Busy, PartStates, NoPart
  <1>5. JoinInv'
    BY HlsAssumption DEF IInv, Remux, JoinInv, TypeOK, PoolInv, JobInv,
           WantMp4, Produces, HaveAudio, NoFault, pool, files, Jobs, Good,
           Workers, PartStates, TsFiles, Busy, Pooling, Received, NoPart
  <1>6. EndInv'
    BY HlsAssumption DEF IInv, Remux, EndInv, JoinInv, PoolInv, TypeOK,
           WantMp4, Produces, HaveAudio, NoFault, pool, files, OutputWhole,
           Jobs, Good, Workers, Busy, Pooling, PartStates, Whole, Received,
           NoPart
  <1> QED
    BY <1>1, <1>2, <1>3, <1>4, <1>5, <1>6 DEF IInv

(* The broken output is not yet what is returned. *)
LEMMA RemuxFailsKeeps ==
    ASSUME IInv, RemuxFails
    PROVE  IInv'
  <1>1. TypeOK'
    BY HlsAssumption DEF IInv, RemuxFails, TypeOK, WantMp4, Fault, pool,
           files, Workers, WorkerRecords, Jobs, PartStates, NoPart
  <1>2. ClaimedOnce'
    BY HlsAssumption DEF IInv, RemuxFails, ClaimedOnce, TypeOK, PoolInv,
           WantMp4, Fault, pool, files, Workers, Busy, Jobs, NoPart,
           PartStates, Pooling
  <1>3. PoolInv'
    BY HlsAssumption DEF IInv, RemuxFails, PoolInv, TypeOK, WantMp4, Fault,
           pool, files, Workers, Busy, Pooling, Jobs, PartStates, NoPart
  <1>4. JobInv'
    BY HlsAssumption DEF IInv, RemuxFails, JobInv, TypeOK, PoolInv,
           ClaimedOnce, WantMp4, Fault, pool, files, Pooling, Received, Jobs,
           Workers, Busy, PartStates, NoPart
  <1>5. JoinInv'
    BY HlsAssumption DEF IInv, RemuxFails, JoinInv, TypeOK, PoolInv, JobInv,
           WantMp4, Fault, pool, files, Jobs, Good, HaveAudio, Workers,
           PartStates, TsFiles, Busy, Pooling, Received, NoPart
  <1>6. EndInv'
    BY HlsAssumption DEF IInv, RemuxFails, EndInv, JoinInv, PoolInv, TypeOK,
           WantMp4, Fault, pool, files, OutputWhole, Jobs, Good, HaveAudio,
           Workers, Busy, Pooling, PartStates, Whole, Received, NoPart
  <1> QED
    BY <1>1, <1>2, <1>3, <1>4, <1>5, <1>6 DEF IInv

(* The joined file is what will be moved. *)
LEMMA NoRemuxKeeps ==
    ASSUME IInv, NoRemux
    PROVE  IInv'
  <1>1. TypeOK'
    BY HlsAssumption DEF IInv, NoRemux, TypeOK, WantMp4, NoFault, pool, files,
           Workers, WorkerRecords, Jobs, PartStates, NoPart
  <1>2. ClaimedOnce'
    BY HlsAssumption DEF IInv, NoRemux, ClaimedOnce, TypeOK, PoolInv, WantMp4,
           NoFault, pool, files, Workers, Busy, Jobs, NoPart, PartStates,
           Pooling
  <1>3. PoolInv'
    BY HlsAssumption DEF IInv, NoRemux, PoolInv, TypeOK, WantMp4, NoFault,
           pool, files, Workers, Busy, Pooling, Jobs, PartStates, NoPart
  <1>4. JobInv'
    BY HlsAssumption DEF IInv, NoRemux, JobInv, TypeOK, PoolInv, ClaimedOnce,
           WantMp4, NoFault, pool, files, Pooling, Received, Jobs, Workers,
           Busy, PartStates, NoPart
  <1>5. JoinInv'
    BY HlsAssumption DEF IInv, NoRemux, JoinInv, TypeOK, PoolInv, JobInv,
           WantMp4, NoFault, pool, files, Jobs, Good, HaveAudio, Workers,
           PartStates, TsFiles, Busy, Pooling, Received, NoPart
  <1>6. EndInv'
    BY HlsAssumption DEF IInv, NoRemux, EndInv, JoinInv, PoolInv, TypeOK,
           WantMp4, NoFault, pool, files, OutputWhole, Jobs, Good, HaveAudio,
           Workers, Busy, Pooling, PartStates, Whole, Received, NoPart
  <1> QED
    BY <1>1, <1>2, <1>3, <1>4, <1>5, <1>6 DEF IInv

(* What is moved is whole. *)
LEMMA MoveKeeps ==
    ASSUME IInv, Move
    PROVE  IInv'
  <1>1. TypeOK'
    <2>1. NoFile \in TsFiles
      BY DEF NoFile, TsFiles
    <2>2. joined' \in [{"video", "audio"} -> TsFiles]
      BY <2>1 DEF IInv, TypeOK, Move
    <2>3. faults' \in 0..MaxFaults
      BY HlsAssumption DEF IInv, TypeOK, Move, NoFault, Fault
    <2> QED
      BY <2>2, <2>3 DEF IInv, TypeOK, Move, Produces, pool, Jobs, Workers
  <1>2. ClaimedOnce'
    BY HlsAssumption DEF IInv, Move, ClaimedOnce, TypeOK, PoolInv, NoFault,
           Fault, Produces, NoFile, pool, Workers, Busy, Jobs, NoPart,
           PartStates, Pooling
  <1>3. PoolInv'
    BY HlsAssumption DEF IInv, Move, PoolInv, TypeOK, NoFault, Fault,
           Produces, NoFile, pool, Workers, Busy, Pooling, Jobs, PartStates,
           NoPart
  <1>4. JobInv'
    BY HlsAssumption DEF IInv, Move, JobInv, TypeOK, PoolInv, ClaimedOnce,
           NoFault, Fault, Produces, NoFile, pool, Pooling, Received, Jobs,
           Workers, Busy, PartStates, NoPart
  <1>5. JoinInv'
    BY HlsAssumption DEF IInv, Move, JoinInv, TypeOK, PoolInv, JobInv,
           NoFault, Fault, Produces, NoFile, pool, Jobs, Good, HaveAudio,
           Workers, PartStates, TsFiles, Busy, Pooling, Received, NoPart
  <1>6. EndInv'
    BY HlsAssumption DEF IInv, Move, EndInv, JoinInv, PoolInv, TypeOK,
           NoFault, Fault, Produces, NoFile, pool, OutputWhole, Jobs, Good,
           HaveAudio, Workers, Busy, Pooling, PartStates, Whole, Received,
           NoPart
  <1> QED
    BY <1>1, <1>2, <1>3, <1>4, <1>5, <1>6 DEF IInv

(* A failed move returns -1. *)
LEMMA MoveFailsKeeps ==
    ASSUME IInv, MoveFails
    PROVE  IInv'
  <1>1. TypeOK'
    BY HlsAssumption DEF IInv, MoveFails, TypeOK, Fault, pool, files, Workers,
           WorkerRecords, Jobs, PartStates, NoPart
  <1>2. ClaimedOnce'
    BY HlsAssumption DEF IInv, MoveFails, ClaimedOnce, TypeOK, PoolInv, Fault,
           pool, files, Workers, Busy, Jobs, NoPart, PartStates, Pooling
  <1>3. PoolInv'
    BY HlsAssumption DEF IInv, MoveFails, PoolInv, TypeOK, Fault, pool, files,
           Workers, Busy, Pooling, Jobs, PartStates, NoPart
  <1>4. JobInv'
    BY HlsAssumption DEF IInv, MoveFails, JobInv, TypeOK, PoolInv,
           ClaimedOnce, Fault, pool, files, Pooling, Received, Jobs, Workers,
           Busy, PartStates, NoPart
  <1>5. JoinInv'
    BY HlsAssumption DEF IInv, MoveFails, JoinInv, TypeOK, PoolInv, JobInv,
           Fault, pool, files, Jobs, Good, HaveAudio, Workers, PartStates,
           TsFiles, Busy, Pooling, Received, NoPart
  <1>6. EndInv'
    BY HlsAssumption DEF IInv, MoveFails, EndInv, JoinInv, PoolInv, TypeOK,
           Fault, pool, files, OutputWhole, Jobs, Good, HaveAudio, Workers,
           Busy, Pooling, PartStates, Whole, Received, NoPart
  <1> QED
    BY <1>1, <1>2, <1>3, <1>4, <1>5, <1>6 DEF IInv

(* Cleaning up does not touch the output. *)
LEMMA CleanupKeeps ==
    ASSUME IInv, Cleanup
    PROVE  IInv'
  <1>1. TypeOK'
    <2>1. joined' \in [{"video", "audio"} -> TsFiles]
      BY DEF Cleanup, RemoveFiles, NoFile, TsFiles
    <2>2. part' \in [Jobs' -> PartStates]
      BY DEF Cleanup, RemoveFiles, Jobs, PartStates
    <2>3. tmpdir' \in BOOLEAN
      <3> DEFINE some == \/ \E i \in Jobs : part'[i] # NoPart
                         \/ \E k \in DOMAIN joined' : joined'[k].exists
      <3>1. tmpdir' = some
        BY DEF Cleanup
      <3>2. some = TRUE \/ some = FALSE
        OBVIOUS
      <3> HIDE DEF some
      <3> QED
        BY <3>1, <3>2
    <2> QED
      BY <2>1, <2>2, <2>3 DEF IInv, TypeOK, Cleanup, NoFault, pool, Jobs, Workers
  <1>2. ClaimedOnce'
    BY HlsAssumption DEF IInv, Cleanup, ClaimedOnce, TypeOK, PoolInv,
           RemoveFiles, Jobs, NoPart, NoFault, pool, Workers, Busy,
           PartStates, Pooling, NoFile
  <1>3. PoolInv'
    BY HlsAssumption DEF IInv, Cleanup, PoolInv, TypeOK, RemoveFiles, Jobs,
           NoPart, NoFault, pool, Workers, Busy, Pooling, PartStates, NoFile
  <1>4. JobInv'
    BY HlsAssumption DEF IInv, Cleanup, JobInv, TypeOK, PoolInv, ClaimedOnce,
           RemoveFiles, Jobs, NoPart, NoFault, pool, Pooling, Received,
           Workers, Busy, PartStates, NoFile
  <1>5. JoinInv'
    BY HlsAssumption DEF IInv, Cleanup, JoinInv, TypeOK, PoolInv, JobInv,
           RemoveFiles, Jobs, NoPart, NoFault, pool, Good, HaveAudio, Workers,
           PartStates, TsFiles, Busy, Pooling, Received, NoFile
  <1>6. EndInv'
    BY HlsAssumption DEF IInv, Cleanup, EndInv, JoinInv, PoolInv, TypeOK,
           RemoveFiles, Jobs, NoPart, NoFault, pool, OutputWhole, Good,
           HaveAudio, Workers, Busy, Pooling, PartStates, NoFile, Whole,
           Received
  <1> QED
    BY <1>1, <1>2, <1>3, <1>4, <1>5, <1>6 DEF IInv

(* The claimed job is no other worker's, as the index is past all of theirs. *)
LEMMA WorkerClaimsKeeps ==
    ASSUME IInv, NEW w \in Workers, WorkerClaims(w)
    PROVE  IInv'
  <1>1. TypeOK'
    BY HlsAssumption DEF IInv, WorkerClaims, TypeOK, Claim, NoFault, files,
           Workers, WorkerRecords, Jobs, PartStates, NoPart
  <1>2. ClaimedOnce'
    <2>1. /\ Busy(w)' /\ worker'[w].job = next
          /\ \A v \in Workers : v # w => worker'[v] = worker[v]
      BY DEF IInv, TypeOK, WorkerClaims, Claim, Busy
    <2>2. \A v \in Workers : v # w => /\ Busy(v)' <=> Busy(v)
                                      /\ Busy(v) => worker'[v].job < next
      BY <2>1 DEF IInv, ClaimedOnce, Busy
    <2>3. next \notin ok
      <3>1. Pooling
        BY DEF IInv, PoolInv, WorkerClaims, Claim
      <3> QED
        BY <3>1 DEF IInv, TypeOK, JobInv
    <2>4. next \in Int /\ next' = next + 1
      BY HlsAssumption DEF IInv, TypeOK, WorkerClaims, Claim
    <2>5. /\ UNCHANGED <<part, ok, kind>>
          /\ \A v, u \in Workers : Busy(v) /\ Busy(u) /\ worker[v].job = worker[u].job => v = u
          /\ \A v \in Workers : Busy(v) => worker[v].job \notin ok
          /\ \A i \in Jobs : part[i] # NoPart => i < next
      BY DEF IInv, ClaimedOnce, WorkerClaims, files
    <2>6. \A v, u \in Workers : Busy(v)' /\ Busy(u)' /\ worker'[v].job = worker'[u].job => v = u
      BY <2>1, <2>2, <2>4, <2>5
    <2>7. \A v \in Workers : Busy(v)' => worker'[v].job < next' /\ worker'[v].job \notin ok'
      <3> TAKE v \in Workers
      <3> HAVE Busy(v)'
      <3>1. CASE v = w
        BY <3>1, <2>1, <2>3, <2>4, <2>5
      <3>2. CASE v # w
        <4>1. worker[v].job \in Nat
          BY DEF IInv, TypeOK, WorkerRecords
        <4> QED
          BY <4>1, <3>2, <2>1, <2>2, <2>4, <2>5
      <3> QED
        BY <3>1, <3>2
    <2>8. \A i \in Jobs' : part'[i] # NoPart => i < next'
      BY <2>4, <2>5, HlsAssumption DEF Jobs, IInv, TypeOK
    <2> QED
      BY <2>6, <2>7, <2>8 DEF ClaimedOnce
  <1>3. PoolInv'
    BY HlsAssumption DEF IInv, WorkerClaims, PoolInv, TypeOK, Claim, NoFault,
           files, Workers, Busy, Pooling, WorkerRecords, Jobs, PartStates,
           NoPart
  <1>4. JobInv'
    BY HlsAssumption DEF IInv, WorkerClaims, JobInv, TypeOK, PoolInv,
           ClaimedOnce, Claim, NoFault, files, Pooling, Received, Jobs,
           Workers, Busy, WorkerRecords, PartStates, NoPart
  <1>5. JoinInv'
    BY HlsAssumption DEF IInv, WorkerClaims, JoinInv, TypeOK, PoolInv, JobInv,
           Claim, NoFault, files, Jobs, Good, HaveAudio, Workers,
           WorkerRecords, PartStates, TsFiles, Busy, Pooling, Received, NoPart
  <1>6. EndInv'
    BY HlsAssumption DEF IInv, WorkerClaims, EndInv, JoinInv, PoolInv, TypeOK,
           Claim, NoFault, files, OutputWhole, Jobs, Good, HaveAudio, Workers,
           Busy, Pooling, WorkerRecords, PartStates, Whole, Received, NoPart
  <1> QED
    BY <1>1, <1>2, <1>3, <1>4, <1>5, <1>6 DEF IInv

(* A worker leaves an index at the end or a failed pool. *)
LEMMA WorkerLeavesKeeps ==
    ASSUME IInv, NEW w \in Workers, WorkerLeaves(w)
    PROVE  IInv'
  <1>1. TypeOK'
    BY HlsAssumption DEF IInv, WorkerLeaves, TypeOK, Moves, NoFault, files,
           Workers, WorkerRecords, Jobs, PartStates, NoPart
  <1>2. ClaimedOnce'
    BY HlsAssumption DEF IInv, WorkerLeaves, ClaimedOnce, TypeOK, PoolInv,
           Moves, NoFault, files, Workers, Busy, Jobs, NoPart, WorkerRecords,
           PartStates, Pooling
  <1>3. PoolInv'
    BY HlsAssumption DEF IInv, WorkerLeaves, PoolInv, TypeOK, Moves, NoFault,
           files, Workers, Busy, Pooling, WorkerRecords, Jobs, PartStates,
           NoPart
  <1>4. JobInv'
    <2>1. /\ \A v \in Workers : Busy(v)' <=> Busy(v)
          /\ \A v \in Workers : worker'[v].job = worker[v].job
      BY DEF IInv, TypeOK, WorkerLeaves, Moves, WorkerRecords, Busy
    <2> QED
      BY <2>1 DEF IInv, JobInv, WorkerLeaves, Pooling, files, Jobs
  <1>5. JoinInv'
    BY HlsAssumption DEF IInv, WorkerLeaves, JoinInv, TypeOK, PoolInv, JobInv,
           Moves, NoFault, files, Jobs, Good, HaveAudio, Workers,
           WorkerRecords, PartStates, TsFiles, Busy, Pooling, Received, NoPart
  <1>6. EndInv'
    BY HlsAssumption DEF IInv, WorkerLeaves, EndInv, JoinInv, PoolInv, TypeOK,
           Moves, NoFault, files, OutputWhole, Jobs, Good, HaveAudio, Workers,
           Busy, Pooling, WorkerRecords, PartStates, Whole, Received, NoPart
  <1> QED
    BY <1>1, <1>2, <1>3, <1>4, <1>5, <1>6 DEF IInv

(* The part that is opened is the claimed one. *)
LEMMA WorkerOpensKeeps ==
    ASSUME IInv, NEW w \in Workers, WorkerOpens(w)
    PROVE  IInv'
  <1>1. TypeOK'
    BY HlsAssumption DEF IInv, WorkerOpens, TypeOK, Moves, NoFault, Workers,
           WorkerRecords, Jobs, PartStates, NoPart
  <1>2. ClaimedOnce'
    BY HlsAssumption DEF IInv, WorkerOpens, ClaimedOnce, TypeOK, PoolInv,
           Moves, NoFault, Workers, Busy, Jobs, NoPart, WorkerRecords,
           PartStates, Pooling
  <1>3. PoolInv'
    BY HlsAssumption DEF IInv, WorkerOpens, PoolInv, TypeOK, Moves, NoFault,
           Workers, Busy, Pooling, WorkerRecords, Jobs, PartStates, NoPart
  <1>4. JobInv'
    BY HlsAssumption DEF IInv, WorkerOpens, JobInv, TypeOK, PoolInv,
           ClaimedOnce, Moves, NoFault, Pooling, Received, Jobs, Workers,
           Busy, WorkerRecords, PartStates, NoPart
  <1>5. JoinInv'
    BY HlsAssumption DEF IInv, WorkerOpens, JoinInv, TypeOK, PoolInv, JobInv,
           Moves, NoFault, Jobs, Good, HaveAudio, Workers, WorkerRecords,
           PartStates, TsFiles, Busy, Pooling, Received, NoPart
  <1>6. EndInv'
    BY HlsAssumption DEF IInv, WorkerOpens, EndInv, JoinInv, PoolInv, TypeOK,
           Moves, NoFault, OutputWhole, Jobs, Good, HaveAudio, Workers, Busy,
           Pooling, WorkerRecords, PartStates, Whole, Received, NoPart
  <1> QED
    BY <1>1, <1>2, <1>3, <1>4, <1>5, <1>6 DEF IInv

(* A job that is done was this worker's only. *)
LEMMA WorkerWritesKeeps ==
    ASSUME IInv, NEW w \in Workers, WorkerWrites(w)
    PROVE  IInv'
  <1>1. TypeOK'
    <2>1. worker[w].job \in Jobs
      BY HlsAssumption DEF IInv, TypeOK, ClaimedOnce, Busy, WorkerWrites, WorkerRecords, Jobs
    <2>2. worker' \in [Workers -> WorkerRecords]
      BY DEF IInv, TypeOK, WorkerWrites, Moves, WorkerRecords
    <2>3. part' \in [Jobs -> PartStates]
      BY <2>1 DEF IInv, TypeOK, WorkerWrites, PartStates
    <2>4. ok' \subseteq Jobs
      BY <2>1 DEF IInv, TypeOK, WorkerWrites
    <2>5. faults' \in 0..MaxFaults
      BY HlsAssumption DEF IInv, TypeOK, WorkerWrites, NoFault, Fault
    <2> QED
      BY <2>2, <2>3, <2>4, <2>5 DEF IInv, TypeOK, WorkerWrites, Jobs
  <1>2. ClaimedOnce'
    BY HlsAssumption DEF IInv, WorkerWrites, ClaimedOnce, TypeOK, PoolInv,
           NoFault, Fault, Moves, Workers, Busy, Jobs, NoPart, WorkerRecords,
           PartStates, Pooling
  <1>3. PoolInv'
    BY HlsAssumption DEF IInv, WorkerWrites, PoolInv, TypeOK, NoFault, Fault,
           Moves, Workers, Busy, Pooling, WorkerRecords, Jobs, PartStates,
           NoPart
  <1>4. JobInv'
    BY HlsAssumption DEF IInv, WorkerWrites, JobInv, TypeOK, PoolInv,
           ClaimedOnce, NoFault, Fault, Moves, Pooling, Received, Jobs,
           Workers, Busy, WorkerRecords, PartStates, NoPart
  <1>5. JoinInv'
    BY HlsAssumption DEF IInv, WorkerWrites, JoinInv, TypeOK, PoolInv, JobInv,
           NoFault, Fault, Moves, Jobs, Good, HaveAudio, Workers,
           WorkerRecords, PartStates, TsFiles, Busy, Pooling, Received, NoPart
  <1>6. EndInv'
    BY HlsAssumption DEF IInv, WorkerWrites, EndInv, JoinInv, PoolInv, TypeOK,
           NoFault, Fault, Moves, OutputWhole, Jobs, Good, HaveAudio, Workers,
           Busy, Pooling, WorkerRecords, PartStates, Whole, Received, NoPart
  <1> QED
    BY <1>1, <1>2, <1>3, <1>4, <1>5, <1>6 DEF IInv

(* The job stays in the worker's hands until the failure is reported. *)
LEMMA WorkerStumblesKeeps ==
    ASSUME IInv, NEW w \in Workers, WorkerStumbles(w)
    PROVE  IInv'
  <1>1. TypeOK'
    BY HlsAssumption DEF IInv, WorkerStumbles, TypeOK, Fault, Moves, files,
           Workers, WorkerRecords, Jobs, PartStates, NoPart
  <1>2. ClaimedOnce'
    BY HlsAssumption DEF IInv, WorkerStumbles, ClaimedOnce, TypeOK, PoolInv,
           Fault, Moves, files, Workers, Busy, Jobs, NoPart, WorkerRecords,
           PartStates, Pooling
  <1>3. PoolInv'
    BY HlsAssumption DEF IInv, WorkerStumbles, PoolInv, TypeOK, Fault, Moves,
           files, Workers, Busy, Pooling, WorkerRecords, Jobs, PartStates,
           NoPart
  <1>4. JobInv'
    BY HlsAssumption DEF IInv, WorkerStumbles, JobInv, TypeOK, PoolInv,
           ClaimedOnce, Fault, Moves, files, Pooling, Received, Jobs, Workers,
           Busy, WorkerRecords, PartStates, NoPart
  <1>5. JoinInv'
    BY HlsAssumption DEF IInv, WorkerStumbles, JoinInv, TypeOK, PoolInv,
           JobInv, Fault, Moves, files, Jobs, Good, HaveAudio, Workers,
           WorkerRecords, PartStates, TsFiles, Busy, Pooling, Received, NoPart
  <1>6. EndInv'
    BY HlsAssumption DEF IInv, WorkerStumbles, EndInv, JoinInv, PoolInv,
           TypeOK, Fault, Moves, files, OutputWhole, Jobs, Good, HaveAudio,
           Workers, Busy, Pooling, WorkerRecords, PartStates, Whole, Received,
           NoPart
  <1> QED
    BY <1>1, <1>2, <1>3, <1>4, <1>5, <1>6 DEF IInv

(* The pool has failed: the job may stay undone. *)
LEMMA WorkerFailsKeeps ==
    ASSUME IInv, NEW w \in Workers, WorkerFails(w)
    PROVE  IInv'
  <1>1. TypeOK'
    BY HlsAssumption DEF IInv, WorkerFails, TypeOK, ReportFailure, Moves,
           NoFault, files, Workers, WorkerRecords, Jobs, PartStates, NoPart
  <1>2. ClaimedOnce'
    BY HlsAssumption DEF IInv, WorkerFails, ClaimedOnce, TypeOK, PoolInv,
           ReportFailure, Moves, NoFault, files, Workers, Busy, Jobs, NoPart,
           WorkerRecords, PartStates, Pooling
  <1>3. PoolInv'
    BY HlsAssumption DEF IInv, WorkerFails, PoolInv, TypeOK, ReportFailure,
           Moves, NoFault, files, Workers, Busy, Pooling, WorkerRecords, Jobs,
           PartStates, NoPart
  <1>4. JobInv'
    BY HlsAssumption DEF IInv, WorkerFails, JobInv, TypeOK, PoolInv,
           ClaimedOnce, ReportFailure, Moves, NoFault, files, Pooling,
           Received, Jobs, Workers, Busy, WorkerRecords, PartStates, NoPart
  <1>5. JoinInv'
    BY HlsAssumption DEF IInv, WorkerFails, JoinInv, TypeOK, PoolInv, JobInv,
           ReportFailure, Moves, NoFault, files, Jobs, Good, HaveAudio,
           Workers, WorkerRecords, PartStates, TsFiles, Busy, Pooling,
           Received, NoPart
  <1>6. EndInv'
    BY HlsAssumption DEF IInv, WorkerFails, EndInv, JoinInv, PoolInv, TypeOK,
           ReportFailure, Moves, NoFault, files, OutputWhole, Jobs, Good,
           HaveAudio, Workers, Busy, Pooling, WorkerRecords, PartStates,
           Whole, Received, NoPart
  <1> QED
    BY <1>1, <1>2, <1>3, <1>4, <1>5, <1>6 DEF IInv

(* Nothing has begun. *)
LEMMA InitIInv == Init => IInv
  <1> SUFFICES ASSUME Init PROVE IInv
    OBVIOUS
  <1>0. Segments["video"] \in Nat \ {0} /\ Segments["audio"] \in Nat \ {0}
    BY HlsAssumption
  <1>1. TypeOK
    <2>1. worker \in [Workers -> WorkerRecords]
      BY DEF Init, Resting, WorkerRecords
    <2>2. part \in [Jobs -> PartStates]
      BY DEF Init, Unfetched, Jobs, PartStates
    <2>3. joined \in [{"video", "audio"} -> TsFiles]
      BY DEF Init, NoFile, TsFiles
    <2>4. started \in 0..Concurrency /\ next \in 0..Segments[kind] /\ faults \in 0..MaxFaults
      BY <1>0, HlsAssumption DEF Init
    <2> QED
      BY <2>1, <2>2, <2>3, <2>4 DEF Init, TypeOK
  <1>2. ClaimedOnce
    BY DEF Init, ClaimedOnce, Resting, Busy, Unfetched, Jobs
  <1>3. PoolInv
    BY DEF Init, PoolInv, Resting, Busy, Pooling, Workers
  <1>4. JobInv
    BY DEF Init, JobInv, Pooling
  <1>5. JoinInv
    BY DEF Init, JoinInv
  <1>6. EndInv
    BY DEF Init, EndInv, OutputWhole
  <1> QED
    BY <1>1, <1>2, <1>3, <1>4, <1>5, <1>6 DEF IInv

(* Every step of the main thread or of a worker preserves it. *)
LEMMA NextIInv == IInv /\ [Next]_vars => IInv'
  <1> SUFFICES ASSUME IInv, [Next]_vars PROVE IInv'
    OBVIOUS
  <1>1. CASE Main
    BY <1>1, RefusedKeeps, BeginKeeps, CreateWorkerKeeps,
       CreateFailsKeeps, PoolDoneKeeps, JoinOpenKeeps,
       JoinPartKeeps, JoinEndKeeps, JoinFailsKeeps, UnlinkKeeps,
       AudioBeginKeeps, AudioRefusedKeeps, RemuxKeeps,
       RemuxFailsKeeps, NoRemuxKeeps, MoveKeeps, MoveFailsKeeps,
       CleanupKeeps
       DEF Main
  <1>2. CASE \E w \in Workers : Worker(w)
    <2>1. PICK w \in Workers : Worker(w)
      BY <1>2
    <2> QED
      BY <2>1, WorkerClaimsKeeps, WorkerLeavesKeeps, WorkerOpensKeeps, WorkerWritesKeeps,
         WorkerStumblesKeeps, WorkerFailsKeeps DEF Worker
  <1>3. CASE UNCHANGED vars
    <2>1. TypeOK'
      BY <1>3 DEF vars, pool, files, IInv, TypeOK, Jobs, Workers
    <2>2. ClaimedOnce' /\ PoolInv'
      BY <1>3 DEF vars, pool, files, IInv, ClaimedOnce, PoolInv, Pooling, Busy, Jobs
    <2>3. JobInv'
      BY <1>3 DEF vars, pool, files, IInv, JobInv, Pooling, Busy, Jobs
    <2>4. JoinInv' /\ EndInv'
      BY <1>3 DEF vars, pool, files, IInv, JoinInv, HaveAudio, Good, EndInv, OutputWhole, Whole, Jobs
    <2> QED
      BY <2>1, <2>2, <2>3, <2>4 DEF IInv
  <1> QED
    BY <1>1, <1>2, <1>3 DEF Next

(* The inductive invariant holds throughout. *)
THEOREM HlsInvariance == Spec => []IInv
  BY InitIInv, NextIInv, PTL DEF Spec

(* The state keeps its types: pool.next never passes the number of jobs and   *)
(* every claimed index is one of the array's.                                 *)
THEOREM HlsTypeOK == Spec => []TypeOK
  <1>1. IInv => TypeOK
    BY DEF IInv
  <1> QED
    BY <1>1, HlsInvariance, PTL

(* However many workers share the pool, no job is in two workers' hands, none *)
(* is fetched again after it is done, and none is fetched beyond the index.   *)
THEOREM SegmentsClaimedOnce == Spec => []ClaimedOnce
  <1>1. IInv => ClaimedOnce
    BY DEF IInv
  <1> QED
    BY <1>1, HlsInvariance, PTL

(* Whatever path a download ends on, the directory it made is gone again.     *)
THEOREM TemporariesRemoved == Spec => []NothingLeftBehind
  <1>1. IInv => NothingLeftBehind
    BY DEF IInv, EndInv, NothingLeftBehind
  <1> QED
    BY <1>1, HlsInvariance, PTL

(* A return of 0 means an output with every video segment in its place, and   *)
(* with the audio whole or absent, whatever failed and in whatever order the  *)
(* workers ran.                                                               *)
THEOREM OutputIsWhole == Spec => []OutputWhole
  <1>1. IInv => OutputWhole
    BY DEF IInv, EndInv
  <1> QED
    BY <1>1, HlsInvariance, PTL
=============================================================================
