---------------------------- MODULE MirrorSearch ----------------------------
(***************************************************************************)
(* The mirror search (src/src/search.c) and the part of main that uses it: *)
(* the list of mirrors, the speed test of every mirror in a thread of its  *)
(* own, at most search_threads of them at a time, and the choice of the    *)
(* mirrors to download from.                                               *)
(*                                                                         *)
(* A thread that is being tested may store its result at any time until it *)
(* is joined, also after the main thread has decided to cancel it: it is   *)
(* cancelled asynchronously, but not at once.                              *)
(***************************************************************************)
EXTENDS Integers, Sequences, FiniteSets

CONSTANTS SearchAmount,   \* conf->search_amount
          SearchThreads,  \* conf->search_threads
          SearchTop,      \* conf->search_top
          Verbose,        \* conf->verbose # 0
          Speeds,         \* the speeds a test may measure
          MaxNocreate     \* bound: how often a thread cannot be created

ASSUME SearchAssumption ==
    /\ SearchAmount \in Nat \ {0}
    /\ SearchThreads \in Nat \ {0}
    /\ SearchTop \in Nat \ {0}
    /\ Verbose \in BOOLEAN
    /\ Speeds \subseteq Nat \ {0}
    /\ MaxNocreate \in Nat

VARIABLES step,      \* the main thread: "list", "scan", "join", "sort", "chosen" or "failed"
          count,     \* how many mirrors there are
          speed,     \* results[i].speed
          timed,     \* the mirrors with a speed_start_time
          thread,    \* "none", "testing", "leaving" (has stored a result), "ended", "joined"
          cancelled, \* the threads pthread_cancel was called for
          cur,       \* the loop's i
          running,
          left,
          correct,
          chosen,    \* the mirrors handed to download_one
          nocreate   \* bound: nocreate so far

counters == <<running, left, correct>>
searchvars == <<step, count, speed, timed, thread, cancelled, cur, counters, chosen, nocreate>>

Mirrors == 0..(count - 1)

ACTIVE  == -3
FAILED  == -2
DONE    == -1
PENDING == 0

Searching == step \in {"scan", "join"}

-----------------------------------------------------------------------------

SearchInit ==
    /\ step = "list"
    /\ count = 0
    /\ speed = <<>> /\ thread = <<>>
    /\ timed = {} /\ cancelled = {}
    /\ cur = 0
    /\ running = 0 /\ left = 0 /\ correct = 0
    /\ chosen = <<>>
    /\ nocreate = 0

\* The URL that was given is asked for its size, which also measures it; the
\* answer of the search engine adds mirrors, none if anything is wrong with it.
\* What has a speed already is not tested: all but the first are PENDING.
MakeList ==
    /\ step = "list"
    /\ \E n \in 1..SearchAmount, s \in Speeds :
         /\ count' = n
         /\ speed' = [i \in 0..(n - 1) |-> IF i = 0 THEN s ELSE PENDING]
         /\ thread' = [i \in 0..(n - 1) |-> "none"]
         /\ left' = n - 1
         /\ step' = IF n = 1 THEN "sort" ELSE "scan"
    /\ correct' = 1
    /\ UNCHANGED <<timed, cancelled, cur, running, chosen, nocreate>>

NotFound ==
    /\ step = "list"
    /\ step' = "failed"
    /\ UNCHANGED <<count, speed, timed, thread, cancelled, cur, counters, chosen, nocreate>>

-----------------------------------------------------------------------------
(***************************************************************************)
(* search_getspeeds: the mirrors are looked at in turn, over and over      *)
(* until none is left                                                      *)
(***************************************************************************)

\* To the next mirror; left is only looked at when a pass is over.
Advance ==
    /\ cur' = IF cur + 1 < count THEN cur + 1 ELSE 0
    /\ step' = IF cur + 1 = count /\ left' = 0 THEN "sort" ELSE "scan"

Ready == step = "scan"

Reported_Again(i) == speed[i] = FAILED \/ speed[i] > 0

\* The test is over and its thread not joined yet.
Reported(i) == speed[i] = FAILED \/ (speed[i] > 0 /\ i \in timed)

Processed(i) == speed[i] = DONE \/ (speed[i] > 0 /\ i \notin timed)

\* A test that has time left, a mirror that is done with, or one that has to
\* wait because search_threads are running.
NothingToDo ==
    /\ Ready
    /\ \/ speed[cur] = ACTIVE
       \/ Processed(cur)
       \/ speed[cur] = PENDING /\ running >= SearchThreads
    /\ UNCHANGED <<count, speed, timed, thread, cancelled, counters, chosen, nocreate>>
    /\ Advance

StartTest ==
    /\ Ready
    /\ speed[cur] = PENDING
    /\ running < SearchThreads
    /\ speed' = [speed EXCEPT ![cur] = ACTIVE]
    /\ timed' = timed \cup {cur}
    /\ thread' = [thread EXCEPT ![cur] = "testing"]
    /\ running' = running + 1
    /\ UNCHANGED left
    /\ Advance
    /\ UNCHANGED <<count, cancelled, correct, chosen, nocreate>>

StartFails_Counted ==
    /\ Ready
    /\ speed[cur] = PENDING
    /\ running < SearchThreads
    /\ nocreate < MaxNocreate
    /\ nocreate' = nocreate + 1
    /\ timed' = timed \cup {cur}
    /\ running' = running + 1
    /\ UNCHANGED left
    /\ Advance
    /\ UNCHANGED <<count, speed, thread, cancelled, correct, chosen>>

\* The thread cannot be created: the mirror is tried again in the next pass.
StartFails ==
    /\ Ready
    /\ speed[cur] = PENDING
    /\ running < SearchThreads
    /\ nocreate < MaxNocreate
    /\ nocreate' = nocreate + 1
    /\ timed' = timed \cup {cur}
    /\ UNCHANGED left
    /\ Advance
    /\ UNCHANGED <<count, speed, thread, cancelled, running, correct, chosen>>

\* search_timeout has passed: the thread is cancelled, whatever it is doing.
TimeOut ==
    /\ Ready
    /\ speed[cur] = ACTIVE
    /\ cancelled' = cancelled \cup {cur}
    /\ step' = "join"
    /\ UNCHANGED <<count, speed, timed, thread, cur, counters, chosen, nocreate>>

Collect ==
    /\ Ready
    /\ Reported(cur)
    /\ step' = "join"
    /\ UNCHANGED <<count, speed, timed, thread, cancelled, cur, counters, chosen, nocreate>>

\* pthread_join returns.  The speed is read again: a thread that was cancelled
\* may have stored one.
Usable(i) == speed[i] > 0

JoinTest ==
    /\ step = "join"
    /\ thread[cur] = "ended"
    /\ thread' = [thread EXCEPT ![cur] = "joined"]
    /\ running' = running - 1
    /\ left' = left - 1
    /\ IF Usable(cur)
       THEN /\ timed' = timed \ {cur}
            /\ correct' = correct + 1
            /\ UNCHANGED speed
       ELSE /\ speed' = [speed EXCEPT ![cur] = DONE]
            /\ UNCHANGED <<timed, correct>>
    /\ Advance
    /\ UNCHANGED <<count, cancelled, chosen, nocreate>>

-----------------------------------------------------------------------------
(***************************************************************************)
(* search_speedtest, in its thread                                         *)
(***************************************************************************)

ThreadOnly == UNCHANGED <<step, count, timed, cancelled, cur, counters, chosen, nocreate>>

\* The size is known and right, or not: the result is stored.
Measure(i) ==
    /\ thread[i] = "testing"
    /\ \E s \in Speeds \cup {FAILED} : speed' = [speed EXCEPT ![i] = s]
    /\ thread' = [thread EXCEPT ![i] = "leaving"]
    /\ ThreadOnly

\* conn_disconnect, and the thread returns.
Leave(i) ==
    /\ thread[i] = "leaving"
    /\ thread' = [thread EXCEPT ![i] = "ended"]
    /\ UNCHANGED speed
    /\ ThreadOnly

\* The cancellation takes effect.
CancelTest(i) ==
    /\ i \in cancelled
    /\ thread[i] \in {"testing", "leaving"}
    /\ thread' = [thread EXCEPT ![i] = "ended"]
    /\ UNCHANGED speed
    /\ ThreadOnly

-----------------------------------------------------------------------------
(***************************************************************************)
(* search_sortlist, and what main does with the result                     *)
(***************************************************************************)

\* search_sortlist_qsort: the fastest first, what has no speed last.
Slower(i, j) ==
    IF speed[i] < 0 /\ speed[j] > 0 THEN TRUE
    ELSE ~(speed[i] > 0 /\ speed[j] < 0) /\ speed[i] > speed[j]

Orders == {order \in [1..count -> Mirrors] :
              \A a, b \in 1..count : a < b => order[a] # order[b] /\ ~Slower(order[a], order[b])}

Least(a, b) == IF a < b THEN a ELSE b

Wanted_All == IF Verbose THEN Least(count, SearchTop) ELSE count

\* search_top is only looked at in the branch that prints the list.
Wanted == IF Verbose THEN Least(correct, SearchTop) ELSE correct

Choose ==
    /\ step = "sort"
    /\ \E order \in Orders : chosen' = SubSeq(order, 1, Wanted)
    /\ step' = "chosen"
    /\ UNCHANGED <<count, speed, timed, thread, cancelled, cur, counters, nocreate>>

-----------------------------------------------------------------------------

SearchStep ==
    \/ MakeList \/ NotFound
    \/ NothingToDo \/ StartTest \/ StartFails \/ TimeOut \/ Collect \/ JoinTest
    \/ Choose

TestThread(i) == Measure(i) \/ Leave(i) \/ CancelTest(i)

SearchNext == SearchStep \/ \E i \in Mirrors : TestThread(i)

SearchSpec == SearchInit /\ [][SearchNext]_searchvars

-----------------------------------------------------------------------------

Unjoined == {i \in Mirrors : thread[i] \in {"testing", "leaving", "ended"}}

SearchTypeOK ==
    /\ step \in {"list", "scan", "join", "sort", "chosen", "failed"}
    /\ count \in 0..SearchAmount
    /\ speed \in [Mirrors -> Speeds \cup {ACTIVE, FAILED, DONE, PENDING}]
    /\ thread \in [Mirrors -> {"none", "testing", "leaving", "ended", "joined"}]
    /\ timed \subseteq Mirrors /\ cancelled \subseteq Mirrors
    /\ Searching => cur \in Mirrors
    /\ cur \in Nat /\ running \in Nat /\ left \in Nat /\ correct \in Nat
    /\ nocreate \in 0..MaxNocreate

\* A slot of the pool is taken exactly by the threads that have to be joined,
\* never more than search_threads of them, and a mirror is left exactly as long
\* as its test is not over: whichever of the result, the timeout and the
\* cancellation comes first, nothing is joined twice or counted twice.
PoolAccounts ==
    /\ running = Cardinality(Unjoined)
    /\ running <= SearchThreads
    /\ Searching => left = Cardinality({i \in Mirrors : i # 0 /\ thread[i] # "joined"})

\* No test outlives the search, and the download is given mirrors that were
\* measured, the fastest of them first, none faster left out.
FastestFirst ==
    /\ step \in {"sort", "chosen"} => Unjoined = {}
    /\ step = "chosen" =>
         /\ chosen # <<>>
         /\ \A k \in DOMAIN chosen : speed[chosen[k]] > 0
         /\ \A k \in DOMAIN chosen, i \in Mirrors :
              speed[i] > 0 /\ speed[i] < speed[chosen[k]] => \E l \in 1..(k - 1) : chosen[l] = i

=============================================================================
