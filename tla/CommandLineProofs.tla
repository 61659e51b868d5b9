------------------------- MODULE CommandLineProofs --------------------------
(***************************************************************************)
(* Proofs about the command line and about the search for mirrors that it  *)
(* may begin with.                                                         *)
(*                                                                         *)
(* First the pool of speed tests, for every number of mirrors and of       *)
(* threads: what running and left count, that no test outlives the search, *)
(* and which mirrors are handed to the download, in which order.           *)
(*                                                                         *)
(* Then the downloads, for every set of command lines, URLs, directories   *)
(* and files that were there before: that a file which is complete is left *)
(* alone, that no file mixes the bytes of two URLs, and that exit status 0 *)
(* means what it says, also if runs were interrupted and given again.      *)
(*                                                                         *)
(* Last the expansion of a URL: that the odometer goes through all         *)
(* combinations of all lists and ranges, in order and each of them once.   *)
(***************************************************************************)
EXTENDS CommandLine, LoopProofs, FiniteSetTheorems, SequenceTheorems

(* The mirrors whose test is not over: not the first, which needs none. *)
Untested == {i \in Mirrors : i # 0 /\ thread[i] # "joined"}

(* A mirror waits for its test as long as it has no speed, and no thread;     *)
(* the first one never has a thread.                                          *)
MirrorInv ==
    \A i \in Mirrors :
        /\ speed[i] = PENDING => i # 0 /\ thread[i] = "none"
        /\ i = 0 => thread[i] = "none"
        /\ i # 0 /\ thread[i] = "none" => speed[i] = PENDING

(* What is left to the search is the tests that are not over. *)
PoolInv ==
    /\ running = Cardinality(Unjoined)
    /\ running <= SearchThreads
    /\ Searching => left = Cardinality(Untested)
    /\ step = "list" => count = 0 /\ cur = 0
    /\ step \in {"sort", "chosen"} => Untested = {}

IInv ==
    /\ SearchTypeOK
    /\ MirrorInv
    /\ PoolInv

-----------------------------------------------------------------------------

LEMMA MirrorsFinite ==
    ASSUME count \in Nat
    PROVE  \A S \in SUBSET Mirrors : IsFiniteSet(S) /\ Cardinality(S) \in Nat
  <1>1. IsFiniteSet(Mirrors)
    BY FS_Interval DEF Mirrors
  <1> QED
    BY <1>1, FS_Subset, FS_CardinalityType

LEMMA Types ==
    ASSUME IInv
    PROVE  /\ count \in Nat /\ SearchThreads \in Nat \ {0} /\ SearchAmount \in Nat \ {0}
           /\ thread \in [Mirrors -> {"none", "testing", "leaving", "ended", "joined"}]
           /\ speed \in [Mirrors -> Speeds \cup {ACTIVE, FAILED, DONE, PENDING}]
           /\ IsFiniteSet(Unjoined) /\ Cardinality(Unjoined) \in Nat
           /\ IsFiniteSet(Untested) /\ Cardinality(Untested) \in Nat
           /\ running \in Nat /\ left \in Nat /\ cur \in Nat /\ correct \in Nat
  <1>1. count \in Nat /\ SearchThreads \in Nat \ {0} /\ SearchAmount \in Nat \ {0}
    BY SearchAssumption DEF IInv, SearchTypeOK
  <1>2. Unjoined \in SUBSET Mirrors /\ Untested \in SUBSET Mirrors
    BY DEF Unjoined, Untested
  <1> QED
    BY <1>1, <1>2, MirrorsFinite DEF IInv, SearchTypeOK

LEMMA InitIInv == SearchInit => IInv
  <1> SUFFICES ASSUME SearchInit PROVE IInv
    OBVIOUS
  <1>1. Mirrors = {} /\ Unjoined = {} /\ Untested = {}
    BY DEF SearchInit, Mirrors, Unjoined, Untested
  <1>2. Cardinality({}) = 0
    BY FS_EmptySet
  <1>3. SearchTypeOK
    BY <1>1, SearchAssumption DEF SearchInit, SearchTypeOK, Searching
  <1>4. MirrorInv /\ PoolInv
    BY <1>1, <1>2, SearchAssumption DEF SearchInit, MirrorInv, PoolInv, Searching
  <1> QED
    BY <1>3, <1>4 DEF IInv

(* The list: the first mirror was measured, the others wait. *)
LEMMA MakeListStep ==
    ASSUME IInv, MakeList
    PROVE  IInv'
  <1>1. PICK n \in 1..SearchAmount, s \in Speeds :
           /\ count' = n
           /\ speed' = [i \in 0..(n - 1) |-> IF i = 0 THEN s ELSE PENDING]
           /\ thread' = [i \in 0..(n - 1) |-> "none"]
           /\ left' = n - 1
           /\ step' = IF n = 1 THEN "sort" ELSE "scan"
    BY DEF MakeList
  <1>2. /\ UNCHANGED <<timed, cancelled, cur, running, chosen, nocreate>> /\ correct' = 1
        /\ step = "list"
    BY DEF MakeList
  <1>3. n \in Nat \ {0} /\ n \in 0..SearchAmount /\ Mirrors' = 0..(n - 1) /\ 0 \in 0..(n - 1)
    BY <1>1, SearchAssumption DEF Mirrors
  <1>4. count = 0 /\ Mirrors = {} /\ cur \in Nat /\ running \in Nat /\ nocreate \in 0..MaxNocreate
        /\ timed = {} /\ cancelled = {} /\ cur = 0
    BY <1>2 DEF IInv, PoolInv, SearchTypeOK, Mirrors
  <1>5. Unjoined = {} /\ Unjoined' = {}
    BY <1>1, <1>3, <1>4 DEF Unjoined
  <1>6. Untested' = 1..(n - 1)
    BY <1>1, <1>3 DEF Untested
  <1>7. Cardinality(1..(n - 1)) = n - 1
    BY <1>3, FS_Interval
  <1>8. MirrorInv'
    BY <1>1, <1>3, SearchAssumption DEF MirrorInv, PENDING
  <1>9. PoolInv'
    BY <1>1, <1>2, <1>3, <1>5, <1>6, <1>7 DEF PoolInv, IInv
  <1>10. SearchTypeOK'
    <2>1. /\ speed' \in [Mirrors' -> Speeds \cup {ACTIVE, FAILED, DONE, PENDING}]
          /\ thread' \in [Mirrors' -> {"none", "testing", "leaving", "ended", "joined"}]
      BY <1>1, <1>3
    <2> QED
      BY <1>1, <1>2, <1>3, <1>4, <2>1 DEF SearchTypeOK, Searching
  <1> QED
    BY <1>8, <1>9, <1>10 DEF IInv

(* The loop goes on, or ends when nothing is left.                            *)
LEMMA AdvanceStep ==
    ASSUME IInv, Searching, Advance, count' = count
    PROVE  /\ step' \in {"scan", "sort"} /\ cur' \in Mirrors' /\ cur' \in Nat
           /\ step' = "sort" => left' = 0
  <1>1. count \in Nat /\ cur \in 0..(count - 1)
    BY Types DEF IInv, SearchTypeOK, Mirrors
  <1> QED
    BY <1>1 DEF Advance, Mirrors

(* The main thread looks at a mirror and starts or joins nothing.             *)
LEMMA LookStep ==
    ASSUME IInv, NothingToDo \/ StartFails \/ TimeOut \/ Collect
    PROVE  IInv'
  <1>1. /\ Searching /\ UNCHANGED <<count, speed, thread, counters, chosen>>
        /\ timed' \subseteq timed \cup {cur} /\ cancelled' \subseteq cancelled \cup {cur}
        /\ Advance \/ (step' = "join" /\ cur' = cur)
    BY DEF NothingToDo, StartFails, TimeOut, Collect, Ready, Searching, counters
  <1>2. nocreate' \in 0..MaxNocreate
    BY SearchAssumption DEF NothingToDo, StartFails, TimeOut, Collect, IInv, SearchTypeOK
  <1>3. Mirrors' = Mirrors /\ Unjoined' = Unjoined /\ Untested' = Untested /\ cur \in Mirrors
    BY <1>1 DEF Mirrors, Unjoined, Untested, IInv, SearchTypeOK
  <1>4. /\ step' \in {"scan", "join", "sort"} /\ cur' \in Mirrors' /\ cur' \in Nat
        /\ step' = "sort" => left' = 0
    BY <1>1, <1>3, Types, AdvanceStep
  <1>5. MirrorInv'
    BY <1>1, <1>3 DEF IInv, MirrorInv
  <1>6. left = 0 => Untested = {}
    BY <1>1, Types, FS_EmptySet DEF IInv, PoolInv
  <1>7. PoolInv'
    BY <1>1, <1>3, <1>4, <1>6 DEF IInv, PoolInv, Searching, counters
  <1>8. SearchTypeOK'
    BY <1>1, <1>2, <1>3, <1>4 DEF IInv, SearchTypeOK, Searching, counters
  <1> QED
    BY <1>5, <1>7, <1>8 DEF IInv

(* A test is started while there is room for its thread.                      *)
LEMMA StartStep ==
    ASSUME IInv, StartTest
    PROVE  IInv'
  <1>1. /\ Searching /\ Advance /\ UNCHANGED <<count, left, cancelled, correct, chosen, nocreate>>
        /\ speed[cur] = PENDING /\ running < SearchThreads /\ running' = running + 1
        /\ speed' = [speed EXCEPT ![cur] = ACTIVE] /\ thread' = [thread EXCEPT ![cur] = "testing"]
        /\ timed' = timed \cup {cur}
    BY DEF StartTest, Ready, Searching
  <1>2. cur \in Mirrors /\ cur # 0 /\ thread[cur] = "none"
    BY <1>1 DEF IInv, SearchTypeOK, MirrorInv
  <1>3. Mirrors' = Mirrors
    BY <1>1 DEF Mirrors
  <1>4. \A i \in Mirrors : /\ thread'[i] = IF i = cur THEN "testing" ELSE thread[i]
                           /\ speed'[i] = IF i = cur THEN ACTIVE ELSE speed[i]
    BY <1>1, <1>2, Types
  <1>5. Unjoined' = Unjoined \cup {cur} /\ cur \notin Unjoined /\ Untested' = Untested
    BY <1>2, <1>3, <1>4 DEF Unjoined, Untested
  <1>6. Cardinality(Unjoined') = running + 1
    BY <1>5, Types, FS_AddElement DEF IInv, PoolInv
  <1>7. /\ step' \in {"scan", "sort"} /\ cur' \in Mirrors' /\ cur' \in Nat
        /\ step' = "sort" => left' = 0
    BY <1>1, AdvanceStep
  <1>8. MirrorInv'
    BY <1>2, <1>3, <1>4 DEF IInv, MirrorInv, ACTIVE, PENDING
  <1>9. left = 0 => Untested = {}
    BY <1>1, Types, FS_EmptySet DEF IInv, PoolInv
  <1>10. PoolInv'
    BY <1>1, <1>5, <1>6, <1>7, <1>9, Types DEF IInv, PoolInv, Searching
  <1>11. SearchTypeOK'
    BY <1>1, <1>2, <1>3, <1>7, Types DEF IInv, SearchTypeOK, Searching
  <1> QED
    BY <1>8, <1>10, <1>11 DEF IInv

(* A thread is joined: its slot is free again, its mirror done with.          *)
LEMMA JoinStep ==
    ASSUME IInv, JoinTest
    PROVE  IInv'
  <1>1. /\ Searching /\ Advance /\ UNCHANGED <<count, cancelled, chosen, nocreate>>
        /\ thread[cur] = "ended" /\ thread' = [thread EXCEPT ![cur] = "joined"]
        /\ running' = running - 1 /\ left' = left - 1
        /\ timed' \subseteq timed /\ correct' \in {correct, correct + 1}
        /\ \/ Usable(cur) /\ speed' = speed
           \/ speed' = [speed EXCEPT ![cur] = DONE]
    BY DEF JoinTest, Searching
  <1>2. cur \in Mirrors /\ cur # 0
    BY <1>1 DEF IInv, SearchTypeOK, MirrorInv
  <1>3. Mirrors' = Mirrors
    BY <1>1 DEF Mirrors
  <1>4. \A i \in Mirrors : thread'[i] = IF i = cur THEN "joined" ELSE thread[i]
    BY <1>1, <1>2, Types
  <1>5. \A i \in Mirrors : speed'[i] = speed[i] \/ (i = cur /\ speed'[i] = DONE)
    BY <1>1, <1>2, Types
  <1>6. /\ Unjoined' = Unjoined \ {cur} /\ cur \in Unjoined
        /\ Untested' = Untested \ {cur} /\ cur \in Untested
    BY <1>1, <1>2, <1>3, <1>4 DEF Unjoined, Untested
  <1>7. /\ Cardinality(Unjoined') = running - 1 /\ Cardinality(Untested') = left - 1
        /\ IsFiniteSet(Untested') /\ running' \in Nat /\ left' \in Nat
    <2>1. IsFiniteSet(Unjoined \ {cur}) /\ Cardinality(Unjoined \ {cur}) = Cardinality(Unjoined) - 1
      BY <1>6, Types, FS_RemoveElement
    <2>2. IsFiniteSet(Untested \ {cur}) /\ Cardinality(Untested \ {cur}) = Cardinality(Untested) - 1
      BY <1>6, Types, FS_RemoveElement
    <2>3. Cardinality(Unjoined \ {cur}) \in Nat /\ Cardinality(Untested \ {cur}) \in Nat
      BY <2>1, <2>2, FS_CardinalityType
    <2>4. running = Cardinality(Unjoined) /\ left = Cardinality(Untested)
      BY <1>1 DEF IInv, PoolInv
    <2> QED
      BY <1>1, <1>6, <2>1, <2>2, <2>3, <2>4
  <1>8. /\ step' \in {"scan", "sort"} /\ cur' \in Mirrors' /\ cur' \in Nat
        /\ step' = "sort" => left' = 0
    BY <1>1, AdvanceStep
  <1>9. MirrorInv'
    <2>1. MirrorInv
      BY DEF IInv
    <2> QED
      BY <1>1, <1>2, <1>3, <1>4, <1>5, <2>1 DEF MirrorInv, DONE, PENDING
  <1>10. left' = 0 => Untested' = {}
    BY <1>1, <1>7, FS_EmptySet
  <1>11. PoolInv'
    BY <1>1, <1>7, <1>8, <1>10, Types DEF IInv, PoolInv, Searching
  <1>12. SearchTypeOK'
    <2>1. correct' \in Nat
      BY <1>1, Types
    <2> QED
      BY <1>1, <1>2, <1>3, <1>7, <1>8, <2>1, Types DEF IInv, SearchTypeOK, Searching
  <1> QED
    BY <1>9, <1>11, <1>12 DEF IInv

(* A test stores its result, or its thread ends: it still has to be joined.   *)
LEMMA ThreadStep ==
    ASSUME IInv, NEW i \in Mirrors, TestThread(i)
    PROVE  IInv'
  <1>1. /\ UNCHANGED <<step, count, timed, cancelled, cur, counters, chosen, nocreate>>
        /\ thread[i] \in {"testing", "leaving"}
        /\ \E stage \in {"leaving", "ended"} : thread' = [thread EXCEPT ![i] = stage]
        /\ speed' = speed \/ \E s \in Speeds \cup {FAILED} : speed' = [speed EXCEPT ![i] = s]
    BY DEF TestThread, Measure, Leave, CancelTest, ThreadOnly
  <1>2. Mirrors' = Mirrors
    BY <1>1 DEF Mirrors
  <1>3. \A r \in Mirrors : \/ r # i /\ thread'[r] = thread[r] /\ speed'[r] = speed[r]
                           \/ r = i /\ thread'[r] \in {"leaving", "ended"}
                              /\ speed'[r] \in {speed[r]} \cup Speeds \cup {FAILED}
    BY <1>1, Types
  <1>4. Unjoined' = Unjoined /\ Untested' = Untested
    BY <1>1, <1>2, <1>3 DEF Unjoined, Untested
  <1>5. MirrorInv'
    <2>1. PENDING \notin Speeds /\ PENDING # FAILED
      BY SearchAssumption DEF PENDING, FAILED
    <2> QED
      BY <1>1, <1>2, <1>3, <2>1 DEF IInv, MirrorInv
  <1>6. PoolInv'
    BY <1>1, <1>4 DEF IInv, PoolInv, Searching, counters
  <1>7. SearchTypeOK'
    BY <1>1, <1>2 DEF IInv, SearchTypeOK, Searching, counters
  <1> QED
    BY <1>5, <1>6, <1>7 DEF IInv

LEMMA NextIInv == IInv /\ [SearchNext]_searchvars => IInv'
  <1> SUFFICES ASSUME IInv, [SearchNext]_searchvars PROVE IInv'
    OBVIOUS
  <1>1. ASSUME UNCHANGED <<count, speed, timed, thread, cancelled, cur, counters, nocreate>>,
               step' = step \/ (step' = "chosen" /\ step = "sort") \/ step' = "failed"
        PROVE  IInv'
    <2>1. Mirrors' = Mirrors /\ Unjoined' = Unjoined /\ Untested' = Untested
      BY <1>1 DEF Mirrors, Unjoined, Untested
    <2>2. MirrorInv' /\ PoolInv'
      BY <1>1, <2>1 DEF IInv, MirrorInv, PoolInv, Searching, counters
    <2>3. SearchTypeOK'
      BY <1>1, <2>1 DEF IInv, SearchTypeOK, Searching, counters
    <2> QED
      BY <2>2, <2>3 DEF IInv
  <1>2. CASE NotFound
    BY <1>1, <1>2 DEF NotFound
  <1>3. CASE Choose
    BY <1>1, <1>3 DEF Choose
  <1>4. CASE UNCHANGED searchvars
    BY <1>1, <1>4 DEF searchvars
  <1> QED
    BY <1>2, <1>3, <1>4, MakeListStep, LookStep, StartStep, JoinStep, ThreadStep DEF SearchNext, SearchStep

LEMMA Invariance == SearchSpec => []IInv
  BY InitIInv, NextIInv, PTL DEF SearchSpec

(* Every variable of a mirror search has its type in every state: no counter  *)
(* of the pool falls below zero.                                              *)
THEOREM SearchTypes == SearchSpec => []SearchTypeOK
  <1>1. IInv => SearchTypeOK
    BY DEF IInv
  <1> QED
    BY <1>1, Invariance, PTL

(* A slot of the pool is taken by exactly the threads that have to be joined, *)
(* never more than search_threads, and the search goes on exactly as long as  *)
(* a test is not over, whichever of the result, the time-out and the          *)
(* cancellation comes first.                                                  *)
THEOREM PoolAlwaysAccounts == SearchSpec => []PoolAccounts
  <1>1. IInv => PoolAccounts
    BY DEF IInv, PoolInv, PoolAccounts, Untested
  <1> QED
    BY <1>1, Invariance, PTL

-----------------------------------------------------------------------------
(***************************************************************************)
(* The mirrors that are chosen                                             *)
(***************************************************************************)

(* The mirrors that correct counts: measured, and their test over.            *)
Measured == {i \in Mirrors : speed[i] > 0 /\ (i = 0 \/ thread[i] = "joined")}

(* Nothing but the mirrors with a speed, and all that are faster come before. *)
Fastest ==
    /\ chosen # <<>>
    /\ \A r \in DOMAIN chosen : speed[chosen[r]] > 0
    /\ \A r \in DOMAIN chosen, i \in Mirrors :
          speed[i] > 0 /\ speed[i] < speed[chosen[r]] => \E l \in 1..(r - 1) : chosen[l] = i

(* A test that is over has left a speed or DONE; the first mirror has a speed. *)
OverInv ==
    \A i \in Mirrors :
        /\ thread[i] = "joined" => speed[i] > 0 \/ speed[i] = DONE
        /\ i = 0 => speed[i] > 0

OrderInv ==
    /\ OverInv
    /\ step \notin {"list", "failed"} => count > 0 /\ correct = Cardinality(Measured)
    /\ step = "chosen" => Fastest

LEMMA SpeedsAreInts ==
    ASSUME IInv
    PROVE  \A i \in Mirrors : speed[i] \in Int
  <1>1. /\ Speeds \subseteq Int
        /\ ACTIVE \in Int /\ FAILED \in Int /\ DONE \in Int /\ PENDING \in Int
    BY SearchAssumption DEF ACTIVE, FAILED, DONE, PENDING
  <1>2. Speeds \cup {ACTIVE, FAILED, DONE, PENDING} \subseteq Int
    BY <1>1
  <1> QED
    BY <1>2, Types

(* An order of the mirrors names each of them. *)
LEMMA OrderCovers ==
    ASSUME count \in Nat, NEW order \in Orders
    PROVE  \A i \in Mirrors : \E a \in 1..count : order[a] = i
  <1>1. /\ order \in [1..count -> Mirrors]
        /\ \A a, b \in 1..count : a < b => order[a] # order[b] /\ ~Slower(order[a], order[b])
    BY DEF Orders
  <1>2. \A a, b \in 1..count : order[a] = order[b] => a = b
    BY <1>1
  <1>3. order \in Injection(1..count, Mirrors)
    BY <1>1, <1>2 DEF Injection, IsInjective
  <1>4. /\ IsFiniteSet(Mirrors) /\ Cardinality(Mirrors) = count
        /\ Cardinality(1..count) = count
    BY FS_Interval DEF Mirrors
  <1>5. order \in Surjection(1..count, Mirrors)
    BY <1>3, <1>4, FS_Injection
  <1> QED
    BY <1>5 DEF Surjection

(* The first correct mirrors of a sorted list are measured: if one of them was *)
(* not, none behind it would be, and there would be fewer than correct.       *)
LEMMA OrderBegins ==
    ASSUME IInv, OrderInv, step = "sort", NEW order \in Orders,
           NEW a \in 1..count, a <= correct
    PROVE  speed[order[a]] > 0
  <1>1. /\ count \in Nat /\ correct = Cardinality(Measured)
        /\ \A i \in Mirrors : speed[i] \in Int /\ (i \in Measured \/ speed[i] = DONE)
    <2>1. \A i \in Mirrors : i = 0 \/ thread[i] = "joined"
      BY DEF IInv, PoolInv, Untested
    <2>2. \A i \in Mirrors : speed[i] \in Int
      BY SpeedsAreInts
    <2> QED
      BY <2>1, <2>2, Types DEF OrderInv, OverInv, Measured
  <1> SUFFICES ASSUME ~(speed[order[a]] > 0) PROVE FALSE
    OBVIOUS
  <1>2. /\ order \in [1..count -> Mirrors]
        /\ \A c, d \in 1..count : c < d => ~Slower(order[c], order[d])
    BY DEF Orders
  <1>3. speed[order[a]] = DONE
    BY <1>1, <1>2 DEF Measured
  <1>4. \A b \in 1..count : b >= a => order[b] \notin Measured
    BY <1>1, <1>2, <1>3 DEF Slower, DONE, Measured
  <1> DEFINE before == {order[b] : b \in 1..(a - 1)}
  <1>5. Measured \subseteq before
    <2> SUFFICES ASSUME NEW i \in Measured PROVE i \in before
      OBVIOUS
    <2>1. PICK b \in 1..count : order[b] = i
      BY <1>1, OrderCovers DEF Measured
    <2>2. b \in 1..(a - 1)
      BY <1>1, <1>4, <2>1
    <2> QED
      BY <2>1, <2>2
  <1>6. IsFiniteSet(before) /\ Cardinality(before) <= a - 1
    <2> DEFINE f == [b \in 1..(a - 1) |-> order[b]]
    <2>1. f \in Surjection(1..(a - 1), before)
      <3>1. f \in [1..(a - 1) -> before]
        OBVIOUS
      <3>2. ASSUME NEW i \in before PROVE \E b \in 1..(a - 1) : f[b] = i
        <4>1. PICK b \in 1..(a - 1) : order[b] = i
          OBVIOUS
        <4>2. f[b] = order[b]
          OBVIOUS
        <4> QED
          BY <4>1, <4>2
      <3> HIDE DEF f, before
      <3> QED
        BY <3>1, <3>2 DEF Surjection
    <2> HIDE DEF f, before
    <2>2. IsFiniteSet(1..(a - 1)) /\ Cardinality(1..(a - 1)) = a - 1
      <3>1. a \in Nat \ {0} /\ 1 \in Int /\ a - 1 \in Int
        BY <1>1
      <3>2. /\ IsFiniteSet(1..(a - 1))
            /\ Cardinality(1..(a - 1)) = IF 1 > a - 1 THEN 0 ELSE (a - 1) - 1 + 1
        BY <3>1, FS_Interval
      <3> QED
        BY <3>1, <3>2
    <2>3. IsFiniteSet(before) /\ Cardinality(before) <= Cardinality(1..(a - 1))
      BY <2>1, <2>2, FS_Surjection
    <2> QED
      BY <2>2, <2>3
  <1>7. Cardinality(Measured) <= Cardinality(before)
    BY <1>5, <1>6, FS_Subset
  <1>8. Cardinality(before) \in Nat /\ Cardinality(Measured) \in Nat
    BY <1>5, <1>6, FS_Subset, FS_CardinalityType
  <1> HIDE DEF before
  <1> QED
    BY <1>1, <1>6, <1>7, <1>8

(* What main takes from the sorted list. *)
LEMMA ChooseStep ==
    ASSUME IInv, OrderInv, Choose
    PROVE  Fastest'
  <1>1. PICK order \in Orders : chosen' = SubSeq(order, 1, Wanted)
    BY DEF Choose
  <1>2. step = "sort" /\ speed' = speed /\ Mirrors' = Mirrors
    BY DEF Choose, Mirrors
  <1>3. count \in Nat /\ correct \in 1..count
    <2>1. count \in Nat /\ count > 0 /\ correct = Cardinality(Measured)
      BY <1>2, Types DEF OrderInv
    <2>2. Measured \in SUBSET Mirrors /\ 0 \in Measured
      BY <2>1 DEF Measured, Mirrors, OrderInv, OverInv
    <2>3. IsFiniteSet(Mirrors) /\ Cardinality(Mirrors) = count
      BY <2>1, FS_Interval DEF Mirrors
    <2>4. IsFiniteSet(Measured) /\ Cardinality(Measured) <= count
      BY <2>2, <2>3, FS_Subset
    <2>5. Cardinality(Measured) \in Nat /\ Cardinality(Measured) # 0
      BY <2>2, <2>4, FS_CardinalityType, FS_EmptySet
    <2> QED
      BY <2>1, <2>4, <2>5
  <1>4. Wanted \in 1..correct
    BY <1>3, SearchAssumption DEF Wanted, Least
  <1>5. /\ order \in [1..count -> Mirrors]
        /\ \A c, d \in 1..count : c < d => ~Slower(order[c], order[d])
    BY DEF Orders
  <1>6. /\ DOMAIN chosen' = 1..Wanted
        /\ \A r \in 1..Wanted : chosen'[r] = order[r]
    <2>1. \A r \in 1..Wanted : order[r] \in Mirrors
      BY <1>3, <1>4, <1>5
    <2>2. /\ chosen' \in Seq(Mirrors) /\ Len(chosen') = Wanted
          /\ \A r \in 1..Wanted : chosen'[r] = order[r]
      BY <1>1, <1>3, <1>4, <2>1, SubSeqProperties
    <2> QED
      BY <2>2
  <1>7. \A r \in 1..Wanted : r \in 1..count /\ speed[order[r]] > 0
    BY <1>2, <1>3, <1>4, OrderBegins
  <1>8. ASSUME NEW r \in 1..Wanted, NEW i \in Mirrors, speed[i] > 0, speed[i] < speed[order[r]]
        PROVE  \E l \in 1..(r - 1) : chosen'[l] = i
    <2>1. PICK l \in 1..count : order[l] = i
      BY <1>3, OrderCovers
    <2>2. speed[i] \in Int /\ speed[order[r]] \in Int
      BY <1>5, <1>7, SpeedsAreInts
    <2>3. ~(r < l) /\ r # l
      BY <1>5, <1>7, <1>8, <2>1, <2>2 DEF Slower
    <2>4. l \in 1..(r - 1) /\ l \in 1..Wanted
      BY <1>3, <1>4, <2>1, <2>3
    <2> QED
      BY <1>6, <2>1, <2>4
  <1>9. chosen' # <<>>
    BY <1>4, <1>6
  <1> QED
    BY <1>2, <1>6, <1>7, <1>8, <1>9 DEF Fastest

LEMMA OrderNext == IInv /\ OrderInv /\ [SearchNext]_searchvars => OrderInv'
  <1> SUFFICES ASSUME IInv, OrderInv, [SearchNext]_searchvars PROVE OrderInv'
    OBVIOUS
  <1>1. ASSUME UNCHANGED <<count, speed, thread, correct, chosen>>,
               step \notin {"list", "failed"}, step' # "chosen" \/ step' = step
        PROVE  OrderInv'
    <2>1. Mirrors' = Mirrors /\ Measured' = Measured
      BY <1>1 DEF Mirrors, Measured
    <2> QED
      BY <1>1, <2>1 DEF OrderInv, OverInv, Fastest
  <1>2. CASE MakeList
    <2>1. PICK n \in 1..SearchAmount, s \in Speeds :
             /\ count' = n
             /\ speed' = [i \in 0..(n - 1) |-> IF i = 0 THEN s ELSE PENDING]
             /\ thread' = [i \in 0..(n - 1) |-> "none"]
             /\ step' = IF n = 1 THEN "sort" ELSE "scan"
             /\ correct' = 1
      BY <1>2 DEF MakeList
    <2>2. n \in Nat \ {0} /\ Mirrors' = 0..(n - 1) /\ s > 0
      BY <2>1, SearchAssumption DEF Mirrors
    <2>3. Measured' = {0}
      BY <2>1, <2>2 DEF Measured, PENDING
    <2>4. Cardinality({0}) = 1
      BY FS_Singleton
    <2> QED
      BY <2>1, <2>2, <2>3, <2>4 DEF OrderInv, OverInv
  <1>3. CASE NotFound
    <2>1. UNCHANGED <<count, speed, thread>> /\ step' = "failed"
      BY <1>3 DEF NotFound
    <2> QED
      BY <2>1 DEF OrderInv, OverInv, Mirrors
  <1>4. CASE NothingToDo \/ StartFails \/ TimeOut \/ Collect
    BY <1>1, <1>4 DEF NothingToDo, StartFails, TimeOut, Collect, Ready, Advance, counters
  <1>5. CASE StartTest
    <2>1. /\ step = "scan" /\ step' \in {"scan", "sort"} /\ UNCHANGED <<count, correct>>
          /\ speed[cur] = PENDING
          /\ speed' = [speed EXCEPT ![cur] = ACTIVE] /\ thread' = [thread EXCEPT ![cur] = "testing"]
      BY <1>5 DEF StartTest, Ready, Advance
    <2>2. cur \in Mirrors /\ cur # 0 /\ thread[cur] = "none" /\ Mirrors' = Mirrors
      BY <2>1 DEF IInv, SearchTypeOK, MirrorInv, Searching, Mirrors
    <2>3. \A i \in Mirrors : /\ thread'[i] = IF i = cur THEN "testing" ELSE thread[i]
                             /\ speed'[i] = IF i = cur THEN ACTIVE ELSE speed[i]
      BY <2>1, <2>2, Types
    <2>4. Measured' = Measured
      BY <2>2, <2>3 DEF Measured
    <2> QED
      BY <2>1, <2>2, <2>3, <2>4 DEF OrderInv, OverInv
  <1>6. CASE JoinTest
    <2>1. /\ step = "join" /\ step' \in {"scan", "sort"} /\ count' = count
          /\ thread[cur] = "ended" /\ thread' = [thread EXCEPT ![cur] = "joined"]
          /\ \/ speed[cur] > 0 /\ speed' = speed /\ correct' = correct + 1
             \/ ~(speed[cur] > 0) /\ speed' = [speed EXCEPT ![cur] = DONE] /\ correct' = correct
      BY <1>6 DEF JoinTest, Usable, Advance
    <2>2. cur \in Mirrors /\ cur # 0 /\ Mirrors' = Mirrors
      BY <2>1 DEF IInv, SearchTypeOK, MirrorInv, Searching, Mirrors
    <2>3. /\ \A i \in Mirrors : thread'[i] = IF i = cur THEN "joined" ELSE thread[i]
          /\ \A i \in Mirrors : i # cur => speed'[i] = speed[i]
          /\ speed'[cur] = IF speed[cur] > 0 THEN speed[cur] ELSE DONE
      BY <2>1, <2>2, Types
    <2>4. OverInv'
      BY <2>2, <2>3 DEF OrderInv, OverInv
    <2>5. cur \notin Measured /\ Measured' = IF speed[cur] > 0 THEN Measured \cup {cur} ELSE Measured
      BY <2>1, <2>2, <2>3 DEF Measured, DONE
    <2>6. IsFiniteSet(Measured) /\ Cardinality(Measured) \in Nat
      BY Types, MirrorsFinite DEF Measured
    <2>7. Cardinality(Measured \cup {cur}) = Cardinality(Measured) + 1
      BY <2>5, <2>6, FS_AddElement
    <2> QED
      BY <2>1, <2>4, <2>5, <2>7 DEF OrderInv
  <1>7. CASE Choose
    <2>1. UNCHANGED <<count, speed, thread, correct>> /\ step = "sort" /\ step' = "chosen"
      BY <1>7 DEF Choose, counters
    <2>2. Mirrors' = Mirrors /\ Measured' = Measured
      BY <2>1 DEF Mirrors, Measured
    <2>3. Fastest'
      BY <1>7, ChooseStep
    <2> QED
      BY <2>1, <2>2, <2>3 DEF OrderInv, OverInv
  <1>8. ASSUME NEW i \in Mirrors, TestThread(i) PROVE OrderInv'
    <2>1. /\ UNCHANGED <<step, count, correct>> /\ thread[i] \in {"testing", "leaving"}
          /\ \E stage \in {"leaving", "ended"} : thread' = [thread EXCEPT ![i] = stage]
          /\ speed' = speed \/ \E s \in Speeds \cup {FAILED} : speed' = [speed EXCEPT ![i] = s]
      BY <1>8 DEF TestThread, Measure, Leave, CancelTest, ThreadOnly, counters
    <2>2. Mirrors' = Mirrors /\ i # 0 /\ i \in Untested
      BY <2>1 DEF Mirrors, IInv, MirrorInv, Untested
    <2>3. step # "chosen"
      BY <2>2 DEF IInv, PoolInv
    <2>4. /\ \A r \in Mirrors : r # i => thread'[r] = thread[r] /\ speed'[r] = speed[r]
          /\ thread'[i] \in {"leaving", "ended"}
      BY <2>1, Types
    <2>5. Measured' = Measured
      BY <2>1, <2>2, <2>4 DEF Measured
    <2> QED
      BY <2>1, <2>2, <2>3, <2>4, <2>5 DEF OrderInv, OverInv
  <1>9. CASE UNCHANGED searchvars
    <2>1. UNCHANGED <<step, count, speed, thread, correct, chosen>>
      BY <1>9 DEF searchvars, counters
    <2>2. Mirrors' = Mirrors /\ Measured' = Measured
      BY <2>1 DEF Mirrors, Measured
    <2> QED
      BY <2>1, <2>2 DEF OrderInv, OverInv, Fastest
  <1> QED
    BY <1>2, <1>3, <1>4, <1>5, <1>6, <1>7, <1>8, <1>9 DEF SearchNext, SearchStep

(* However many mirrors there are, whatever they answer and whenever their    *)
(* tests end: the download is given the mirrors that were measured, fastest   *)
(* first, and none that is still being tested can change that.                *)
THEOREM FastestAlwaysFirst == SearchSpec => []FastestFirst
  <1>1. SearchInit => OrderInv
    BY DEF SearchInit, OrderInv, OverInv, Mirrors
  <1>2. IInv /\ OrderInv => FastestFirst
    <2> SUFFICES ASSUME IInv, OrderInv PROVE FastestFirst
      OBVIOUS
    <2>1. step \in {"sort", "chosen"} => Unjoined = {}
      BY DEF IInv, PoolInv, MirrorInv, Unjoined, Untested
    <2> QED
      BY <2>1 DEF OrderInv, Fastest, FastestFirst
  <1> QED
    BY <1>1, <1>2, InitIInv, NextIInv, OrderNext, PTL DEF SearchSpec

-----------------------------------------------------------------------------
(***************************************************************************)
(* The command line: downloads one after the other                         *)
(***************************************************************************)
Multi == cmd.mode = "series" /\ NEpisodes > 1
OneUrl == IF cmd.mode = "series" THEN cmd.episodes[1].media ELSE cmd.url
Opened == {"opened", "loop", "data", "ready"}

(* A state file is that of a file, and a download finds one before it writes, *)
(* unless its file is a new one.  No file that is written to is whole.        *)
DiskInv ==
    /\ files = [n \in DOMAIN files |-> [from |-> files[n].from, whole |-> files[n].whole]]
    /\ \A n \in DOMAIN files : files[n].whole \in BOOLEAN
    /\ states \subseteq DOMAIN files
    /\ dl = [phase |-> dl.phase, url |-> dl.url, out |-> dl.out, name |-> dl.name,
             fresh |-> dl.fresh, ret |-> dl.ret]
    /\ dl.phase \in Opened => Exists(dl.name)
    /\ dl.phase \in {"opened", "loop"} => HasState(dl.name) \/ (dl.fresh /\ files[dl.name] = Empty)
    /\ dl.phase \in {"data", "ready"} => dl.url \in files[dl.name].from
    /\ dl.phase = "data" => ~files[dl.name].whole /\ (Supports(dl.url) => HasState(dl.name))
    /\ dl.phase = "ready" => files[dl.name].whole \/ cutshort # {}

(* Where main is, and what the download it waits for is of.                   *)
PlaceInv ==
    /\ cmd \in Commands /\ k \in Nat \ {0} /\ failed \in Nat
    /\ pc \in {"main", "search", "expand", "exit"} => dl.phase = "none"
    /\ pc \in {"main", "search", "expand"} => run /\ ~handlers /\ k = 1
    /\ pc = "expand" => Batch
    /\ pc = "batch" => Batch /\ at = "expanded"
    /\ pc = "series" => Multi
    /\ pc = "search" => cmd.mode = "search"
    /\ pc = "one" => ~Batch /\ ~Multi
    /\ series = [eps |-> series.eps, path |-> series.path, ondisk |-> series.ondisk, sel |-> series.sel,
                 todo |-> series.todo, attempted |-> series.attempted]
    /\ \E S : items \in Seq(S)

AimInv ==
    /\ (dl.phase # "none" /\ Batch) =>
         /\ pc \in {"batch", "down"} /\ dl.phase # "hls" /\ k \in DOMAIN items
         /\ dl.url = items[k].url /\ dl.out = ResolveOutname(cmd.out, items[k])
         /\ dl.phase \in Opened => dl.name \in NamesOf(items[k])
    /\ (dl.phase # "none" /\ Multi) =>
         /\ pc \in {"series", "down"} /\ k \in series.sel /\ k \notin series.ondisk
         /\ dl.out = series.path[k] /\ dl.out # <<>> /\ dl.out \notin Directories
         /\ dl.phase \in {"new", "hls"} => ~Exists(dl.out)
         /\ dl.phase \in Opened => dl.name = dl.out
    /\ (dl.phase # "none" /\ ~Batch /\ ~Multi) => pc \in {"one", "down"} /\ dl.url = OneUrl

(* Before the URL of a batch is expanded, nothing is downloaded.              *)
UntouchedInv ==
    (Batch /\ at # "expanded") =>
        /\ states = {} /\ dl.phase = "none"
        /\ \A n \in DOMAIN files : files[n].from = {Other}

(* In the first run, there is no state file but that of the download in hand  *)
(* and of one that was interrupted, which is the last.                        *)
FirstRunInv ==
    /\ runs \in Nat \ {0}
    /\ (runs = 1 /\ gaveup = {}) =>
        /\ dl.phase \in {"new", "hls", "opened", "loop"} => states = {}
        /\ dl.phase \in {"data", "ready"} => states \subseteq {dl.name}
        /\ (dl.phase \in {"none", "returned"} /\ run /\ pc # "down") => states = {}

(* What is left to be resumed is of the URL that would resume it.             *)
LeftInv ==
    gaveup = {} =>
        /\ OwnNames /\ Batch => \A n \in states : \E i \in DOMAIN items :
                             n \in NamesOf(items[i]) /\ files[n].from \subseteq {items[i].url}
        /\ ~Batch /\ ~Multi => \A n \in states : files[n].from \subseteq {OneUrl}

PureInv ==
    (gaveup = {} /\ NamesApart) =>
        /\ dl.phase \in Opened => files[dl.name].from \subseteq {dl.url}
        /\ \A n \in DOMAIN files : \A u, v \in files[n].from : u = v

SavedInv ==
    (Batch /\ NoneMisjudged /\ NamesApart) =>
        /\ (pc = "batch" /\ failed = 0) =>
             \A i \in DOMAIN items : i < k => \E n \in DOMAIN files : Saved(n, items[i].url)
        /\ (dl.phase = "returned" /\ dl.ret = 0) => \E n \in DOMAIN files : Saved(n, dl.url)
        /\ (pc = "exit" /\ ret = 0) =>
             \A i \in DOMAIN items : \E n \in DOMAIN files : Saved(n, items[i].url)

Due == series.sel \ series.ondisk
Attempted == {i \in Due : i < k \/ (i = k /\ dl.phase # "none")}
Done(name) == Exists(name) /\ files[name].whole /\ ~HasState(name)

(* Every attempt was at an episode of its own, and a file that was not there  *)
(* is whole, but for that of the download in hand or of one that failed.      *)
SeriesInv ==
    /\ series.sel \subseteq 1..NEpisodes /\ (series.sel # {} => Multi)
    /\ \A i \in series.sel : i \in series.ondisk => OnDisk(series.path[i])
    /\ \A i \in Due : series.path[i] # <<>> => series.path[i] \notin Directories
    /\ pc = "series" => /\ series.attempted \in Nat /\ series.attempted <= Cardinality(Attempted)
                        /\ series.todo = Cardinality(Due)
    /\ (NoneMisjudged /\ dl.phase = "returned" /\ dl.ret = 0 /\ Multi) => Done(dl.out)
    /\ (NoneMisjudged /\ pc = "series" /\ failed = 0) =>
         /\ \A i \in series.sel : i < k => OnDisk(series.path[i])
         /\ \A i \in Due : OnDisk(series.path[i]) =>
              \/ Done(series.path[i])
              \/ dl.phase \in Opened /\ dl.name = series.path[i]
              \/ dl.phase = "returned" /\ dl.ret # 0
    /\ (NoneMisjudged /\ pc = "exit" /\ ret = 0) =>
         \A i \in series.sel : OnDisk(series.path[i]) /\ (i \in Due => Done(series.path[i]))


-----------------------------------------------------------------------------
(* No file is ever removed, so a state file always has its file.              *)
LEMMA StatesKept ==
    ASSUME DiskInv, NEW name
    PROVE  StatesFor(name) = states
  BY DEF DiskInv, StatesFor, Exists

LEMMA Fields ==
    ASSUME DiskInv
    PROVE  /\ \A p : [dl EXCEPT !.phase = p] =
                [phase |-> p, url |-> dl.url, out |-> dl.out, name |-> dl.name, fresh |-> dl.fresh, ret |-> dl.ret]
           /\ \A r : [dl EXCEPT !.phase = "returned", !.ret = r] =
                [phase |-> "returned", url |-> dl.url, out |-> dl.out, name |-> dl.name, fresh |-> dl.fresh, ret |-> r]
           /\ \A n, f : [dl EXCEPT !.phase = "opened", !.name = n, !.fresh = f] =
                [phase |-> "opened", url |-> dl.url, out |-> dl.out, name |-> n, fresh |-> f, ret |-> dl.ret]
  <1> PICK ph, u, o, m, g, e :
        dl = [phase |-> ph, url |-> u, out |-> o, name |-> m, fresh |-> g, ret |-> e]
    BY DEF DiskInv
  <1>1. \A p : [dl EXCEPT !.phase = p] =
          [phase |-> p, url |-> dl.url, out |-> dl.out, name |-> dl.name, fresh |-> dl.fresh, ret |-> dl.ret]
    OBVIOUS
  <1>2. \A r : [dl EXCEPT !.phase = "returned", !.ret = r] =
          [phase |-> "returned", url |-> dl.url, out |-> dl.out, name |-> dl.name, fresh |-> dl.fresh, ret |-> r]
    <2> TAKE r
    <2> DEFINE d == [dl EXCEPT !.phase = "returned"]
    <2>1. d = [phase |-> "returned", url |-> u, out |-> o, name |-> m, fresh |-> g, ret |-> e]
      OBVIOUS
    <2> HIDE DEF d
    <2>2. [d EXCEPT !.ret = r] = [phase |-> "returned", url |-> u, out |-> o, name |-> m, fresh |-> g, ret |-> r]
      BY <2>1
    <2> QED
      BY <2>2 DEF d
  <1>3. \A n, f : [dl EXCEPT !.phase = "opened", !.name = n, !.fresh = f] =
          [phase |-> "opened", url |-> dl.url, out |-> dl.out, name |-> n, fresh |-> f, ret |-> dl.ret]
    <2> TAKE n, f
    <2> DEFINE d == [dl EXCEPT !.phase = "opened"]
               c == [d EXCEPT !.name = n]
    <2>1. d = [phase |-> "opened", url |-> u, out |-> o, name |-> m, fresh |-> g, ret |-> e]
      OBVIOUS
    <2> HIDE DEF d
    <2>2. c = [phase |-> "opened", url |-> u, out |-> o, name |-> n, fresh |-> g, ret |-> e]
      BY <2>1
    <2> HIDE DEF c
    <2>3. [c EXCEPT !.fresh = f] = [phase |-> "opened", url |-> u, out |-> o, name |-> n, fresh |-> f, ret |-> e]
      BY <2>2
    <2> QED
      BY <2>3 DEF c, d
  <1> QED
    BY <1>1, <1>2, <1>3

(* The name that is taken: with a state file if it is that of a file.         *)
LEMMA Taken ==
    ASSUME Named, ~Refused(dl.url, dl.out)
    PROVE  /\ Exists(Target(dl.url, dl.out)) => HasState(Target(dl.url, dl.out))
           /\ dl.out = <<>> => \E i \in 0..MaxNumber : Target(dl.url, dl.out) = Numbered(Leaf(dl.url), i)
           /\ dl.out # <<>> => Target(dl.url, dl.out) = InDirectory(dl.url, dl.out)
  <1>1. CASE dl.out # <<>>
    BY <1>1 DEF Refused, NoStateFile, Target
  <1>2. CASE dl.out = <<>>
    <2>1. FreeNumbers(dl.url) # {} /\ FreeNumbers(dl.url) \in SUBSET Nat
      BY <1>2 DEF Named, FreeNumbers
    <2>2. Min(FreeNumbers(dl.url)) \in FreeNumbers(dl.url)
      BY <2>1, LeastExists
    <2>3. PICK i \in 0..MaxNumber : i = Min(FreeNumbers(dl.url)) /\ Takes(dl.url, Numbered(Leaf(dl.url), i))
      BY <2>2 DEF FreeNumbers
    <2>4. Target(dl.url, dl.out) = Numbered(Leaf(dl.url), i)
      BY <1>2, <2>3 DEF Target
    <2> QED
      BY <1>2, <2>3, <2>4 DEF Takes
  <1> QED
    BY <1>1, <1>2

LEMMA OpenDoes ==
    ASSUME DiskInv, Open
    PROVE  \E name :
             /\ name = Target(dl.url, dl.out)
             /\ states' = states
             /\ IF Exists(name) THEN HasState(name) /\ files' = files
                ELSE files' = With(name, Empty)
             /\ dl' = [phase |-> "opened", url |-> dl.url, out |-> dl.out, name |-> name,
                       fresh |-> ~(Supports(dl.url) /\ name \in states), ret |-> dl.ret]
  <1> DEFINE name == Target(dl.url, dl.out)
  <1>1. /\ states' = StatesFor(name)
        /\ files' = (IF Exists(name) THEN files ELSE With(name, Empty))
        /\ dl' = [dl EXCEPT !.phase = "opened", !.name = name,
                            !.fresh = ~(Supports(dl.url) /\ name \in states')]
    BY DEF Open
  <1>2. Exists(name) => HasState(name)
    BY Taken DEF Open
  <1>3. name = Target(dl.url, dl.out)
    OBVIOUS
  <1> HIDE DEF name
  <1>4. states' = states
    BY <1>1, StatesKept
  <1>5. dl' = [phase |-> "opened", url |-> dl.url, out |-> dl.out, name |-> name,
               fresh |-> ~(Supports(dl.url) /\ name \in states), ret |-> dl.ret]
    <2>1. \A n, f : [dl EXCEPT !.phase = "opened", !.name = n, !.fresh = f] =
            [phase |-> "opened", url |-> dl.url, out |-> dl.out, name |-> n, fresh |-> f, ret |-> dl.ret]
      BY Fields
    <2> QED
      BY <1>1, <1>4, <2>1
  <1> QED
    BY <1>1, <1>2, <1>3, <1>4, <1>5

LEMMA FluxDoDoes ==
    ASSUME DiskInv, FluxDo
    PROVE  /\ states' = IF Supports(dl.url) THEN states \cup {dl.name} ELSE states
           /\ files' = [n \in DOMAIN files |->
                IF n = dl.name THEN [from |-> files[n].from \cup {dl.url}, whole |-> FALSE] ELSE files[n]]
           /\ dl' = [phase |-> "data", url |-> dl.url, out |-> dl.out, name |-> dl.name,
                     fresh |-> dl.fresh, ret |-> dl.ret]
  <1>1. /\ states' = IF Supports(dl.url) THEN states \cup {dl.name} ELSE states
        /\ files' = [files EXCEPT ![dl.name] = [from |-> @.from \cup {dl.url}, whole |-> FALSE]]
        /\ dl' = [dl EXCEPT !.phase = "data"]
    BY DEF FluxDo, SaveState
  <1>2. [dl EXCEPT !.phase = "data"] =
          [phase |-> "data", url |-> dl.url, out |-> dl.out, name |-> dl.name, fresh |-> dl.fresh, ret |-> dl.ret]
    BY Fields
  <1>3. files = [n \in DOMAIN files |-> files[n]]
    BY DEF DiskInv
  <1> QED
    BY <1>1, <1>2, <1>3

LEMMA CompleteDoes ==
    ASSUME DiskInv, Complete
    PROVE  /\ files' = [n \in DOMAIN files |->
                IF n = dl.name THEN [from |-> IF dl.fresh THEN {dl.url} ELSE files[n].from, whole |-> TRUE]
                ELSE files[n]]
           /\ dl' = [phase |-> "ready", url |-> dl.url, out |-> dl.out, name |-> dl.name,
                     fresh |-> dl.fresh, ret |-> dl.ret]
  <1>1. /\ files' = [files EXCEPT ![dl.name] = [from |-> IF dl.fresh THEN {dl.url} ELSE @.from, whole |-> TRUE]]
        /\ dl' = [dl EXCEPT !.phase = "ready"]
    BY DEF Complete
  <1>2. [dl EXCEPT !.phase = "ready"] =
          [phase |-> "ready", url |-> dl.url, out |-> dl.out, name |-> dl.name, fresh |-> dl.fresh, ret |-> dl.ret]
    BY Fields
  <1>3. files = [n \in DOMAIN files |-> files[n]]
    BY DEF DiskInv
  <1> QED
    BY <1>1, <1>2, <1>3

LEMMA ReturnDoes ==
    ASSUME DiskInv, NEW r, Return(r)
    PROVE  dl' = [phase |-> "returned", url |-> dl.url, out |-> dl.out, name |-> dl.name,
                  fresh |-> dl.fresh, ret |-> r]
  BY Fields DEF Return

(* A record of five fields is one, and so are the entries of files.           *)
LEMMA DiskReturned ==
    ASSUME DiskInv, NEW r, Return(r), UNCHANGED files, states' \subseteq DOMAIN files
    PROVE  DiskInv'
  <1>1. dl' = [phase |-> "returned", url |-> dl.url, out |-> dl.out, name |-> dl.name,
               fresh |-> dl.fresh, ret |-> r]
    BY ReturnDoes
  <1> QED
    BY <1>1 DEF DiskInv, Opened

LEMMA DiskDownload ==
    ASSUME DiskInv, DownloadNext
    PROVE  DiskInv'
  <1>0. states \subseteq DOMAIN files
    BY DEF DiskInv
  <1>1. CASE FluxNewDeclines \/ FluxNewFails \/ RefuseName \/ HlsFails \/ GiveUp \/ CloseReady
    <2>1. (\E r : Return(r)) /\ UNCHANGED files /\ states' \subseteq states
      BY <1>1 DEF FluxNewDeclines, FluxNewFails, RefuseName, HlsFails, GiveUp, CloseReady
    <2> QED
      BY <1>0, <2>1, DiskReturned
  <1>2. CASE OpenFails
    <2>1. Return(1) /\ UNCHANGED files /\ states' = StatesFor(Target(dl.url, dl.out))
      BY <1>2 DEF OpenFails
    <2>2. states' = states
      BY <2>1, StatesKept
    <2> QED
      BY <1>0, <2>1, <2>2, DiskReturned
  <1>3. CASE CloseInterrupted
    <2>1. Return(2) /\ UNCHANGED files /\ states' \subseteq states \cup {dl.name} /\ dl.phase \in {"loop", "data"}
      BY <1>3 DEF CloseInterrupted, SaveState
    <2>2. dl.name \in DOMAIN files
      BY <2>1 DEF DiskInv, Opened, Exists
    <2> QED
      BY <1>0, <2>1, <2>2, DiskReturned
  <1>4. CASE Open
    <2>1. PICK name :
             /\ states' = states
             /\ IF Exists(name) THEN HasState(name) /\ files' = files
                ELSE files' = With(name, Empty)
             /\ dl' = [phase |-> "opened", url |-> dl.url, out |-> dl.out, name |-> name,
                       fresh |-> ~(Supports(dl.url) /\ name \in states), ret |-> dl.ret]
      BY <1>4, OpenDoes
    <2>2. CASE Exists(name)
      BY <2>1, <2>2 DEF DiskInv, Opened, Exists, HasState
    <2>3. CASE ~Exists(name)
      <3>1. /\ files' = [n \in DOMAIN files \cup {name} |-> IF n = name THEN Empty ELSE files[n]]
            /\ Empty = [from |-> Empty.from, whole |-> Empty.whole] /\ Empty.whole \in BOOLEAN
        BY <2>1, <2>3 DEF With, Empty
      <3>2. DOMAIN files' = DOMAIN files \cup {name} /\ files'[name] = Empty /\ name \notin states
        BY <1>0, <2>3, <3>1 DEF Exists
      <3>3. /\ files' = [n \in DOMAIN files' |-> [from |-> files'[n].from, whole |-> files'[n].whole]]
            /\ \A n \in DOMAIN files' : files'[n].whole \in BOOLEAN
        BY <3>1 DEF DiskInv
      <3> QED
        BY <1>0, <2>1, <3>2, <3>3 DEF DiskInv, Opened, Exists, HasState
    <2> QED
      BY <2>2, <2>3
  <1>5. CASE InstallHandlers
    <2>1. /\ UNCHANGED <<files, states>> /\ dl.phase = "opened"
          /\ dl' = [dl EXCEPT !.phase = "loop"]
      BY <1>5 DEF InstallHandlers
    <2>2. dl' = [phase |-> "loop", url |-> dl.url, out |-> dl.out, name |-> dl.name, fresh |-> dl.fresh, ret |-> dl.ret]
      BY <2>1, Fields
    <2> QED
      BY <2>1, <2>2 DEF DiskInv, Opened, Exists, HasState
  <1>6. CASE FluxDo
    <2>1. /\ states' = IF Supports(dl.url) THEN states \cup {dl.name} ELSE states
          /\ files' = [n \in DOMAIN files |->
               IF n = dl.name THEN [from |-> files[n].from \cup {dl.url}, whole |-> FALSE] ELSE files[n]]
          /\ dl' = [phase |-> "data", url |-> dl.url, out |-> dl.out, name |-> dl.name,
                    fresh |-> dl.fresh, ret |-> dl.ret]
      BY <1>6, FluxDoDoes
    <2>2. dl.name \in DOMAIN files
      BY <1>6 DEF FluxDo, DiskInv, Opened, Exists
    <2>3. DOMAIN files' = DOMAIN files /\ dl.url \in files'[dl.name].from /\ ~files'[dl.name].whole
      BY <2>1, <2>2
    <2>4. /\ files' = [n \in DOMAIN files' |-> [from |-> files'[n].from, whole |-> files'[n].whole]]
          /\ \A n \in DOMAIN files' : files'[n].whole \in BOOLEAN
      BY <2>1 DEF DiskInv
    <2> QED
      BY <1>0, <2>1, <2>2, <2>3, <2>4 DEF DiskInv, Opened, Exists, HasState, Supports
  <1>7. CASE Complete
    <2>1. /\ UNCHANGED states
          /\ files' = [n \in DOMAIN files |->
               IF n = dl.name THEN [from |-> IF dl.fresh THEN {dl.url} ELSE files[n].from, whole |-> TRUE]
               ELSE files[n]]
          /\ dl' = [phase |-> "ready", url |-> dl.url, out |-> dl.out, name |-> dl.name,
                    fresh |-> dl.fresh, ret |-> dl.ret]
      BY <1>7, CompleteDoes DEF Complete
    <2>2. dl.name \in DOMAIN files /\ dl.url \in files[dl.name].from
      BY <1>7 DEF Complete, DiskInv, Opened, Exists, HasState
    <2>3. DOMAIN files' = DOMAIN files /\ dl.url \in files'[dl.name].from /\ files'[dl.name].whole
      BY <2>1, <2>2
    <2>4. /\ files' = [n \in DOMAIN files' |-> [from |-> files'[n].from, whole |-> files'[n].whole]]
          /\ \A n \in DOMAIN files' : files'[n].whole \in BOOLEAN
      BY <2>1 DEF DiskInv
    <2> QED
      BY <1>0, <2>1, <2>2, <2>3, <2>4 DEF DiskInv, Opened, Exists, HasState
  <1>8. CASE HlsDone
    <2>1. PICK name : files' = With(name, [from |-> {dl.url}, whole |-> TRUE]) /\ UNCHANGED states
      BY <1>8 DEF HlsDone
    <2>2. dl' = [phase |-> "returned", url |-> dl.url, out |-> dl.out, name |-> dl.name,
                 fresh |-> dl.fresh, ret |-> 0]
      BY <1>8, ReturnDoes DEF HlsDone
    <2>3. files' = [n \in DOMAIN files \cup {name} |->
                      IF n = name THEN [from |-> {dl.url}, whole |-> TRUE] ELSE files[n]]
      BY <2>1 DEF With
    <2>4. /\ DOMAIN files' = DOMAIN files \cup {name}
          /\ files' = [n \in DOMAIN files' |-> [from |-> files'[n].from, whole |-> files'[n].whole]]
          /\ \A n \in DOMAIN files' : files'[n].whole \in BOOLEAN
      BY <2>3 DEF DiskInv
    <2> QED
      BY <1>0, <2>1, <2>2, <2>4 DEF DiskInv, Opened
  <1>9. CASE BreakOff
    <2>1. /\ UNCHANGED <<files, states>> /\ dl.phase = "data" /\ cutshort' # {}
          /\ dl' = [dl EXCEPT !.phase = "ready"]
      BY <1>9 DEF BreakOff
    <2>2. dl' = [phase |-> "ready", url |-> dl.url, out |-> dl.out, name |-> dl.name, fresh |-> dl.fresh, ret |-> dl.ret]
      BY <2>1, Fields
    <2> QED
      BY <2>1, <2>2 DEF DiskInv, Opened, Exists, HasState
  <1> QED
    BY <1>1, <1>2, <1>3, <1>4, <1>5, <1>6, <1>7, <1>8, <1>9 DEF DownloadNext

-----------------------------------------------------------------------------
(* What main does beside a download leaves the directory as it is.            *)
MainStep ==
    \/ DoSearch \/ Searches \/ SearchOver
    \/ DoOne \/ OneOver \/ ResolveFails
    \/ DoExpand \/ Expands \/ ExpandOver \/ BatchNext \/ ItemOver \/ BatchOver
    \/ DoSeries \/ NoSelection \/ SkipEpisode \/ DownloadEpisode \/ SeriesOver
    \/ Signal \/ Die \/ Again

Begun(d) == \E p, u, o : p \in {"new", "hls"} /\ d = New(p, u, o)

LEMMA MediaBegins == \A u, o : Begun(Media(u, o))
  BY DEF Media, Begun

LEMMA MainFrame ==
    ASSUME MainStep
    PROVE  /\ UNCHANGED <<files, states, gaveup, cutshort, cmd>>
           /\ dl' = dl \/ dl' = NoDownload \/ Begun(dl')
  <1>1. CASE DoSearch \/ Searches \/ ResolveFails \/ DoExpand \/ Expands \/ ExpandOver \/ BatchOver
             \/ DoSeries \/ NoSelection \/ SkipEpisode \/ SeriesOver \/ Signal \/ Die
    BY <1>1 DEF DoSearch, Searches, ResolveFails, DoExpand, Expands, ExpandOver, BatchOver, DoSeries,
       NoSelection, SkipEpisode, SeriesOver, Signal, Die, SameDisk, dlvars
  <1>2. CASE OneOver \/ ItemOver \/ Again
    BY <1>2 DEF OneOver, ItemOver, Again, SameDisk
  <1>3. CASE SearchOver \/ BatchNext
    BY <1>3 DEF SearchOver, BatchNext, SameDisk, Begun
  <1>4. CASE DoOne
    BY <1>4, MediaBegins DEF DoOne, SameDisk, Begun
  <1>5. CASE DownloadEpisode
    BY <1>5, MediaBegins DEF DownloadEpisode, SameDisk
  <1> QED
    BY <1>1, <1>2, <1>3, <1>4, <1>5 DEF MainStep

LEMMA Update ==
    ASSUME NEW p, NEW u, NEW o, NEW n, NEW f, NEW r, NEW x
    PROVE  LET d == [phase |-> p, url |-> u, out |-> o, name |-> n, fresh |-> f, ret |-> r]
           IN  /\ [d EXCEPT !.phase = x] = [phase |-> x, url |-> u, out |-> o, name |-> n, fresh |-> f, ret |-> r]
               /\ [d EXCEPT !.url = x] = [phase |-> p, url |-> x, out |-> o, name |-> n, fresh |-> f, ret |-> r]
               /\ [d EXCEPT !.out = x] = [phase |-> p, url |-> u, out |-> x, name |-> n, fresh |-> f, ret |-> r]
  OBVIOUS

LEMMA NewFields ==
    \A p, u, o : New(p, u, o) = [phase |-> p, url |-> u, out |-> o, name |-> <<>>, fresh |-> FALSE, ret |-> 0]
  <1> TAKE p, u, o
  <1> DEFINE d == [NoDownload EXCEPT !.phase = p]
             c == [d EXCEPT !.url = u]
  <1>0. PICK z, e, f, r : z = "none" /\ e = <<>> /\ f = FALSE /\ r = 0
    OBVIOUS
  <1>1. NoDownload = [phase |-> z, url |-> e, out |-> e, name |-> e, fresh |-> f, ret |-> r]
    BY <1>0 DEF NoDownload
  <1>2. d = [phase |-> p, url |-> e, out |-> e, name |-> e, fresh |-> f, ret |-> r]
    BY <1>1, Update
  <1> HIDE DEF d
  <1>3. c = [phase |-> p, url |-> u, out |-> e, name |-> e, fresh |-> f, ret |-> r]
    BY <1>2, Update
  <1> HIDE DEF c
  <1>4. [c EXCEPT !.out = o] = [phase |-> p, url |-> u, out |-> o, name |-> e, fresh |-> f, ret |-> r]
    BY <1>3, Update
  <1> QED
    BY <1>0, <1>4 DEF New, c, d

LEMMA DiskMain ==
    ASSUME DiskInv, MainStep
    PROVE  DiskInv'
  <1>1. UNCHANGED <<files, states, cutshort>> /\ (dl' = dl \/ dl' = NoDownload \/ Begun(dl'))
    BY MainFrame
  <1>2. CASE dl' = dl
    BY <1>1, <1>2 DEF DiskInv, Exists, HasState, Supports
  <1>3. CASE dl' = NoDownload
    BY <1>1, <1>3 DEF DiskInv, NoDownload, Opened
  <1>4. CASE Begun(dl')
    <2>1. PICK p, u, o : p \in {"new", "hls"} /\ dl' = New(p, u, o)
      BY <1>4 DEF Begun
    <2>2. dl' = [phase |-> p, url |-> u, out |-> o, name |-> <<>>, fresh |-> FALSE, ret |-> 0]
      BY <2>1, NewFields
    <2> QED
      BY <1>1, <2>1, <2>2 DEF DiskInv, Opened
  <1> QED
    BY <1>1, <1>2, <1>3, <1>4

LEMMA DiskInit == CLInit => DiskInv
  <1> SUFFICES ASSUME CLInit PROVE DiskInv
    OBVIOUS
  <1>1. PICK names : files = [n \in names |-> [from |-> {Other}, whole |-> TRUE]]
    BY DEF CLInit
  <1>2. states = {} /\ dl = NoDownload
    BY DEF CLInit
  <1> QED
    BY <1>1, <1>2 DEF DiskInv, NoDownload, Opened

-----------------------------------------------------------------------------
(* What a step of a download does to the record of it.                        *)
LEMMA DownloadShape ==
    ASSUME DiskInv, DownloadNext
    PROVE  /\ cmd' = cmd /\ dl.phase \notin {"none", "returned"}
           /\ dl'.url = dl.url /\ dl'.out = dl.out
           /\ dl'.phase = "returned" \/ (dl'.phase \in Opened /\ dl.phase \in Opened \cup {"new"})
           /\ dl.phase = "new" /\ dl'.phase \in Opened => Open
           /\ dl.phase \in Opened => dl'.name = dl.name
           /\ run' = run
  <1>1. CASE FluxNewDeclines \/ FluxNewFails \/ RefuseName \/ OpenFails \/ CloseReady \/ GiveUp \/ CloseInterrupted
             \/ HlsDone \/ HlsFails
    <2>1. cmd' = cmd /\ run' = run /\ dl.phase \notin {"none", "returned"} /\ \E r : Return(r)
      BY <1>1 DEF FluxNewDeclines, FluxNewFails, RefuseName, OpenFails, CloseReady, GiveUp, CloseInterrupted,
                  HlsDone, HlsFails, Connecting
    <2>2. PICK r : Return(r)
      BY <2>1
    <2>3. dl' = [phase |-> "returned", url |-> dl.url, out |-> dl.out, name |-> dl.name,
                 fresh |-> dl.fresh, ret |-> r]
      BY <2>2, ReturnDoes
    <2> QED
      BY <2>1, <2>3 DEF Opened
  <1>2. CASE Open
    <2>1. PICK name : dl' = [phase |-> "opened", url |-> dl.url, out |-> dl.out, name |-> name,
                             fresh |-> ~(Supports(dl.url) /\ name \in states), ret |-> dl.ret]
      BY <1>2, OpenDoes
    <2>2. cmd' = cmd /\ run' = run /\ dl.phase = "new"
      BY <1>2 DEF Open, Connecting
    <2> QED
      BY <1>2, <2>1, <2>2 DEF Opened
  <1>3. CASE InstallHandlers \/ FluxDo \/ Complete \/ BreakOff
    <2>1. PICK p \in {"loop", "data", "ready"} : dl' = [dl EXCEPT !.phase = p]
      BY <1>3 DEF InstallHandlers, FluxDo, Complete, BreakOff
    <2>2. dl' = [phase |-> p, url |-> dl.url, out |-> dl.out, name |-> dl.name, fresh |-> dl.fresh, ret |-> dl.ret]
      BY <2>1, Fields
    <2>3. cmd' = cmd /\ run' = run /\ dl.phase \in Opened /\ dl.phase # "new"
      BY <1>3 DEF InstallHandlers, FluxDo, Complete, BreakOff, Opened
    <2> QED
      BY <2>1, <2>2, <2>3 DEF Opened
  <1> QED
    BY <1>1, <1>2, <1>3 DEF DownloadNext

LEMMA DownloadingFrame ==
    ASSUME Downloading
    PROVE  /\ DownloadNext
           /\ UNCHANGED <<pc, k, failed, series, ret, runs>>
           /\ UNCHANGED <<src, at, pos, lit_start, segs, product, idx, items>>
  BY DEF Downloading, IdleGlob, mainvars, globvars

LEMMA BatchSame ==
    ASSUME UNCHANGED cmd
    PROVE  Batch' = Batch /\ Multi' = Multi /\ NEpisodes' = NEpisodes /\ OneUrl' = OneUrl
  BY DEF Batch, Multi, NEpisodes, OneUrl, IsPlaylist

LEMMA EpisodeFields ==
    ASSUME NEW e, NEW p, NEW o, NEW s, NEW t, NEW a, NEW b,
           series = [eps |-> e, path |-> p, ondisk |-> o, sel |-> s, todo |-> t, attempted |-> a]
    PROVE  [series EXCEPT !.attempted = b] =
             [eps |-> e, path |-> p, ondisk |-> o, sel |-> s, todo |-> t, attempted |-> b]
  OBVIOUS

LEMMA AttemptFields ==
    ASSUME PlaceInv, DownloadEpisode
    PROVE  series' = [eps |-> series.eps, path |-> series.path, ondisk |-> series.ondisk, sel |-> series.sel,
                      todo |-> series.todo, attempted |-> series.attempted + 1]
  <1> PICK e, p, o, s, t, a :
        series = [eps |-> e, path |-> p, ondisk |-> o, sel |-> s, todo |-> t, attempted |-> a]
    BY DEF PlaceInv
  <1>1. series' = [series EXCEPT !.attempted = a + 1]
    BY DEF DownloadEpisode
  <1>2. series' = [eps |-> e, path |-> p, ondisk |-> o, sel |-> s, todo |-> t, attempted |-> a + 1]
    BY <1>1, EpisodeFields
  <1> QED
    BY <1>2

LEMMA PlaceDownload ==
    ASSUME DiskInv, PlaceInv, Downloading
    PROVE  PlaceInv'
  <1>1. /\ UNCHANGED <<cmd, pc, k, failed, at, series, items>> /\ dl.phase # "none" /\ run' = run
    BY DownloadingFrame, DownloadShape
  <1> QED
    BY <1>1, BatchSame DEF PlaceInv

LEMMA NoneIsNone == NoDownload.phase = "none"
  BY DEF NoDownload

LEMMA ItemsGrow ==
    ASSUME NEW S, items \in Seq(S), GlobNext
    PROVE  \E T : items' \in Seq(T)
  <1>1. CASE UNCHANGED items
    BY <1>1
  <1>2. CASE Generate
    <2>1. PICK x : items' = items \/ items' = Append(items, x)
      BY <1>2 DEF Generate
    <2>2. items \in Seq(S \cup {x}) /\ Append(items, x) \in Seq(S \cup {x})
      OBVIOUS
    <2> QED
      BY <2>1, <2>2
  <1> QED
    BY <1>1, <1>2 DEF GlobNext, ScanLiteral, ScanPattern, ScanError, ScanEnd

LEMMA ItemsMain ==
    ASSUME PlaceInv, MainStep
    PROVE  /\ Expands \/ (DoExpand /\ at = "idle") \/ UNCHANGED <<at, items, segs, product>>
           /\ \E S : items' \in Seq(S)
  <1>1. PICK S : items \in Seq(S)
    BY DEF PlaceInv
  <1>2. CASE Expands
    BY <1>1, <1>2, ItemsGrow DEF Expands
  <1>3. CASE DoExpand
    <2>1. GlobStart(cmd.url) => items' = <<>>
      BY DEF GlobStart
    <2>2. <<>> \in Seq(S)
      OBVIOUS
    <2> QED
      BY <1>1, <1>3, <2>1, <2>2 DEF DoExpand, IdleGlob, globvars
  <1>4. CASE ~Expands /\ ~DoExpand
    <2>1. IdleGlob
      BY <1>4 DEF MainStep, DoSearch, Searches, SearchOver, DoOne, OneOver, ResolveFails, ExpandOver, BatchNext,
         ItemOver, BatchOver, DoSeries, NoSelection, SkipEpisode, DownloadEpisode, SeriesOver, Signal, Die, Again
    <2> QED
      BY <1>1, <2>1 DEF IdleGlob, globvars
  <1> QED
    BY <1>2, <1>3, <1>4

LEMMA SeriesTyped ==
    ASSUME PlaceInv, MainStep
    PROVE  series' = [eps |-> series'.eps, path |-> series'.path, ondisk |-> series'.ondisk, sel |-> series'.sel,
                      todo |-> series'.todo, attempted |-> series'.attempted]
  <1>1. CASE UNCHANGED series
    BY <1>1 DEF PlaceInv
  <1>2. CASE DoSeries
    BY <1>2 DEF DoSeries
  <1>3. CASE DownloadEpisode
    BY <1>3, AttemptFields
  <1>4. CASE Again
    BY <1>4 DEF Again, NoSeries
  <1> QED
    BY <1>1, <1>2, <1>3, <1>4
    DEF MainStep, DoSearch, Searches, SearchOver, DoOne, OneOver, ResolveFails, DoExpand, Expands, ExpandOver, BatchNext,
        ItemOver, BatchOver, NoSelection, SkipEpisode, SeriesOver, Signal, Die, mainvars

LEMMA PlaceMain ==
    ASSUME DiskInv, PlaceInv, MainStep
    PROVE  PlaceInv'
  <1>0. /\ cmd \in Commands /\ k \in Nat \ {0} /\ failed \in Nat
        /\ cmd' = cmd /\ Batch' = Batch /\ Multi' = Multi
        /\ \E S : items' \in Seq(S)
        /\ series' = [eps |-> series'.eps, path |-> series'.path, ondisk |-> series'.ondisk, sel |-> series'.sel,
                      todo |-> series'.todo, attempted |-> series'.attempted]
    BY MainFrame, BatchSame, ItemsMain, SeriesTyped DEF PlaceInv
  <1>1. CASE DoSearch \/ Searches \/ SearchOver \/ DoOne
    BY <1>0, <1>1 DEF DoSearch, Searches, SearchOver, DoOne, Exit, Main, PlaceInv, SameDisk, IdleGlob, dlvars,
       mainvars, globvars, Batch, Multi
  <1>2. CASE OneOver \/ ResolveFails \/ ExpandOver \/ BatchOver \/ NoSelection \/ SeriesOver \/ Die
    BY <1>0, <1>2, NoneIsNone
    DEF OneOver, ResolveFails, ExpandOver, BatchOver, NoSelection, SeriesOver, Die, Exit, Main, PlaceInv, SameDisk, IdleGlob,
       dlvars, mainvars, globvars
  <1>3. CASE DoExpand \/ Expands
    BY <1>0, <1>3 DEF DoExpand, Expands, Main, PlaceInv, dlvars, mainvars
  <1>4. CASE BatchNext \/ ItemOver \/ SkipEpisode
    BY <1>0, <1>4, NoneIsNone DEF BatchNext, ItemOver, SkipEpisode, Looking, PlaceInv, SameDisk, IdleGlob, dlvars, mainvars, globvars
  <1>5. CASE DoSeries
    BY <1>0, <1>5 DEF DoSeries, Main, Exit, PlaceInv, IdleGlob, dlvars, globvars, Multi
  <1>6. CASE DownloadEpisode
    BY <1>0, <1>6 DEF DownloadEpisode, Looking, PlaceInv, SameDisk, IdleGlob, globvars
  <1>7. CASE Signal \/ Again
    BY <1>0, <1>7, NoneIsNone DEF Signal, Again, Running, PlaceInv, IdleGlob, globvars, mainvars
  <1> QED
    BY <1>1, <1>2, <1>3, <1>4, <1>5, <1>6, <1>7 DEF MainStep

LEMMA PlaceInit == CLInit => PlaceInv
  <1> SUFFICES ASSUME CLInit PROVE PlaceInv
    OBVIOUS
  <1>1. items \in Seq({}) /\ series = NoSeries
    BY DEF CLInit, GlobInit
  <1> QED
    BY <1>1, NoneIsNone DEF CLInit, PlaceInv, NoSeries

(* What an item is called depends on the command and the expansion alone.     *)
LEMMA NamesSame ==
    ASSUME UNCHANGED <<cmd, items, segs>>
    PROVE  \A i : /\ ResolveOutname(cmd.out, items[i])' = ResolveOutname(cmd.out, items[i])
                  /\ NamesOf(items[i])' = NamesOf(items[i])
  <1> TAKE i
  <1>1. ResolveOutname(cmd.out, items[i])' = ResolveOutname(cmd.out, items[i])
    BY DEF ResolveOutname, IsRef, NCaps, Pats
  <1> QED
    BY <1>1 DEF NamesOf, Numbered, InDirectory

LEMMA AimDownload ==
    ASSUME DiskInv, PlaceInv, AimInv, Downloading
    PROVE  AimInv'
  <1>1. /\ UNCHANGED <<cmd, pc, k, series, items, segs>> /\ DownloadNext
        /\ Batch' = Batch /\ Multi' = Multi /\ OneUrl' = OneUrl
    BY DownloadingFrame, DownloadShape, BatchSame
  <1>2. /\ dl.phase # "none" /\ dl'.url = dl.url /\ dl'.out = dl.out
        /\ dl'.phase = "returned" \/ (dl'.phase \in Opened /\ dl.phase \in Opened \cup {"new"})
        /\ dl.phase = "new" /\ dl'.phase \in Opened => Open
        /\ dl.phase \in Opened => dl'.name = dl.name
    BY <1>1, DownloadShape
  <1>3. ~Batch => Batch' = FALSE
    BY <1>1
  <1>4. ASSUME Open PROVE dl'.name = Target(dl.url, dl.out) /\ Named /\ ~Refused(dl.url, dl.out)
    BY <1>4, OpenDoes DEF Open
  <1>5. ASSUME Batch
        PROVE  /\ pc' \in {"batch", "down"} /\ dl'.phase # "hls" /\ k' \in DOMAIN items'
               /\ dl'.url = items[k]'.url /\ dl'.out = ResolveOutname(cmd.out, items[k])'
               /\ dl'.phase \in Opened => dl'.name \in NamesOf(items[k])'
    <2>1. /\ pc \in {"batch", "down"} /\ k \in DOMAIN items
          /\ dl.url = items[k].url /\ dl.out = ResolveOutname(cmd.out, items[k])
          /\ dl.phase \in Opened => dl.name \in NamesOf(items[k])
      BY <1>2, <1>5 DEF AimInv
    <2>2. PICK j : j = k
      OBVIOUS
    <2>3. /\ ResolveOutname(cmd.out, items[j])' = ResolveOutname(cmd.out, items[j])
          /\ NamesOf(items[j])' = NamesOf(items[j])
      BY <1>1, NamesSame
    <2>4. k' = j /\ items' = items /\ pc' = pc /\ k' = k
      BY <1>1, <2>2
    <2>5. ResolveOutname(cmd.out, items[k])' = dl'.out /\ NamesOf(items[k])' = NamesOf(items[k])
      BY <1>2, <2>1, <2>2, <2>3, <2>4
    <2>6. ASSUME Open PROVE dl'.name \in NamesOf(items[k])
      <3>1. dl'.name = Target(dl.url, dl.out)
        BY <1>4, <2>6
      <3>2. Named /\ ~Refused(dl.url, dl.out)
        BY <1>4, <2>6
      <3> QED
        BY <2>1, <3>1, <3>2, Taken DEF NamesOf
    <2>7. pc' \in {"batch", "down"} /\ k' \in DOMAIN items' /\ dl'.phase # "hls"
      BY <1>2, <2>1, <2>4 DEF Opened
    <2>8. dl'.url = items[k]'.url
      BY <1>2, <2>1, <2>4
    <2>9. dl'.phase \in Opened => dl'.name \in NamesOf(items[k])'
      BY <1>2, <2>1, <2>5, <2>6 DEF Opened
    <2> QED
      BY <2>5, <2>7, <2>8, <2>9
  <1>6. ASSUME Multi
        PROVE  /\ pc' \in {"series", "down"} /\ k' \in series'.sel /\ k' \notin series'.ondisk
               /\ dl'.out = series'.path[k'] /\ dl'.out # <<>> /\ dl'.out \notin Directories
               /\ dl'.phase \notin {"new", "hls"}
               /\ dl'.phase \in Opened => dl'.name = dl'.out
    <2>1. /\ pc \in {"series", "down"} /\ k \in series.sel /\ k \notin series.ondisk
          /\ dl.out = series.path[k] /\ dl.out # <<>> /\ dl.out \notin Directories
          /\ dl.phase \in Opened => dl.name = dl.out
      BY <1>2, <1>6 DEF AimInv
    <2>2. ASSUME Open PROVE dl'.name = dl.out
      <3>1. dl'.name = Target(dl.url, dl.out)
        BY <1>4, <2>2
      <3>2. Named /\ ~Refused(dl.url, dl.out)
        BY <1>4, <2>2
      <3> QED
        BY <2>1, <3>1, <3>2, Taken DEF InDirectory
    <2> QED
      BY <1>1, <1>2, <2>1, <2>2 DEF Opened
  <1>7. ASSUME ~Batch, ~Multi PROVE pc' \in {"one", "down"} /\ dl'.url = OneUrl'
    BY <1>1, <1>2, <1>7 DEF AimInv
  <1> QED
    BY <1>1, <1>5, <1>6, <1>7 DEF AimInv

LEMMA AimMain ==
    ASSUME DiskInv, PlaceInv, AimInv, MainStep
    PROVE  AimInv'
  <1>0. /\ UNCHANGED <<cmd, files>> /\ Batch' = Batch /\ Multi' = Multi /\ OneUrl' = OneUrl /\ NEpisodes' = NEpisodes
    BY MainFrame, BatchSame
  <1>1. ASSUME dl'.phase = "none" PROVE AimInv'
    BY <1>1 DEF AimInv
  <1>2. CASE UNCHANGED <<dl, k, series, items, segs>> /\ pc' \in {pc, "down"}
    <2>1. PICK j : j = k
      OBVIOUS
    <2>2. /\ ResolveOutname(cmd.out, items[j])' = ResolveOutname(cmd.out, items[j])
          /\ NamesOf(items[j])' = NamesOf(items[j])
      BY <1>0, <1>2, NamesSame
    <2>3. k' = j
      BY <1>2, <2>1
    <2>4. /\ ResolveOutname(cmd.out, items[k])' = ResolveOutname(cmd.out, items[k])
          /\ NamesOf(items[k])' = NamesOf(items[k])
      BY <2>1, <2>2, <2>3
    <2> QED
      BY <1>0, <1>2, <2>4 DEF AimInv, Exists
  <1>3. CASE DoSearch \/ Searches \/ ResolveFails \/ DoExpand \/ Expands \/ ExpandOver \/ BatchOver \/ DoSeries
             \/ NoSelection \/ SkipEpisode \/ SeriesOver
    <2>1. dl.phase = "none" /\ dl' = dl
      BY <1>3 DEF DoSearch, Searches, ResolveFails, DoExpand, Expands, ExpandOver, BatchOver, DoSeries,
         NoSelection, SkipEpisode, SeriesOver, Main, Looking, PlaceInv, SameDisk, dlvars
    <2> QED
      BY <1>1, <2>1
  <1>4. CASE OneOver \/ ItemOver \/ Again
    BY <1>1, <1>4, NoneIsNone DEF OneOver, ItemOver, Again
  <1>5. CASE Signal \/ Die
    BY <1>2, <1>5 DEF Signal, Die, SameDisk, mainvars, IdleGlob, globvars
  <1>6. CASE SearchOver
    <2>1. CASE dl' = dl
      <3>1. dl.phase = "none"
        BY <1>6 DEF SearchOver, PlaceInv
      <3> QED
        BY <1>1, <2>1, <3>1
    <2>2. CASE pc' = "one" /\ dl' = New("new", cmd.url, cmd.out)
      <3>1. dl'.url = cmd.url
        BY <2>2, NewFields
      <3>2. cmd.mode = "search" /\ ~Batch /\ ~Multi
        BY <1>6 DEF SearchOver, PlaceInv, Batch, Multi
      <3> QED
        BY <1>0, <2>2, <3>1, <3>2 DEF AimInv, OneUrl
    <2> QED
      BY <1>6, <2>1, <2>2 DEF SearchOver
  <1>7. CASE DoOne
    <2>1. pc' = "one" /\ ~Batch /\ ~Multi
      BY <1>7 DEF DoOne, Batch, Multi
    <2>2. dl'.url = OneUrl
      <3>1. CASE dl' = New("new", cmd.url, cmd.out) /\ cmd.mode = "mirrors"
        BY <3>1, NewFields DEF OneUrl
      <3>2. CASE dl' = New("hls", cmd.url, cmd.out) /\ cmd.mode = "url"
        BY <3>2, NewFields DEF OneUrl
      <3>3. CASE cmd.mode = "series" /\ dl' = Media(cmd.episodes[1].media, cmd.out)
        BY <3>3, NewFields DEF OneUrl, Media
      <3> QED
        BY <1>7, <3>1, <3>2, <3>3 DEF DoOne
    <2> QED
      BY <1>0, <2>1, <2>2 DEF AimInv
  <1>8. CASE BatchNext
    <2>1. /\ pc = "batch" /\ k <= Len(items) /\ UNCHANGED <<items, segs, pc, k>>
          /\ dl' = New("new", items[k].url, ResolveOutname(cmd.out, items[k]))
      BY <1>8 DEF BatchNext, IdleGlob, globvars, mainvars
    <2>2. Batch /\ ~Multi
      BY <2>1 DEF PlaceInv, Batch, Multi
    <2>3. PICK j : j = k
      OBVIOUS
    <2>4. ResolveOutname(cmd.out, items[j])' = ResolveOutname(cmd.out, items[j])
      BY <1>0, <2>1, NamesSame
    <2>5. ResolveOutname(cmd.out, items[k])' = ResolveOutname(cmd.out, items[k])
      BY <2>1, <2>3, <2>4
    <2>6. /\ dl'.phase = "new" /\ dl'.url = items[k].url /\ dl'.out = ResolveOutname(cmd.out, items[k])
      BY <2>1, NewFields
    <2>7. k \in DOMAIN items
      BY <2>1 DEF PlaceInv
    <2> QED
      BY <1>0, <2>1, <2>2, <2>5, <2>6, <2>7 DEF AimInv, Opened
  <1>9. CASE DownloadEpisode
    <2>1. /\ pc = "series" /\ pc' = pc /\ dl.phase = "none" /\ k \in series.sel /\ ~EpisodeOnDisk
          /\ IF series.path[k] = <<>> THEN dl' = dl
             ELSE dl' = Media(series.eps[k].media, series.path[k]) /\ k' = k
      BY <1>9 DEF DownloadEpisode, Looking
    <2>2. Multi /\ ~Batch
      BY <2>1 DEF PlaceInv, Multi, Batch
    <2>3. CASE dl' = dl
      BY <1>1, <2>1, <2>3
    <2>4. CASE series.path[k] # <<>>
      <3>1. PICK p \in {"new", "hls"} : dl' = New(p, series.eps[k].media, series.path[k])
        BY <2>1, <2>4 DEF Media
      <3>2. dl'.phase = p /\ dl'.out = series.path[k]
        BY <3>1, NewFields
      <3>3. k \notin series.ondisk /\ series.path[k] \notin Directories /\ ~Exists(series.path[k])
        BY <2>1, <2>4 DEF EpisodeOnDisk, OnDisk
      <3>4. series'.path = series.path /\ series'.sel = series.sel /\ series'.ondisk = series.ondisk
        BY <1>9, AttemptFields
      <3> QED
        BY <1>0, <2>1, <2>2, <2>4, <3>2, <3>3, <3>4 DEF AimInv, Opened, Exists
    <2> QED
      BY <2>1, <2>3, <2>4
  <1> QED
    BY <1>3, <1>4, <1>5, <1>6, <1>7, <1>8, <1>9 DEF MainStep

LEMMA AimInit == CLInit => AimInv /\ UntouchedInv
  <1> SUFFICES ASSUME CLInit PROVE AimInv /\ UntouchedInv
    OBVIOUS
  <1>1. dl.phase = "none" /\ states = {}
    BY NoneIsNone DEF CLInit
  <1>2. PICK names : files = [n \in names |-> [from |-> {Other}, whole |-> TRUE]]
    BY DEF CLInit
  <1>3. \A n \in DOMAIN files : files[n].from = {Other}
    BY <1>2
  <1> QED
    BY <1>1, <1>3 DEF AimInv, UntouchedInv

LEMMA Stutter ==
    ASSUME UNCHANGED clvars
    PROVE  /\ UNCHANGED <<cmd, files, states, dl, run, handlers, gaveup, cutshort>>
           /\ UNCHANGED <<pc, k, failed, series, ret, runs>>
           /\ UNCHANGED <<at, segs, product, items>>
  BY DEF clvars, dlvars, mainvars, globvars

LEMMA NextIsMain ==
    CLNext <=> MainStep \/ Downloading
  BY DEF CLNext, MainStep

LEMMA StutterInv ==
    ASSUME UNCHANGED clvars
    PROVE  /\ DiskInv' = DiskInv /\ PlaceInv' = PlaceInv /\ AimInv' = AimInv
  <1>1. /\ UNCHANGED <<cmd, files, states, dl, run, handlers, gaveup, cutshort>>
        /\ UNCHANGED <<pc, k, failed, series, ret, runs>>
        /\ UNCHANGED <<at, segs, product, items>>
    BY Stutter
  <1>2. Batch' = Batch /\ Multi' = Multi /\ NEpisodes' = NEpisodes /\ OneUrl' = OneUrl
    BY <1>1, BatchSame
  <1>3. PICK j : j = k
    OBVIOUS
  <1>4. /\ ResolveOutname(cmd.out, items[j])' = ResolveOutname(cmd.out, items[j])
        /\ NamesOf(items[j])' = NamesOf(items[j])
    BY <1>1, NamesSame
  <1>5. k' = j
    BY <1>1, <1>3
  <1>6. /\ ResolveOutname(cmd.out, items[k])' = ResolveOutname(cmd.out, items[k])
        /\ NamesOf(items[k])' = NamesOf(items[k])
    BY <1>3, <1>4, <1>5
  <1>7. DiskInv' = DiskInv
    BY <1>1 DEF DiskInv, Exists, HasState
  <1>8. PlaceInv' = PlaceInv
    BY <1>1, <1>2 DEF PlaceInv
  <1>9. AimInv' = AimInv
    BY <1>1, <1>2, <1>6 DEF AimInv, Exists
  <1> QED
    BY <1>7, <1>8, <1>9

DirInv == DiskInv /\ PlaceInv /\ AimInv

LEMMA DirInit == CLInit => DirInv
  BY DiskInit, PlaceInit, AimInit DEF DirInv

LEMMA DirNext == DirInv /\ [CLNext]_clvars => DirInv'
  <1> SUFFICES ASSUME DirInv, [CLNext]_clvars PROVE DirInv'
    OBVIOUS
  <1>1. DiskInv /\ PlaceInv /\ AimInv
    BY DEF DirInv
  <1>2. CASE MainStep
    BY <1>1, <1>2, DiskMain, PlaceMain, AimMain DEF DirInv
  <1>3. CASE Downloading
    BY <1>1, <1>3, DownloadingFrame, DiskDownload, PlaceDownload, AimDownload DEF DirInv
  <1>4. CASE UNCHANGED clvars
    BY <1>1, <1>4, StutterInv DEF DirInv
  <1> QED
    BY <1>2, <1>3, <1>4, NextIsMain

-----------------------------------------------------------------------------
(* What a step of a download does to the files: nothing to those that exist,  *)
(* but to that of the download, or of a playlist.                             *)
LEMMA FilesStep ==
    ASSUME DiskInv, DownloadNext
    PROVE  \/ files' = files
           \/ /\ Open /\ ~Exists(dl'.name) /\ files' = With(dl'.name, Empty)
           \/ /\ dl.phase = "loop" /\ dl'.phase = "data"
              /\ files' = [n \in DOMAIN files |->
                   IF n = dl.name THEN [from |-> files[n].from \cup {dl.url}, whole |-> FALSE] ELSE files[n]]
           \/ /\ dl.phase = "data" /\ dl'.phase = "ready"
              /\ files' = [n \in DOMAIN files |->
                   IF n = dl.name THEN [from |-> IF dl.fresh THEN {dl.url} ELSE files[n].from, whole |-> TRUE]
                   ELSE files[n]]
           \/ /\ dl.phase = "hls"
              /\ files' = With(HlsTarget(dl.url, dl.out), [from |-> {dl.url}, whole |-> TRUE])
  <1>1. CASE FluxNewDeclines \/ FluxNewFails \/ RefuseName \/ OpenFails \/ CloseReady \/ GiveUp \/ CloseInterrupted
             \/ HlsFails \/ InstallHandlers \/ BreakOff
    BY <1>1 DEF FluxNewDeclines, FluxNewFails, RefuseName, OpenFails, CloseReady, GiveUp, CloseInterrupted, HlsFails,
       InstallHandlers, BreakOff
  <1>2. CASE Open
    <2>1. PICK name :
             /\ IF Exists(name) THEN HasState(name) /\ files' = files
                ELSE files' = With(name, Empty)
             /\ dl' = [phase |-> "opened", url |-> dl.url, out |-> dl.out, name |-> name,
                       fresh |-> ~(Supports(dl.url) /\ name \in states), ret |-> dl.ret]
      BY <1>2, OpenDoes
    <2>2. dl'.name = name
      BY <2>1
    <2> QED
      BY <1>2, <2>1, <2>2
  <1>3. CASE FluxDo
    BY <1>3, FluxDoDoes DEF FluxDo
  <1>4. CASE Complete
    BY <1>4, CompleteDoes DEF Complete
  <1>5. CASE HlsDone
    BY <1>5 DEF HlsDone
  <1> QED
    BY <1>1, <1>2, <1>3, <1>4, <1>5 DEF DownloadNext

(* And to the state files.                                                    *)
LEMMA StatesStep ==
    ASSUME DiskInv, DownloadNext
    PROVE  \/ states' = states
           \/ dl.phase = "loop" /\ dl'.phase = "data" /\ states' = states \cup {dl.name}
           \/ dl.phase = "ready" /\ dl'.phase = "returned" /\ dl'.ret = 0 /\ states' = states \ {dl.name}
  <1>1. CASE FluxNewDeclines \/ FluxNewFails \/ RefuseName \/ GiveUp \/ HlsDone \/ HlsFails \/ InstallHandlers
             \/ Complete \/ BreakOff
    BY <1>1 DEF FluxNewDeclines, FluxNewFails, RefuseName, GiveUp, HlsDone, HlsFails, InstallHandlers, Complete, BreakOff
  <1>2. CASE OpenFails
    BY <1>2, StatesKept DEF OpenFails
  <1>3. CASE Open
    BY <1>3, OpenDoes
  <1>4. CASE FluxDo
    BY <1>4, FluxDoDoes DEF FluxDo
  <1>5. CASE CloseReady
    BY <1>5, ReturnDoes DEF CloseReady
  <1>6. CASE CloseInterrupted
    BY <1>6 DEF CloseInterrupted, SaveState, DiskInv, HasState
  <1> QED
    BY <1>1, <1>2, <1>3, <1>4, <1>5, <1>6 DEF DownloadNext

LEMMA WholeStays ==
    ASSUME DirInv, Downloading, dl.phase = "hls" => pc = "series",
           NEW n \in DOMAIN files, files[n].whole, ~HasState(n)
    PROVE  n \in DOMAIN files' /\ files'[n] = files[n] /\ n \notin states'
  <1>0. DiskInv /\ PlaceInv /\ AimInv /\ DownloadNext
    BY DownloadingFrame DEF DirInv
  <1>1. dl.phase \in {"loop", "data"} => n # dl.name
    BY <1>0 DEF DiskInv, Empty, HasState
  <1>2. dl.phase = "hls" => HlsTarget(dl.url, dl.out) # n
    BY <1>0 DEF PlaceInv, AimInv, Multi, Batch, HlsTarget, Exists
  <1>3. n \in DOMAIN files' /\ files'[n] = files[n]
    <2>1. CASE files' = files
      BY <2>1
    <2>2. CASE ~Exists(dl'.name) /\ files' = With(dl'.name, Empty)
      BY <2>2 DEF With, Exists
    <2>3. CASE /\ dl.phase = "loop"
               /\ files' = [m \in DOMAIN files |->
                    IF m = dl.name THEN [from |-> files[m].from \cup {dl.url}, whole |-> FALSE] ELSE files[m]]
      BY <1>1, <2>3
    <2>4. CASE /\ dl.phase = "data"
               /\ files' = [m \in DOMAIN files |->
                    IF m = dl.name THEN [from |-> IF dl.fresh THEN {dl.url} ELSE files[m].from, whole |-> TRUE]
                    ELSE files[m]]
      BY <1>1, <2>4
    <2>5. CASE /\ dl.phase = "hls"
               /\ files' = With(HlsTarget(dl.url, dl.out), [from |-> {dl.url}, whole |-> TRUE])
      BY <1>2, <2>5 DEF With
    <2> QED
      BY <1>0, <2>1, <2>2, <2>3, <2>4, <2>5, FilesStep
  <1>4. n \notin states'
    BY <1>0, <1>1, StatesStep DEF HasState
  <1> QED
    BY <1>3, <1>4

(* Whatever names a batch or a series comes up with, for every set of command *)
(* lines and of files that were there before, and however often a command is  *)
(* given again after an interruption: a file that is complete is left alone.  *)
THEOREM CompleteLeftAlone == CLSpec => NeverClobbers
  <1> DEFINE LeftAlone ==
         \/ dl.phase = "hls" /\ pc # "series"
         \/ \A name \in DOMAIN files :
              files[name].whole /\ ~HasState(name) => name \in DOMAIN files' /\ files'[name] = files[name]
  <1>1. DirInv /\ [CLNext]_clvars => [LeftAlone]_clvars
    <2> SUFFICES ASSUME DirInv, CLNext PROVE LeftAlone
      OBVIOUS
    <2>1. CASE MainStep
      BY <2>1, MainFrame
    <2>2. CASE Downloading
      BY <2>2, WholeStays
    <2> QED
      BY <2>1, <2>2, NextIsMain
  <1> QED
    BY <1>1, DirInit, DirNext, PTL DEF CLSpec, NeverClobbers

-----------------------------------------------------------------------------
(* What main does to the download in hand, but for a new run.                 *)
LEMMA MainDoes ==
    ASSUME DirInv, MainStep, ~Again
    PROVE  /\ UNCHANGED runs
           /\ \/ dl' = dl
              \/ dl' = NoDownload /\ dl.phase = "returned" /\ pc # "down" /\ run' = run
              \/ Begun(dl') /\ dl.phase = "none" /\ pc # "down" /\ run /\ (Batch => BatchNext /\ at = "expanded")
           /\ run' => run
           /\ pc' # "down" => pc # "down"
  <1>0. DiskInv /\ PlaceInv
    BY DEF DirInv
  <1>1. CASE DoSearch \/ Searches \/ ResolveFails \/ DoExpand \/ Expands \/ ExpandOver \/ BatchOver
             \/ DoSeries \/ NoSelection \/ SkipEpisode \/ SeriesOver
    BY <1>1 DEF DoSearch, Searches, ResolveFails, DoExpand, Expands, ExpandOver, BatchOver, DoSeries,
       NoSelection, SkipEpisode, SeriesOver, Main, Looking, SameDisk, dlvars, mainvars
  <1>2. CASE OneOver \/ ItemOver
    BY <1>2 DEF OneOver, ItemOver, SameDisk
  <1>3. CASE SearchOver
    BY <1>0, <1>3 DEF SearchOver, SameDisk, Begun, PlaceInv, Batch
  <1>4. CASE BatchNext
    BY <1>0, <1>4 DEF BatchNext, SameDisk, Begun, PlaceInv, mainvars
  <1>5. CASE DoOne
    <2>1. Begun(dl') /\ ~Batch /\ pc = "main" /\ UNCHANGED <<runs, run>>
      BY <1>5, MediaBegins DEF DoOne, Main, SameDisk, Begun, Batch
    <2> QED
      BY <1>0, <2>1 DEF PlaceInv
  <1>6. CASE DownloadEpisode
    <2>1. (dl' = dl \/ Begun(dl')) /\ dl.phase = "none" /\ pc = "series" /\ run /\ UNCHANGED <<runs, run, pc>>
      BY <1>6, MediaBegins DEF DownloadEpisode, Looking, SameDisk
    <2>2. ~Batch
      BY <1>0, <2>1 DEF PlaceInv, Multi, Batch
    <2> QED
      BY <2>1, <2>2
  <1>7. CASE Signal \/ Die
    BY <1>7 DEF Signal, Die, Running, SameDisk, mainvars
  <1> QED
    BY <1>1, <1>2, <1>3, <1>4, <1>5, <1>6, <1>7 DEF MainStep

LEMMA BegunFields ==
    ASSUME NEW d, Begun(d)
    PROVE  d.phase \in {"new", "hls"} /\ d.ret = 0
  <1>1. PICK p, u, o : p \in {"new", "hls"} /\ d = New(p, u, o)
    BY DEF Begun
  <1>2. d = [phase |-> p, url |-> u, out |-> o, name |-> <<>>, fresh |-> FALSE, ret |-> 0]
    BY <1>1, NewFields
  <1> QED
    BY <1>1, <1>2

LEMMA AgainDoes ==
    ASSUME Again
    PROVE  /\ dl' = NoDownload /\ runs' = runs + 1 /\ pc' = "main" /\ failed' = 0 /\ series' = NoSeries
           /\ UNCHANGED <<cmd, files, states, gaveup, cutshort>>
           /\ UNCHANGED <<at, items, segs, product>>
  BY DEF Again, IdleGlob, globvars

LEMMA ExpandsFrom ==
    ASSUME DirInv, MainStep, UNCHANGED <<at, items, segs, product>> => FALSE
    PROVE  at # "expanded" /\ pc' = "expand" /\ (Expands \/ DoExpand)
  <1>1. Expands \/ (DoExpand /\ at = "idle")
    BY ItemsMain DEF DirInv
  <1>2. CASE DoExpand /\ at = "idle"
    BY <1>2 DEF DoExpand
  <1>3. CASE Expands
    <2>1. pc' = "expand" /\ at \in {"scan", "generate"}
      BY <1>3 DEF Expands, mainvars, GlobNext, ScanLiteral, ScanPattern, ScanError, ScanEnd, Generate
    <2> QED
      BY <1>3, <2>1
  <1> QED
    BY <1>1, <1>2, <1>3

LEMMA UntouchedStep ==
    ASSUME DirInv, UntouchedInv, [CLNext]_clvars
    PROVE  UntouchedInv'
  <1>1. CASE UNCHANGED clvars
    BY <1>1, Stutter, BatchSame DEF UntouchedInv
  <1>2. CASE Downloading
    <2>1. UNCHANGED <<at, cmd>> /\ dl.phase # "none"
      BY <1>2, DownloadingFrame, DownloadShape DEF DirInv
    <2> QED
      BY <2>1, BatchSame DEF UntouchedInv
  <1>3. CASE MainStep
    <2>1. UNCHANGED <<files, states, cmd>> /\ Batch' = Batch
      BY <1>3, MainFrame, BatchSame
    <2>2. at = "expanded" => at' = "expanded"
      BY <1>3, ExpandsFrom
    <2>3. (Batch /\ at # "expanded" /\ dl.phase = "none") => dl'.phase = "none"
      BY <1>3, MainDoes, AgainDoes, NoneIsNone
    <2> QED
      BY <2>1, <2>2, <2>3 DEF UntouchedInv
  <1> QED
    BY <1>1, <1>2, <1>3, NextIsMain

LEMMA GaveUpGrows ==
    ASSUME CLNext
    PROVE  gaveup \subseteq gaveup' /\ cutshort \subseteq cutshort'
  <1>1. CASE MainStep
    BY <1>1, MainFrame
  <1>2. CASE Downloading
    BY <1>2 DEF Downloading, DownloadNext, FluxNewDeclines, FluxNewFails, RefuseName, Open, OpenFails, InstallHandlers,
       FluxDo, Complete, BreakOff, CloseReady, GiveUp, CloseInterrupted, HlsDone, HlsFails
  <1> QED
    BY <1>1, <1>2, NextIsMain

LEMMA FirstRunStep ==
    ASSUME DirInv, FirstRunInv, [CLNext]_clvars
    PROVE  FirstRunInv'
  <1>1. CASE UNCHANGED clvars
    BY <1>1, Stutter DEF FirstRunInv
  <1>2. CASE Again
    <2>1. runs' = runs + 1 /\ runs \in Nat \ {0}
      BY <1>2, AgainDoes DEF FirstRunInv
    <2> QED
      BY <2>1 DEF FirstRunInv
  <1>3. CASE MainStep /\ ~Again
    <2>1. UNCHANGED <<states, gaveup, cutshort, runs>> /\ (run' => run) /\ (pc' # "down" => pc # "down")
      BY <1>3, MainFrame, MainDoes
    <2>2. CASE dl' = dl
      BY <2>1, <2>2 DEF FirstRunInv
    <2>3. CASE dl' = NoDownload /\ dl.phase = "returned" /\ pc # "down" /\ run' = run
      BY <2>1, <2>3, NoneIsNone DEF FirstRunInv
    <2>4. CASE Begun(dl') /\ dl.phase = "none" /\ pc # "down" /\ run
      <3>1. dl'.phase \in {"new", "hls"}
        BY <2>4, BegunFields
      <3> QED
        BY <2>1, <2>4, <3>1 DEF FirstRunInv
    <2> QED
      BY <1>3, <2>2, <2>3, <2>4, MainDoes
  <1>4. CASE Downloading
    <2>0. DiskInv /\ DownloadNext /\ UNCHANGED <<runs, pc>> /\ pc # "down"
      BY <1>4, DownloadingFrame DEF DirInv, Downloading, Running
    <2>1. gaveup \subseteq gaveup'
      BY <1>4, GaveUpGrows, NextIsMain
    <2>2. CASE FluxNewDeclines \/ FluxNewFails \/ RefuseName \/ HlsDone \/ HlsFails
      <3>1. UNCHANGED states /\ dl.phase \in {"new", "hls"} /\ \E r : Return(r)
        BY <2>2 DEF FluxNewDeclines, FluxNewFails, RefuseName, HlsDone, HlsFails, Connecting
      <3>2. dl'.phase = "returned"
        BY <2>0, <3>1, ReturnDoes
      <3> QED
        BY <2>0, <2>1, <3>1, <3>2 DEF FirstRunInv
    <2>3. CASE OpenFails
      <3>1. states' = states /\ dl.phase = "new" /\ Return(1)
        BY <2>0, <2>3, StatesKept DEF OpenFails, Connecting
      <3>2. dl'.phase = "returned"
        BY <2>0, <3>1, ReturnDoes
      <3> QED
        BY <2>0, <2>1, <3>1, <3>2 DEF FirstRunInv
    <2>4. CASE Open
      <3>1. states' = states /\ dl.phase = "new" /\ dl'.phase = "opened"
        BY <2>0, <2>4, OpenDoes DEF Open, Connecting
      <3> QED
        BY <2>0, <2>1, <3>1 DEF FirstRunInv
    <2>5. CASE InstallHandlers
      <3>1. states' = states /\ dl.phase = "opened" /\ dl'.phase = "loop"
        BY <2>0, <2>5, Fields DEF InstallHandlers
      <3> QED
        BY <2>0, <2>1, <3>1 DEF FirstRunInv
    <2>6. CASE FluxDo
      <3>1. states' \subseteq states \cup {dl.name} /\ dl.phase = "loop" /\ dl'.phase = "data" /\ dl'.name = dl.name
        BY <2>0, <2>6, FluxDoDoes DEF FluxDo
      <3> QED
        BY <2>0, <2>1, <3>1 DEF FirstRunInv
    <2>7. CASE Complete
      <3>1. states' = states /\ dl.phase = "data" /\ dl'.phase = "ready" /\ dl'.name = dl.name
        BY <2>0, <2>7, CompleteDoes DEF Complete
      <3> QED
        BY <2>0, <2>1, <3>1 DEF FirstRunInv
    <2>8. CASE CloseReady
      <3>1. states' = states \ {dl.name} /\ dl.phase = "ready" /\ dl'.phase = "returned"
        BY <2>0, <2>8, ReturnDoes DEF CloseReady
      <3> QED
        BY <2>0, <2>1, <3>1 DEF FirstRunInv
    <2>9. CASE GiveUp
      <3>1. gaveup' # {}
        BY <2>9 DEF GiveUp
      <3> QED
        BY <2>0, <3>1 DEF FirstRunInv
    <2>10. CASE CloseInterrupted
      <3>1. ~run' /\ dl'.phase = "returned"
        BY <2>0, <2>10, ReturnDoes DEF CloseInterrupted
      <3> QED
        BY <2>0, <3>1 DEF FirstRunInv
    <2>11. CASE BreakOff
      <3>1. states' = states /\ dl.phase = "data" /\ dl'.phase = "ready" /\ dl'.name = dl.name
        BY <2>0, <2>11, Fields DEF BreakOff
      <3> QED
        BY <2>0, <2>1, <3>1 DEF FirstRunInv
    <2> QED
      BY <2>0, <2>2, <2>3, <2>4, <2>5, <2>6, <2>7, <2>8, <2>9, <2>10, <2>11 DEF DownloadNext
  <1> QED
    BY <1>1, <1>2, <1>3, <1>4, NextIsMain

LEMMA OwnNamesSame ==
    ASSUME UNCHANGED <<cmd, items, segs, at>>
    PROVE  OwnNames' = OwnNames
  <1>1. \A i : NamesOf(items[i])' = NamesOf(items[i])
    BY NamesSame
  <1> QED
    BY <1>1 DEF OwnNames

(* The bytes that a step of a download may add to a file are of its URL.      *)
LEMMA FromGrows ==
    ASSUME DiskInv, DownloadNext
    PROVE  /\ \A n \in DOMAIN files :
                /\ n \in DOMAIN files'
                /\ \/ files'[n] = files[n]
                   \/ dl.phase \in {"loop", "data"} /\ n = dl.name /\ files'[n].from \subseteq files[n].from \cup {dl.url}
                   \/ dl.phase = "hls" /\ files'[n].from = {dl.url}
           /\ \A n \in DOMAIN files' : n \notin DOMAIN files =>
                \/ files'[n].from = {}
                \/ dl.phase = "hls" /\ files'[n].from = {dl.url}
  <1>1. CASE files' = files
    BY <1>1
  <1>2. CASE ~Exists(dl'.name) /\ files' = With(dl'.name, Empty)
    BY <1>2 DEF With, Exists, Empty
  <1>3. CASE /\ dl.phase = "loop"
             /\ files' = [n \in DOMAIN files |->
                  IF n = dl.name THEN [from |-> files[n].from \cup {dl.url}, whole |-> FALSE] ELSE files[n]]
    BY <1>3
  <1>4. CASE /\ dl.phase = "data"
             /\ files' = [n \in DOMAIN files |->
                  IF n = dl.name THEN [from |-> IF dl.fresh THEN {dl.url} ELSE files[n].from, whole |-> TRUE]
                  ELSE files[n]]
    BY <1>4
  <1>5. CASE /\ dl.phase = "hls"
             /\ files' = With(HlsTarget(dl.url, dl.out), [from |-> {dl.url}, whole |-> TRUE])
    BY <1>5 DEF With
  <1> QED
    BY <1>1, <1>2, <1>3, <1>4, <1>5, FilesStep

(* A name with a state file, or a file that was begun, has bytes of one URL   *)
(* at most: that of the download which takes it.                              *)
LEMMA LeftIsAimed ==
    ASSUME DirInv, LeftInv, gaveup = {}, Batch, OwnNames, dl.phase # "none",
           NEW n \in NamesOf(items[k]), HasState(n)
    PROVE  files[n].from \subseteq {dl.url}
  <1>1. k \in DOMAIN items /\ dl.url = items[k].url
    BY DEF DirInv, AimInv
  <1>2. PICK i \in DOMAIN items : n \in NamesOf(items[i]) /\ files[n].from \subseteq {items[i].url}
    BY DEF LeftInv, HasState
  <1>3. i = k
    BY <1>1, <1>2 DEF OwnNames
  <1> QED
    BY <1>1, <1>2, <1>3

LEMMA LeftStep ==
    ASSUME DirInv, UntouchedInv, LeftInv, [CLNext]_clvars
    PROVE  LeftInv'
  <1>1. CASE UNCHANGED clvars
    <2>1. \A i : NamesOf(items[i])' = NamesOf(items[i])
      BY <1>1, Stutter, NamesSame
    <2>2. OwnNames' = OwnNames
      BY <1>1, Stutter, OwnNamesSame
    <2> QED
      BY <1>1, <2>1, <2>2, Stutter, BatchSame DEF LeftInv
  <1>2. CASE MainStep
    <2>1. UNCHANGED <<files, states, gaveup, cutshort, cmd>> /\ Batch' = Batch /\ Multi' = Multi /\ OneUrl' = OneUrl
      BY <1>2, MainFrame, BatchSame
    <2>2. CASE UNCHANGED <<at, items, segs, product>>
      <3>1. \A i : NamesOf(items[i])' = NamesOf(items[i])
        BY <2>1, <2>2, NamesSame
      <3>2. OwnNames' = OwnNames
        BY <2>1, <2>2, OwnNamesSame
      <3> QED
        BY <2>1, <2>2, <3>1, <3>2 DEF LeftInv
    <2>3. CASE at # "expanded"
      BY <2>1, <2>3 DEF LeftInv, UntouchedInv
    <2> QED
      BY <1>2, <2>2, <2>3, ExpandsFrom
  <1>3. CASE Downloading
    <2>1. /\ DiskInv /\ AimInv /\ DownloadNext /\ dl.phase # "none"
          /\ UNCHANGED <<cmd, at, items, segs>>
          /\ Batch' = Batch /\ Multi' = Multi /\ OneUrl' = OneUrl
      BY <1>3, DownloadingFrame, DownloadShape, BatchSame DEF DirInv
    <2>2. OwnNames' = OwnNames /\ \A i : NamesOf(items[i])' = NamesOf(items[i])
      BY <2>1, OwnNamesSame, NamesSame
    <2>3. gaveup' = {} => gaveup = {}
      BY <1>3, GaveUpGrows, NextIsMain
    <2>4. \A n \in states' : n \in DOMAIN files /\ (n \in states \/ (dl.phase = "loop" /\ n = dl.name))
      BY <2>1, StatesStep DEF DiskInv, Opened, Exists
    <2>5. \A n \in states' : n \notin states => files[n] = Empty
      BY <2>1, <2>4 DEF DiskInv, HasState
    <2>6. ASSUME gaveup = {}, OwnNames, Batch, NEW n \in states'
          PROVE  \E i \in DOMAIN items : n \in NamesOf(items[i]) /\ files'[n].from \subseteq {items[i].url}
      <3>1. k \in DOMAIN items /\ dl.url = items[k].url /\ dl.phase # "hls" /\ (dl.phase \in Opened => dl.name \in NamesOf(items[k]))
        BY <2>1, <2>6 DEF AimInv
      <3>2. CASE n \in states /\ files'[n] = files[n]
        BY <2>6, <3>2 DEF LeftInv
      <3>3. CASE dl.phase \in {"loop", "data"} /\ n = dl.name
        <4>1. n \in NamesOf(items[k])
          BY <3>1, <3>3 DEF Opened
        <4>2. n \in states => files[n].from \subseteq {dl.url}
          BY <2>1, <2>6, <4>1, LeftIsAimed DEF HasState
        <4>3. n \notin states => files[n].from = {}
          BY <2>5, <2>6 DEF Empty
        <4>4. files[n].from \subseteq {dl.url}
          BY <4>2, <4>3
        <4>5. files'[n].from \subseteq files[n].from \cup {dl.url}
          BY <2>1, <2>4, <3>1, <3>3, FromGrows
        <4> QED
          BY <3>1, <4>1, <4>4, <4>5
      <3> QED
        BY <2>1, <2>4, <3>1, <3>2, <3>3, FromGrows
    <2>7. ASSUME gaveup = {}, ~Batch, ~Multi, NEW n \in states'
          PROVE  files'[n].from \subseteq {OneUrl}
      <3>1. dl.url = OneUrl
        BY <2>1, <2>7 DEF AimInv
      <3>2. files[n].from \subseteq {OneUrl}
        BY <2>5, <2>7 DEF LeftInv, Empty
      <3> QED
        BY <2>1, <2>4, <3>1, <3>2, FromGrows
    <2> QED
      BY <2>1, <2>2, <2>3, <2>6, <2>7 DEF LeftInv
  <1> QED
    BY <1>1, <1>2, <1>3, NextIsMain

LEMMA OpenName ==
    ASSUME DirInv, Open
    PROVE  /\ dl'.name = Target(dl.url, dl.out) /\ dl.phase = "new" /\ dl'.phase = "opened"
           /\ Batch => dl'.name \in NamesOf(items[k])
           /\ Multi => dl'.name = dl.out
           /\ IF Exists(dl'.name) THEN HasState(dl'.name) /\ files' = files ELSE files' = With(dl'.name, Empty)
  <1>0. DiskInv /\ AimInv /\ dl.phase = "new"
    BY DEF DirInv, Open, Connecting
  <1>1. /\ dl'.name = Target(dl.url, dl.out) /\ dl'.phase = "opened"
        /\ IF Exists(dl'.name) THEN HasState(dl'.name) /\ files' = files ELSE files' = With(dl'.name, Empty)
    BY <1>0, OpenDoes
  <1>2. Named /\ ~Refused(dl.url, dl.out)
    BY DEF Open
  <1>3. /\ dl.out = <<>> => \E i \in 0..MaxNumber : dl'.name = Numbered(Leaf(dl.url), i)
        /\ dl.out # <<>> => dl'.name = InDirectory(dl.url, dl.out)
    BY <1>1, <1>2, Taken
  <1>4. ASSUME Batch PROVE dl'.name \in NamesOf(items[k])
    BY <1>0, <1>3, <1>4 DEF AimInv, NamesOf
  <1>5. ASSUME Multi PROVE dl'.name = dl.out
    BY <1>0, <1>3, <1>5 DEF AimInv, InDirectory, Multi, Batch
  <1> QED
    BY <1>0, <1>1, <1>4, <1>5

LEMMA NamesApartStep ==
    ASSUME DirInv, FirstRunInv, CLNext, NamesApart'
    PROVE  NamesApart \/ (Batch /\ at # "expanded" /\ MainStep)
  <1>1. CASE Downloading
    <2>1. UNCHANGED <<cmd, at, items, segs, runs>>
      BY <1>1, DownloadingFrame, DownloadShape DEF DirInv
    <2> QED
      BY <2>1, OwnNamesSame, BatchSame DEF NamesApart
  <1>2. CASE MainStep
    <2>1. UNCHANGED cmd /\ Batch' = Batch
      BY <1>2, MainFrame, BatchSame
    <2>2. runs' = 1 => runs = 1
      BY <1>2, MainDoes, AgainDoes DEF FirstRunInv
    <2>3. UNCHANGED <<at, items, segs, product>> \/ at # "expanded"
      BY <1>2, ExpandsFrom
    <2>4. UNCHANGED <<at, items, segs, product>> => OwnNames' = OwnNames
      BY <2>1, OwnNamesSame
    <2> QED
      BY <1>2, <2>1, <2>2, <2>3, <2>4 DEF NamesApart
  <1> QED
    BY <1>1, <1>2, NextIsMain

LEMMA PureStep ==
    ASSUME DirInv, UntouchedInv, FirstRunInv, LeftInv, PureInv, [CLNext]_clvars
    PROVE  PureInv'
  <1>1. CASE UNCHANGED clvars
    <2>1. OwnNames' = OwnNames
      BY <1>1, Stutter, OwnNamesSame
    <2> QED
      BY <1>1, <2>1, Stutter, BatchSame DEF PureInv, NamesApart
  <1>2. CASE MainStep
    <2>1. UNCHANGED <<files, gaveup, cutshort>>
      BY <1>2, MainFrame
    <2>2. dl' = dl \/ dl'.phase \notin Opened
      BY <1>2, MainFrame, BegunFields, NoneIsNone DEF Opened
    <2>3. CASE NamesApart
      BY <2>1, <2>2, <2>3 DEF PureInv
    <2>4. CASE Batch /\ at # "expanded"
      <3>1. dl.phase = "none" /\ \A n \in DOMAIN files : files[n].from = {Other}
        BY <2>4 DEF UntouchedInv
      <3>2. dl'.phase \notin Opened
        BY <2>2, <3>1 DEF Opened
      <3> QED
        BY <2>1, <3>1, <3>2 DEF PureInv
    <2>5. CASE ~NamesApart'
      BY <2>5 DEF PureInv
    <2> QED
      BY <1>2, <2>3, <2>4, <2>5, NamesApartStep, NextIsMain
  <1>3. CASE Downloading
    <2>1. /\ DiskInv /\ AimInv /\ DownloadNext /\ dl.phase # "none" /\ dl'.url = dl.url
          /\ dl.phase = "new" /\ dl'.phase \in Opened => Open
          /\ dl.phase \in Opened => dl'.name = dl.name
          /\ dl'.phase = "returned" \/ (dl'.phase \in Opened /\ dl.phase \in Opened \cup {"new"})
      BY <1>3, DownloadingFrame, DownloadShape DEF DirInv
    <2>2. gaveup' = {} => gaveup = {}
      BY <1>3, GaveUpGrows, NextIsMain
    <2>3. NamesApart' => NamesApart
      <3>1. Batch => at = "expanded"
        BY <2>1 DEF UntouchedInv
      <3> QED
        BY <1>3, <3>1, NamesApartStep, NextIsMain
    <2> SUFFICES ASSUME gaveup = {}, NamesApart
                 PROVE  /\ dl'.phase \in Opened => files'[dl'.name].from \subseteq {dl.url}
                        /\ \A n \in DOMAIN files' : \A u, v \in files'[n].from : u = v
      BY <2>1, <2>2, <2>3 DEF PureInv
    <2>4. ASSUME dl.phase \in Opened
          PROVE  dl.name \in DOMAIN files /\ files[dl.name].from \subseteq {dl.url} /\ dl.phase # "hls"
      BY <2>1, <2>4 DEF PureInv, DiskInv, Exists, Opened
    <2>5. ASSUME Open PROVE files'[dl'.name].from \subseteq {dl.url}
      <3>1. CASE ~Exists(dl'.name)
        <4>1. files'[dl'.name] = Empty
          BY <2>5, <3>1, OpenName DEF With
        <4> QED
          BY <4>1 DEF Empty
      <3>2. CASE Exists(dl'.name)
        <4>1. HasState(dl'.name) /\ files' = files /\ dl.phase = "new"
          BY <2>5, <3>2, OpenName
        <4>2. CASE Batch /\ OwnNames
          BY <2>1, <2>5, <4>1, <4>2, LeftIsAimed, OpenName
        <4>3. CASE runs = 1
          BY <4>1, <4>3 DEF FirstRunInv, HasState
        <4>4. CASE Multi
          BY <2>1, <2>5, <3>2, <4>1, <4>4, OpenName DEF AimInv, Multi, Batch
        <4>5. CASE ~Batch /\ ~Multi
          BY <2>1, <4>1, <4>5 DEF AimInv, LeftInv, HasState
        <4> QED
          BY <4>2, <4>3, <4>4, <4>5 DEF NamesApart
      <3> QED
        BY <3>1, <3>2
    <2>6. ASSUME dl'.phase \in Opened PROVE files'[dl'.name].from \subseteq {dl.url}
      <3>1. CASE dl.phase = "new"
        BY <2>1, <2>5, <2>6, <3>1
      <3>2. CASE dl.phase \in Opened
        <4>1. PICK n \in DOMAIN files : n = dl.name /\ files[n].from \subseteq {dl.url} /\ dl.phase # "hls"
          BY <2>4, <3>2
        <4>2. files'[n] = files[n] \/ files'[n].from \subseteq files[n].from \cup {dl.url}
          BY <2>1, <4>1, FromGrows
        <4>3. dl'.name = n
          BY <2>1, <3>2, <4>1
        <4> QED
          BY <4>1, <4>2, <4>3
      <3> QED
        BY <2>1, <2>6, <3>1, <3>2 DEF Opened
    <2>7. ASSUME NEW n \in DOMAIN files' PROVE \A u, v \in files'[n].from : u = v
      <3>1. CASE n \in DOMAIN files /\ files'[n] = files[n]
        BY <3>1 DEF PureInv
      <3>2. CASE files'[n].from \subseteq {dl.url}
        BY <3>2
      <3>3. CASE dl.phase \in {"loop", "data"} /\ n = dl.name
        <4>1. files'[n].from \subseteq files[n].from \cup {dl.url} \/ files'[n] = files[n]
          BY <2>1, <2>4, <3>3, FromGrows DEF Opened
        <4> QED
          BY <2>4, <3>2, <3>3, <4>1 DEF Opened
      <3> QED
        BY <2>1, <3>1, <3>2, <3>3, FromGrows
    <2> QED
      BY <2>6, <2>7
  <1> QED
    BY <1>1, <1>2, <1>3, NextIsMain

SourceInv == DirInv /\ UntouchedInv /\ FirstRunInv /\ LeftInv /\ PureInv

LEMMA SourceInit == CLInit => SourceInv
  <1> SUFFICES ASSUME CLInit PROVE SourceInv
    OBVIOUS
  <1>1. dl.phase = "none" /\ states = {} /\ runs = 1
    BY NoneIsNone DEF CLInit
  <1>2. PICK names : files = [n \in names |-> [from |-> {Other}, whole |-> TRUE]]
    BY DEF CLInit
  <1>3. \A n \in DOMAIN files : files[n].from = {Other}
    BY <1>2
  <1>4. FirstRunInv /\ LeftInv /\ PureInv
    BY <1>1, <1>3 DEF FirstRunInv, LeftInv, PureInv, Opened
  <1> QED
    BY <1>4, DirInit, AimInit DEF SourceInv

LEMMA SourceNext == SourceInv /\ [CLNext]_clvars => SourceInv'
  <1> SUFFICES ASSUME SourceInv, [CLNext]_clvars PROVE SourceInv'
    OBVIOUS
  <1>1. DirInv /\ UntouchedInv /\ FirstRunInv /\ LeftInv /\ PureInv
    BY DEF SourceInv
  <1> QED
    BY <1>1, DirNext, UntouchedStep, FirstRunStep, LeftStep, PureStep DEF SourceInv

(* Whatever the URLs, the names and the servers, whatever was interrupted and *)
(* how often the command was given: no file mixes the bytes of two URLs.      *)
THEOREM OneSourceEver == CLSpec => []OneSource
  <1>1. SourceInv => OneSource
    BY DEF SourceInv, PureInv, OneSource
  <1> QED
    BY <1>1, SourceInit, SourceNext, PTL DEF CLSpec

-----------------------------------------------------------------------------
(* What is saved stays so.                                                    *)
LEMMA SavedStays ==
    ASSUME DirInv, Downloading, dl.phase = "hls" => pc = "series", NEW n, NEW url, Saved(n, url)
    PROVE  Saved(n, url)'
  <1>1. n \in DOMAIN files /\ ~HasState(n) /\ files[n] = [from |-> {url}, whole |-> TRUE]
    BY DEF Saved, Exists
  <1>2. files[n].whole
    BY <1>1
  <1>3. n \in DOMAIN files' /\ files'[n] = files[n] /\ n \notin states'
    BY <1>1, <1>2, WholeStays
  <1> QED
    BY <1>1, <1>3 DEF Saved, Exists, HasState

LEMMA SavedSame ==
    ASSUME UNCHANGED <<files, states>>
    PROVE  \A n, url : Saved(n, url)' = Saved(n, url)
  BY DEF Saved, Exists, HasState

(* How a download of the command line's may end.                              *)
LEMMA ReturnsZero ==
    ASSUME DirInv, Downloading, dl'.phase = "returned", dl'.ret = 0, NoneMisjudged'
    PROVE  \/ CloseReady
           \/ dl.phase = "returned" /\ dl'.ret = dl.ret
           \/ HlsDone
  <1>0. DiskInv /\ DownloadNext
    BY DownloadingFrame DEF DirInv
  <1>1. CASE FluxNewDeclines \/ FluxNewFails \/ RefuseName \/ OpenFails \/ HlsFails
    <2>1. Return(1)
      BY <1>1 DEF FluxNewDeclines, FluxNewFails, RefuseName, OpenFails, HlsFails
    <2>2. dl'.ret = 1
      BY <1>0, <2>1, ReturnDoes
    <2> QED
      BY <2>2
  <1>2. CASE CloseInterrupted
    <2>1. dl'.ret = 2
      BY <1>0, <1>2, ReturnDoes DEF CloseInterrupted
    <2> QED
      BY <2>1
  <1>3. CASE GiveUp
    BY <1>3 DEF GiveUp, NoneMisjudged
  <1>4. CASE Open
    BY <1>0, <1>4, OpenDoes
  <1>5. CASE InstallHandlers \/ FluxDo \/ Complete \/ BreakOff
    <2>1. PICK p \in {"loop", "data", "ready"} : dl' = [dl EXCEPT !.phase = p]
      BY <1>5 DEF InstallHandlers, FluxDo, Complete, BreakOff
    <2>2. dl'.phase = p
      BY <1>0, <2>1, Fields
    <2> QED
      BY <2>2
  <1> QED
    BY <1>0, <1>1, <1>2, <1>3, <1>4, <1>5 DEF DownloadNext

LEMMA SavedDownload ==
    ASSUME SourceInv, SavedInv, Downloading
    PROVE  SavedInv'
  <1>0. DirInv /\ FirstRunInv /\ UntouchedInv /\ PureInv /\ DiskInv /\ AimInv /\ PlaceInv
    BY DEF SourceInv, DirInv
  <1>1. /\ DownloadNext /\ UNCHANGED <<cmd, pc, k, failed, ret, items>> /\ Batch' = Batch
        /\ dl.phase # "none" /\ dl'.url = dl.url
    BY <1>0, DownloadingFrame, DownloadShape, BatchSame
  <1>2. NoneMisjudged' => NoneMisjudged
    BY GaveUpGrows, NextIsMain DEF NoneMisjudged
  <1>3. NamesApart' => NamesApart
    <2>1. Batch => at = "expanded"
      BY <1>0, <1>1 DEF UntouchedInv
    <2> QED
      BY <1>0, <2>1, NamesApartStep, NextIsMain
  <1> SUFFICES ASSUME Batch, NoneMisjudged', NamesApart
               PROVE  /\ (pc' = "batch" /\ failed' = 0) =>
                           \A i \in DOMAIN items' : i < k' => \E n \in DOMAIN files' : Saved(n, items[i].url)'
                      /\ (dl'.phase = "returned" /\ dl'.ret = 0) => \E n \in DOMAIN files' : Saved(n, dl.url)'
                      /\ pc' # "exit"
    BY <1>1, <1>3 DEF SavedInv
  <1>4. NoneMisjudged /\ dl.phase # "hls" /\ pc # "exit"
    BY <1>0, <1>1, <1>2 DEF AimInv
  <1>5. ASSUME NEW url, \E n \in DOMAIN files : Saved(n, url)
        PROVE  \E n \in DOMAIN files' : Saved(n, url)'
    <2>1. PICK n \in DOMAIN files : Saved(n, url)
      BY <1>5
    <2>2. Saved(n, url)'
      BY <1>0, <1>4, <2>1, SavedStays
    <2>3. n \in DOMAIN files'
      BY <2>2 DEF Saved, Exists
    <2> QED
      BY <2>2, <2>3
  <1>6. ASSUME pc' = "batch", failed' = 0, NEW i \in DOMAIN items', i < k'
        PROVE  \E n \in DOMAIN files' : Saved(n, items[i].url)'
    <2>1. PICK url : url = items[i].url /\ url = items'[i].url
      BY <1>1
    <2>2. i \in DOMAIN items /\ i < k /\ pc = "batch" /\ failed = 0
      BY <1>1, <1>6
    <2>3. \E n \in DOMAIN files : Saved(n, url)
      BY <1>4, <2>1, <2>2 DEF SavedInv
    <2>4. PICK n \in DOMAIN files' : Saved(n, url)'
      BY <1>5, <2>3
    <2>5. Saved(n, items[i].url)'
      BY <2>1, <2>4 DEF Saved
    <2> QED
      BY <2>5
  <1>7. ASSUME dl'.phase = "returned", dl'.ret = 0
        PROVE  \E n \in DOMAIN files' : Saved(n, dl.url)'
    <2>0. PICK url : url = dl.url /\ url = dl'.url
      BY <1>1
    <2>1. CASE CloseReady
      <3>1. /\ dl.phase = "ready" /\ files' = files /\ states' = states \ {dl.name}
        BY <2>1 DEF CloseReady
      <3>2. dl.name \in DOMAIN files /\ files[dl.name].whole = TRUE /\ url \in files[dl.name].from
        BY <1>0, <1>4, <2>0, <3>1 DEF DiskInv, Opened, Exists, NoneMisjudged
      <3>3. files[dl.name].from = {url}
        BY <1>0, <1>4, <2>0, <3>1, <3>2 DEF PureInv, Opened, NoneMisjudged
      <3>4. files[dl.name] = [from |-> {url}, whole |-> TRUE]
        BY <1>0, <3>2, <3>3 DEF DiskInv
      <3>5. PICK m : m = dl.name
        OBVIOUS
      <3>6. Saved(m, url)'
        BY <3>1, <3>2, <3>4, <3>5 DEF Saved, Exists, HasState
      <3>7. Saved(m, dl.url)'
        BY <2>0, <3>6 DEF Saved
      <3> QED
        BY <3>1, <3>2, <3>5, <3>7
    <2>2. CASE dl.phase = "returned" /\ dl'.ret = dl.ret
      <3>1. PICK n \in DOMAIN files' : Saved(n, url)'
        BY <1>4, <1>5, <1>7, <2>0, <2>2 DEF SavedInv
      <3>2. Saved(n, dl.url)'
        BY <2>0, <3>1 DEF Saved
      <3> QED
        BY <3>2
    <2>3. CASE HlsDone
      BY <1>4, <2>3 DEF HlsDone
    <2> QED
      BY <1>0, <1>7, <2>1, <2>2, <2>3, ReturnsZero
  <1> QED
    BY <1>1, <1>4, <1>6, <1>7

LEMMA BatchActions ==
    ASSUME DirInv, MainStep, Batch
    PROVE  \/ ResolveFails \/ DoExpand \/ Expands \/ ExpandOver \/ BatchNext \/ ItemOver \/ BatchOver
           \/ Signal \/ Die \/ Again
  <1>1. PlaceInv /\ cmd.mode = "url" /\ ~Multi
    BY DEF DirInv, Batch, Multi
  <1>2. ~(DoSearch \/ DoOne \/ DoSeries \/ NoSelection)
    BY <1>1 DEF DoSearch, DoOne, DoSeries, NoSelection, Batch
  <1>3. ~(Searches \/ SearchOver \/ OneOver \/ SkipEpisode \/ DownloadEpisode \/ SeriesOver)
    BY <1>1 DEF Searches, SearchOver, OneOver, SkipEpisode, DownloadEpisode, SeriesOver, Looking, PlaceInv
  <1> QED
    BY <1>2, <1>3 DEF MainStep

LEMMA SavedMain ==
    ASSUME SourceInv, SavedInv, MainStep
    PROVE  SavedInv'
  <1>0. DirInv /\ FirstRunInv /\ UntouchedInv /\ PlaceInv /\ AimInv
    BY DEF SourceInv, DirInv
  <1>1. UNCHANGED <<files, states, gaveup, cutshort, cmd>> /\ Batch' = Batch
    BY MainFrame, BatchSame
  <1>2. \A n, url : Saved(n, url)' = Saved(n, url)
    BY <1>1, SavedSame
  <1> SUFFICES ASSUME Batch, NoneMisjudged, NamesApart'
               PROVE  /\ (pc' = "batch" /\ failed' = 0) =>
                           \A i \in DOMAIN items' : i < k' => \E n \in DOMAIN files : Saved(n, items'[i].url)
                      /\ (dl'.phase = "returned" /\ dl'.ret = 0) => \E n \in DOMAIN files : Saved(n, dl'.url)
                      /\ (pc' = "exit" /\ ret' = 0) =>
                           \A i \in DOMAIN items' : \E n \in DOMAIN files : Saved(n, items'[i].url)
    <2>1. \A n, url : Saved(n, url)' <=> Exists(n) /\ ~HasState(n) /\ files[n] = [from |-> {url}, whole |-> TRUE]
      BY <1>2 DEF Saved
    <2> QED
      BY <1>1, <2>1 DEF SavedInv, Saved, Exists, HasState, NoneMisjudged
  <1>3. NamesApart \/ at # "expanded"
    BY <1>0, NamesApartStep, NextIsMain
  <1>4. CASE DoExpand \/ Expands
    <2>1. pc' = "expand" /\ dl' = dl
      BY <1>4 DEF DoExpand, Expands, dlvars, mainvars
    <2>2. dl.phase = "none"
      BY <1>0, <1>4 DEF DoExpand, Expands, Main, PlaceInv
    <2> QED
      BY <2>1, <2>2
  <1>5. CASE ResolveFails
    BY <1>0, <1>5 DEF ResolveFails, Main, Exit, PlaceInv
  <1>6. CASE ExpandOver
    <2>1. /\ UNCHANGED <<items, dl, k>> /\ pc = "expand"
          /\ (pc' = "exit" /\ ret' = 1) \/ pc' = "batch"
      BY <1>6 DEF ExpandOver, Exit, IdleGlob, globvars, dlvars
    <2>2. k' = 1 /\ dl'.phase = "none" /\ \E S : items' \in Seq(S)
      BY <1>0, <2>1 DEF PlaceInv
    <2>3. \A i \in DOMAIN items' : ~(i < k')
      BY <2>2
    <2> QED
      BY <2>1, <2>2, <2>3
  <1>7. CASE BatchNext
    <2>1. UNCHANGED <<pc, failed, k, ret, items>> /\ pc = "batch" /\ Begun(dl')
      BY <1>7 DEF BatchNext, mainvars, IdleGlob, globvars, Begun
    <2>2. dl'.phase # "returned" /\ NamesApart
      BY <1>0, <1>3, <2>1, BegunFields DEF PlaceInv
    <2> QED
      BY <2>1, <2>2 DEF SavedInv
  <1>8. CASE ItemOver
    <2>1. /\ UNCHANGED <<pc, ret, items>> /\ pc = "batch" /\ k' = k + 1 /\ dl'.phase = "none" /\ dl.phase = "returned"
          /\ failed' = failed + (IF dl.ret # 0 THEN 1 ELSE 0)
      BY <1>0, <1>8, NoneIsNone DEF ItemOver, IdleGlob, globvars, PlaceInv, Batch, Multi, Failure
    <2>2. NamesApart /\ k \in Nat /\ failed \in Nat /\ \A i \in DOMAIN items : i \in Nat
      BY <1>0, <1>3, <2>1 DEF PlaceInv
    <2>3. dl.url = items[k].url
      BY <1>0, <2>1 DEF AimInv
    <2>4. ASSUME failed' = 0, NEW i \in DOMAIN items, i < k'
          PROVE  \E n \in DOMAIN files : Saved(n, items[i].url)
      <3>1. failed = 0 /\ dl.ret = 0
        BY <2>1, <2>2, <2>4
      <3>2. i < k \/ i = k
        BY <2>1, <2>2, <2>4
      <3> QED
        BY <2>1, <2>2, <2>3, <3>1, <3>2 DEF SavedInv
    <2> QED
      BY <2>1, <2>4
  <1>9. CASE BatchOver
    <2>1. /\ UNCHANGED <<items, dl, failed, k>> /\ pc = "batch" /\ pc' = "exit" /\ dl.phase = "none"
          /\ ret' = (IF ~run THEN 2 ELSE IF failed > 0 THEN 1 ELSE 0)
          /\ k > Len(items) \/ ~run
      BY <1>9 DEF BatchOver, IdleGlob, globvars, Exit, dlvars
    <2>2. NamesApart /\ k \in Nat /\ failed \in Nat /\ \E S : items \in Seq(S)
      BY <1>0, <1>3, <2>1 DEF PlaceInv
    <2>3. ASSUME ret' = 0 PROVE failed = 0 /\ \A i \in DOMAIN items : i < k
      BY <2>1, <2>2, <2>3
    <2> QED
      BY <2>1, <2>2, <2>3 DEF SavedInv
  <1>10. CASE Signal \/ Die
    <2>1. /\ UNCHANGED <<items, dl, failed, k, ret>> /\ pc' \in {pc, "down"} /\ pc # "exit"
      BY <1>10 DEF Signal, Die, Running, IdleGlob, globvars, mainvars, SameDisk
    <2>2. pc = "batch" \/ dl.phase # "none" => NamesApart
      BY <1>0, <1>3 DEF PlaceInv, UntouchedInv
    <2> QED
      BY <2>1, <2>2 DEF SavedInv
  <1>11. CASE Again
    BY <1>11, AgainDoes, NoneIsNone
  <1> QED
    BY <1>0, <1>4, <1>5, <1>6, <1>7, <1>8, <1>9, <1>10, <1>11, BatchActions

LEMMA SavedStep ==
    ASSUME SourceInv, SavedInv, [CLNext]_clvars
    PROVE  SavedInv'
  <1>1. CASE UNCHANGED clvars
    <2>1. /\ UNCHANGED <<cmd, files, states, dl, gaveup, cutshort, pc, k, failed, ret, runs, items>>
          /\ OwnNames' = OwnNames /\ Batch' = Batch
      BY <1>1, Stutter, OwnNamesSame, BatchSame
    <2>2. NamesApart' = NamesApart
      BY <2>1 DEF NamesApart
    <2> QED
      BY <2>1, <2>2 DEF SavedInv, Saved, Exists, HasState, NoneMisjudged
  <1> QED
    BY <1>1, SavedMain, SavedDownload, NextIsMain

-----------------------------------------------------------------------------
LEMMA DueFinite ==
    ASSUME PlaceInv, series.sel \subseteq 1..NEpisodes
    PROVE  /\ IsFiniteSet(Due) /\ Cardinality(Due) \in Nat
           /\ IsFiniteSet(Attempted) /\ Cardinality(Attempted) \in Nat
           /\ \A S \in SUBSET Due : IsFiniteSet(S) /\ Cardinality(S) \in Nat
  <1>1. NEpisodes \in Nat
    BY CommandAssumption DEF PlaceInv, NEpisodes
  <1>2. IsFiniteSet(1..NEpisodes)
    BY <1>1, FS_Interval
  <1>3. Due \in SUBSET (1..NEpisodes) /\ Attempted \in SUBSET Due
    BY DEF Due, Attempted
  <1>4. IsFiniteSet(Due)
    BY <1>2, <1>3, FS_Subset
  <1>5. \A S \in SUBSET Due : IsFiniteSet(S) /\ Cardinality(S) \in Nat
    BY <1>4, FS_Subset, FS_CardinalityType
  <1> QED
    BY <1>3, <1>4, <1>5

LEMMA DoneStays ==
    ASSUME DirInv, Downloading, dl.phase = "hls" => pc = "series", NEW n, Done(n)
    PROVE  Done(n)'
  <1>1. n \in DOMAIN files /\ ~HasState(n) /\ files[n].whole
    BY DEF Done, Exists
  <1>2. n \in DOMAIN files' /\ files'[n] = files[n] /\ n \notin states'
    BY <1>1, WholeStays
  <1> QED
    BY <1>1, <1>2 DEF Done, Exists, HasState

LEMMA SeriesDownload ==
    ASSUME DirInv, SeriesInv, Downloading
    PROVE  SeriesInv'
  <1>1. /\ DiskInv /\ PlaceInv /\ AimInv /\ DownloadNext
        /\ UNCHANGED <<cmd, pc, k, failed, series, ret>> /\ Multi' = Multi /\ NEpisodes' = NEpisodes
        /\ dl.phase \notin {"none", "returned"} /\ dl'.out = dl.out
        /\ dl'.phase = "returned" \/ (dl'.phase \in Opened /\ dl.phase \in Opened \cup {"new"})
        /\ dl.phase = "new" /\ dl'.phase \in Opened => Open
        /\ dl.phase \in Opened => dl'.name = dl.name
    BY DownloadingFrame, DownloadShape, BatchSame DEF DirInv
  <1>2. NoneMisjudged' => NoneMisjudged
    BY GaveUpGrows, NextIsMain DEF NoneMisjudged
  <1>3. pc # "exit" /\ dl'.phase # "none"
    BY <1>1 DEF PlaceInv, Opened
  <1>4. Due' = Due /\ Attempted' = Attempted
    BY <1>1, <1>3 DEF Due, Attempted
  <1>5. DOMAIN files \subseteq DOMAIN files'
    BY <1>1, FromGrows
  <1>6. ASSUME NEW path, OnDisk(path) PROVE OnDisk(path)'
    BY <1>5, <1>6 DEF OnDisk, Exists
  <1>7. ASSUME Multi
        PROVE  /\ pc \in {"series", "down"} /\ dl.out # <<>>
               /\ dl.phase = "hls" => ~Exists(dl.out) /\ HlsTarget(dl.url, dl.out) = dl.out
               /\ dl.phase \in Opened => dl.name = dl.out
    BY <1>1, <1>7 DEF AimInv, HlsTarget, Multi, Batch
  <1>8. ASSUME NoneMisjudged', dl'.phase = "returned", dl'.ret = 0, Multi
        PROVE  Done(dl.out)'
    <2>1. CASE CloseReady
      <3>1. dl.phase = "ready" /\ files' = files /\ states' = states \ {dl.name}
        BY <2>1 DEF CloseReady
      <3>2. dl.name \in DOMAIN files /\ files[dl.name].whole /\ dl'.out = dl.name
        BY <1>1, <1>2, <1>7, <1>8, <3>1 DEF DiskInv, Opened, Exists, NoneMisjudged
      <3> QED
        BY <1>1, <3>1, <3>2 DEF Done, Exists, HasState
    <2>2. CASE HlsDone
      <3>1. /\ dl.phase = "hls" /\ states' = states
            /\ files' = With(HlsTarget(dl.url, dl.out), [from |-> {dl.url}, whole |-> TRUE])
        BY <2>2 DEF HlsDone
      <3>2. files' = With(dl.out, [from |-> {dl.url}, whole |-> TRUE]) /\ dl.out \notin DOMAIN files
        BY <1>7, <1>8, <3>1 DEF Exists
      <3>3. dl.out \in DOMAIN files' /\ files'[dl.out].whole /\ dl.out \notin states'
        BY <1>1, <3>1, <3>2 DEF With, DiskInv
      <3> QED
        BY <1>1, <3>3 DEF Done, Exists, HasState
    <2> QED
      BY <1>1, <1>8, <2>1, <2>2, ReturnsZero
  <1>9. (NoneMisjudged' /\ dl'.phase = "returned" /\ dl'.ret = 0 /\ Multi) => Done(dl.out)'
    BY <1>8
  <1>10. ASSUME NoneMisjudged', pc = "series", failed = 0, NEW i \in Due, OnDisk(series.path[i])'
         PROVE  \/ Done(series.path[i])'
                \/ dl'.phase \in Opened /\ dl'.name = series.path[i]
                \/ dl'.phase = "returned" /\ dl'.ret # 0
    <2>1. PICK path : path = series.path[i] /\ path = series'.path[i]
      BY <1>1
    <2>2. Multi /\ path # <<>> /\ path \in DOMAIN files'
      <3>1. Multi /\ i \in series.sel
        BY <1>1, <1>10 DEF PlaceInv, Due
      <3>2. path # <<>> /\ (path \in DOMAIN files' \/ path \in Directories)
        BY <1>10, <2>1 DEF OnDisk, Exists
      <3>3. path \notin Directories
        BY <1>10, <2>1, <3>2 DEF SeriesInv
      <3> QED
        BY <3>1, <3>2, <3>3
    <2>3. ASSUME path = dl.out, dl'.phase = "returned" PROVE dl'.ret # 0 \/ Done(path)'
      <3>1. dl'.ret = 0 => Done(dl.out)'
        BY <1>9, <1>10, <2>2, <2>3
      <3> QED
        BY <1>1, <2>3, <3>1 DEF Done
    <2>4. CASE path \in DOMAIN files
      <3>1. Done(path) \/ (dl.phase \in Opened /\ dl.name = path)
        BY <1>1, <1>2, <1>10, <2>1, <2>2, <2>4 DEF SeriesInv, OnDisk, Exists
      <3>2. CASE Done(path)
        <4>1. Done(path)'
          BY <1>10, <3>2, DoneStays
        <4> QED
          BY <2>1, <4>1 DEF Done
      <3>3. CASE dl.phase \in Opened /\ dl.name = path
        <4>1. path = dl.out /\ dl'.name = path
          BY <1>1, <1>7, <2>2, <3>3
        <4>2. dl'.ret # 0 \/ Done(path)' \/ dl'.phase \in Opened
          BY <1>1, <2>3, <4>1
        <4>3. Done(path)' => Done(series.path[i])'
          BY <2>1 DEF Done
        <4> QED
          BY <1>1, <2>1, <2>3, <4>1, <4>2, <4>3
      <3> QED
        BY <3>1, <3>2, <3>3
    <2>5. CASE path \notin DOMAIN files
      <3>1. files' # files
        BY <2>2, <2>5
      <3>2. CASE Open /\ files' = With(dl'.name, Empty)
        <4>1. path = dl'.name
          BY <2>2, <2>5, <3>2 DEF With
        <4>2. dl'.phase \in Opened
          BY <3>2, OpenName DEF Opened
        <4> QED
          BY <2>1, <4>1, <4>2
      <3>3. CASE dl.phase = "hls" /\ files' = With(HlsTarget(dl.url, dl.out), [from |-> {dl.url}, whole |-> TRUE])
        <4>1. path = dl.out
          BY <1>7, <2>2, <2>5, <3>3 DEF With
        <4>2. dl'.phase = "returned"
          BY <1>1, <3>3 DEF Opened
        <4>3. Done(path)' => Done(series.path[i])'
          BY <2>1 DEF Done
        <4> QED
          BY <2>3, <4>1, <4>2, <4>3
      <3>4. CASE DOMAIN files' = DOMAIN files
        BY <2>2, <2>5, <3>4
      <3> QED
        BY <1>1, <3>1, <3>2, <3>3, <3>4, FilesStep
    <2> QED
      BY <2>4, <2>5
  <1>11. \A i \in series.sel : OnDisk(series.path[i]) => OnDisk(series.path[i])'
    <2> SUFFICES ASSUME NEW i \in series.sel, OnDisk(series.path[i]) PROVE OnDisk(series.path[i])'
      OBVIOUS
    <2>1. PICK path : path = series.path[i]
      OBVIOUS
    <2>2. OnDisk(path)'
      BY <1>6, <2>1
    <2> QED
      BY <1>1, <2>1, <2>2 DEF OnDisk
  <1>12. /\ series'.sel \subseteq 1..NEpisodes' /\ (series'.sel # {} => Multi')
         /\ \A i \in series'.sel : i \in series'.ondisk => OnDisk(series.path[i])'
         /\ \A i \in Due' : series'.path[i] # <<>> => series'.path[i] \notin Directories
         /\ pc' = "series" => /\ series'.attempted \in Nat /\ series'.attempted <= Cardinality(Attempted')
                              /\ series'.todo = Cardinality(Due')
    BY <1>1, <1>4, <1>11 DEF SeriesInv
  <1>13. (NoneMisjudged' /\ pc' = "series" /\ failed' = 0) =>
            \A i \in series'.sel : i < k' => OnDisk(series.path[i])'
    BY <1>1, <1>2, <1>11 DEF SeriesInv
  <1> QED
    BY <1>1, <1>3, <1>4, <1>9, <1>10, <1>12, <1>13 DEF SeriesInv

(* The parts of SeriesInv, over what main does to them.                       *)
LEMMA SeriesKeeps ==
    ASSUME DirInv, SeriesInv, MainStep
    PROVE  /\ UNCHANGED <<files, states, gaveup, cutshort, cmd>> /\ Multi' = Multi /\ NEpisodes' = NEpisodes
           /\ \A path : OnDisk(path)' = OnDisk(path) /\ Done(path)' = Done(path)
           /\ (NoneMisjudged' /\ dl'.phase = "returned" /\ dl'.ret = 0 /\ Multi) => Done(dl'.out)
  <1>1. /\ UNCHANGED <<files, states, gaveup, cutshort, cmd>> /\ Multi' = Multi /\ NEpisodes' = NEpisodes
        /\ dl' = dl \/ dl'.phase # "returned"
    BY MainFrame, BatchSame, BegunFields, NoneIsNone
  <1> QED
    BY <1>1 DEF SeriesInv, OnDisk, Done, Exists, HasState, NoneMisjudged

LEMMA SeriesSame ==
    ASSUME DirInv, SeriesInv, MainStep, UNCHANGED series,
           (* where the series goes on, one step further at most *)
           pc' = "series" =>
             /\ pc = "series" /\ failed' \in Nat /\ (failed' = 0 => failed = 0)
             /\ \/ k' = k /\ dl' = dl
                \/ /\ k' = k + 1 /\ dl'.phase = "none"
                   /\ (failed' = 0 /\ NoneMisjudged /\ k \in series.sel) => OnDisk(series.path[k])
                   /\ dl.phase = "none" \/ (dl.phase = "returned" /\ (failed' = 0 => dl.ret = 0)),
           (* where it is over, it is done *)
           pc' = "exit" /\ ret' = 0 /\ NoneMisjudged =>
             \A i \in series.sel : OnDisk(series.path[i]) /\ (i \in Due => Done(series.path[i]))
    PROVE  SeriesInv'
  <1>1. /\ UNCHANGED <<files, states, gaveup, cutshort, cmd, series>> /\ Multi' = Multi /\ NEpisodes' = NEpisodes
        /\ \A path : OnDisk(path)' = OnDisk(path) /\ Done(path)' = Done(path)
        /\ (NoneMisjudged' /\ dl'.phase = "returned" /\ dl'.ret = 0 /\ Multi) => Done(dl'.out)
    BY SeriesKeeps
  <1>2. Due' = Due /\ k \in Nat /\ PlaceInv /\ Due \subseteq 1..NEpisodes
    BY <1>1 DEF Due, DirInv, PlaceInv, SeriesInv
  <1>3. \A i : OnDisk(series.path[i])' = OnDisk(series.path[i]) /\ Done(series.path[i])' = Done(series.path[i])
    BY <1>1 DEF OnDisk, Done, Exists, HasState
  <1>4. ASSUME pc' = "series" PROVE Cardinality(Attempted) <= Cardinality(Attempted') /\ Cardinality(Attempted') \in Nat
    <2>1. Attempted \in SUBSET Attempted' /\ Attempted' \in SUBSET Due
      BY <1>2, <1>4 DEF Attempted
    <2>2. IsFiniteSet(Attempted') /\ Cardinality(Attempted') \in Nat
      BY <1>2, <2>1, DueFinite DEF SeriesInv
    <2> QED
      BY <2>1, <2>2, FS_Subset
  <1>5. pc' = "series" => /\ series'.attempted \in Nat /\ series'.attempted <= Cardinality(Attempted')
                          /\ series'.todo = Cardinality(Due')
    <2> SUFFICES ASSUME pc' = "series"
                 PROVE  /\ series.attempted \in Nat /\ series.attempted <= Cardinality(Attempted')
                        /\ series.todo = Cardinality(Due)
      BY <1>1, <1>2
    <2>1. /\ series.attempted \in Nat /\ series.attempted <= Cardinality(Attempted)
          /\ series.todo = Cardinality(Due)
      BY DEF SeriesInv
    <2>2. Cardinality(Attempted) \in Nat
      BY <1>2, DueFinite DEF SeriesInv
    <2> QED
      BY <1>4, <2>1, <2>2
  <1>6. ASSUME NoneMisjudged, pc' = "series", failed' = 0
        PROVE  /\ \A i \in series.sel : i < k' => OnDisk(series.path[i])
               /\ \A i \in Due : OnDisk(series.path[i]) =>
                    \/ Done(series.path[i])
                    \/ dl'.phase \in Opened /\ dl'.name = series.path[i]
                    \/ dl'.phase = "returned" /\ dl'.ret # 0
    <2>1. \A i \in series.sel : i \in Nat
      BY DEF SeriesInv, DueFinite
    <2>2. /\ \A i \in series.sel : i < k => OnDisk(series.path[i])
          /\ \A i \in Due : OnDisk(series.path[i]) =>
               \/ Done(series.path[i])
               \/ dl.phase \in Opened /\ dl.name = series.path[i]
               \/ dl.phase = "returned" /\ dl.ret # 0
      BY <1>6 DEF SeriesInv
    <2>3. CASE k' = k /\ dl' = dl
      BY <2>2, <2>3
    <2>4. CASE /\ k' = k + 1 /\ dl'.phase = "none"
               /\ k \in series.sel => OnDisk(series.path[k])
               /\ dl.phase = "none" \/ (dl.phase = "returned" /\ dl.ret = 0)
      <3>1. \A i \in series.sel : i < k' => i < k \/ i = k
        BY <1>2, <2>1, <2>4
      <3> QED
        BY <2>2, <2>4, <3>1 DEF Opened
    <2> QED
      BY <1>6, <2>3, <2>4
  <1> QED
    BY <1>1, <1>2, <1>3, <1>5, <1>6 DEF SeriesInv, NoneMisjudged

LEMMA SeriesBegins ==
    ASSUME DirInv, SeriesInv, DoSeries
    PROVE  SeriesInv'
  <1>0. PlaceInv /\ MainStep /\ dl.phase = "none" /\ k = 1 /\ UNCHANGED <<dl, k, failed>>
    BY DEF DirInv, MainStep, DoSeries, Main, PlaceInv, dlvars
  <1>1. /\ UNCHANGED <<files, states, gaveup, cutshort, cmd>> /\ Multi' = Multi /\ NEpisodes' = NEpisodes
        /\ \A path : OnDisk(path)' = OnDisk(path)
    BY <1>0, SeriesKeeps
  <1>2. PICK eps, path, ondisk, sel :
           /\ sel \in Selections(NEpisodes) /\ ondisk = {i \in 1..NEpisodes : OnDisk(path[i])}
           /\ series' = [eps |-> eps, path |-> path, ondisk |-> ondisk, sel |-> sel,
                         todo |-> Cardinality(sel \ ondisk), attempted |-> 0]
           /\ (pc' = "exit" /\ ret' = 1) \/ pc' = "series"
    BY DEF DoSeries, Exit
  <1>3. Multi /\ sel \subseteq 1..NEpisodes
    BY <1>2 DEF DoSeries, Multi, Selections
  <1>4. /\ series'.sel = sel /\ series'.ondisk = ondisk /\ series'.path = path /\ series'.attempted = 0
        /\ series'.todo = Cardinality(sel \ ondisk) /\ Due' = sel \ ondisk
    BY <1>2 DEF Due
  <1>5. PlaceInv'
    BY <1>0, PlaceMain DEF DirInv
  <1>6. IsFiniteSet(Attempted') /\ Cardinality(Attempted') \in Nat
    <2>1. NEpisodes' = NEpisodes /\ NEpisodes \in Nat
      BY <1>0, <1>1, CommandAssumption DEF PlaceInv, NEpisodes
    <2>2. IsFiniteSet(1..NEpisodes)
      BY <2>1, FS_Interval
    <2>3. Attempted' \in SUBSET (1..NEpisodes)
      BY <1>3, <1>4 DEF Attempted
    <2> QED
      BY <2>2, <2>3, FS_Subset, FS_CardinalityType
  <1>7. \A i : OnDisk(series.path[i])' = OnDisk(path[i])
    BY <1>1, <1>4 DEF OnDisk, Exists
  <1>8. \A i \in sel : (i \in ondisk <=> OnDisk(path[i])) /\ i \in Nat /\ ~(i < k')
    BY <1>0, <1>2, <1>3
  <1>9. \A i \in sel \ ondisk : path[i] # <<>> => path[i] \notin Directories
    BY <1>8 DEF OnDisk
  <1>10. /\ series'.sel \subseteq 1..NEpisodes' /\ (series'.sel # {} => Multi')
         /\ \A i \in series'.sel : i \in series'.ondisk => OnDisk(series.path[i])'
         /\ \A i \in Due' : series'.path[i] # <<>> => series'.path[i] \notin Directories
         /\ pc' = "series" => /\ series'.attempted \in Nat /\ series'.attempted <= Cardinality(Attempted')
                              /\ series'.todo = Cardinality(Due')
    <2>1. series'.sel \subseteq 1..NEpisodes' /\ (series'.sel # {} => Multi')
      BY <1>1, <1>3, <1>4
    <2>2. \A i \in series'.sel : i \in series'.ondisk => OnDisk(series.path[i])'
      BY <1>4, <1>7, <1>8
    <2>3. \A i \in Due' : series'.path[i] # <<>> => series'.path[i] \notin Directories
      BY <1>4, <1>9
    <2>4. /\ series'.attempted \in Nat /\ series'.attempted <= Cardinality(Attempted')
          /\ series'.todo = Cardinality(Due')
      BY <1>4, <1>6
    <2> QED
      BY <2>1, <2>2, <2>3, <2>4
  <1>11. /\ \A i \in series'.sel : ~(i < k')
         /\ \A i \in Due' : ~OnDisk(series.path[i])'
         /\ ~(pc' = "exit" /\ ret' = 0) /\ dl'.phase # "returned"
    BY <1>0, <1>2, <1>4, <1>7, <1>8
  <1> QED
    BY <1>10, <1>11 DEF SeriesInv

LEMMA SeriesAttempts ==
    ASSUME DirInv, SeriesInv, DownloadEpisode
    PROVE  SeriesInv'
  <1>0. /\ PlaceInv /\ MainStep /\ Multi /\ pc = "series" /\ pc' = pc /\ dl.phase = "none"
        /\ k \in series.sel /\ ~EpisodeOnDisk /\ k \in Nat
    BY DEF DirInv, MainStep, DownloadEpisode, Looking, PlaceInv
  <1>1. /\ UNCHANGED <<files, states, gaveup, cutshort, cmd>> /\ Multi' = Multi /\ NEpisodes' = NEpisodes
        /\ \A path : OnDisk(path)' = OnDisk(path) /\ Done(path)' = Done(path)
        /\ (NoneMisjudged' /\ dl'.phase = "returned" /\ dl'.ret = 0 /\ Multi) => Done(dl'.out)
    BY <1>0, SeriesKeeps
  <1>2. /\ series'.path = series.path /\ series'.sel = series.sel /\ series'.ondisk = series.ondisk
        /\ series'.attempted = series.attempted + 1 /\ series'.todo = series.todo
    BY <1>0, AttemptFields
  <1>3. Due' = Due /\ k \in Due /\ Due \subseteq 1..NEpisodes
    BY <1>0, <1>2 DEF Due, EpisodeOnDisk, SeriesInv
  <1>4. \/ failed' = failed + 1 /\ k' = k + 1 /\ dl' = dl
        \/ k' = k /\ failed' = failed /\ Begun(dl')
    BY MediaBegins DEF DownloadEpisode
  <1>5. dl'.phase \notin Opened /\ dl'.phase # "returned"
    BY <1>0, <1>4, BegunFields DEF Opened
  <1>6. \A i \in Due : i \in Nat
    BY <1>3
  <1>7. Attempted \cup {k} \in SUBSET Attempted' /\ Attempted' \in SUBSET Due
    <2>1. /\ \A i : i \in Attempted <=> i \in Due /\ i < k
          /\ \A i : i \in Attempted' <=> i \in Due /\ (i < k' \/ (i = k' /\ dl'.phase # "none"))
      BY <1>0, <1>3 DEF Attempted
    <2>2. k' = k + 1 \/ (k' = k /\ dl'.phase # "none")
      BY <1>4, BegunFields
    <2>3. \A i \in Attempted : i \in Attempted'
      BY <1>0, <1>6, <2>1, <2>2
    <2>4. k \in Attempted'
      BY <1>0, <1>3, <2>1, <2>2
    <2> QED
      BY <2>1, <2>3, <2>4
  <1>8. k \notin Attempted
    BY <1>0 DEF Attempted
  <1>9. series'.attempted \in Nat /\ series'.attempted <= Cardinality(Attempted')
    <2>1. /\ IsFiniteSet(Attempted) /\ Cardinality(Attempted) \in Nat
          /\ IsFiniteSet(Attempted') /\ Cardinality(Attempted') \in Nat
      BY <1>0, <1>7, DueFinite DEF SeriesInv
    <2>2. Cardinality(Attempted \cup {k}) = Cardinality(Attempted) + 1
      BY <1>8, <2>1, FS_AddElement
    <2>3. Cardinality(Attempted \cup {k}) <= Cardinality(Attempted')
      BY <1>7, <2>1, FS_Subset
    <2>4. series.attempted \in Nat /\ series.attempted <= Cardinality(Attempted)
      BY <1>0 DEF SeriesInv
    <2> QED
      BY <1>2, <2>1, <2>2, <2>3, <2>4
  <1>10. \A i : OnDisk(series.path[i])' = OnDisk(series.path[i]) /\ Done(series.path[i])' = Done(series.path[i])
    BY <1>1, <1>2 DEF OnDisk, Done, Exists, HasState
  <1>11. /\ series'.sel \subseteq 1..NEpisodes' /\ (series'.sel # {} => Multi')
         /\ \A i \in series'.sel : i \in series'.ondisk => OnDisk(series.path[i])'
         /\ \A i \in Due' : series'.path[i] # <<>> => series'.path[i] \notin Directories
         /\ series'.todo = Cardinality(Due')
    BY <1>0, <1>1, <1>2, <1>3, <1>10 DEF SeriesInv
  <1>12. ASSUME NoneMisjudged', failed' = 0
         PROVE  /\ \A i \in series'.sel : i < k' => OnDisk(series.path[i])'
                /\ \A i \in Due' : OnDisk(series.path[i])' => Done(series.path[i])'
    <2>1. k' = k /\ failed = 0 /\ NoneMisjudged
      BY <1>0, <1>1, <1>4, <1>12 DEF PlaceInv, NoneMisjudged
    <2> QED
      BY <1>0, <1>2, <1>3, <1>10, <2>1 DEF SeriesInv, Opened
  <1> QED
    BY <1>0, <1>5, <1>9, <1>11, <1>12 DEF SeriesInv

LEMMA SeriesOverDoes ==
    ASSUME DirInv, SeriesInv, SeriesOver, ret' = 0, NoneMisjudged, NEW i \in series.sel
    PROVE  OnDisk(series.path[i]) /\ (i \in Due => Done(series.path[i]))
  <1>0. /\ PlaceInv /\ pc = "series" /\ dl.phase = "none" /\ failed = 0
        /\ (run /\ k > NEpisodes) \/ ~(series.attempted < series.todo)
    BY DEF DirInv, SeriesOver, Exit, PlaceInv
  <1>1. /\ series.sel \subseteq 1..NEpisodes /\ NEpisodes \in Nat /\ k \in Nat
        /\ series.attempted \in Nat /\ series.attempted <= Cardinality(Attempted) /\ series.todo = Cardinality(Due)
    BY <1>0, CommandAssumption DEF SeriesInv, PlaceInv, NEpisodes
  <1>2. OnDisk(series.path[i])
    <2>1. CASE k > NEpisodes
      <3>1. i < k
        BY <1>1, <2>1
      <3> QED
        BY <1>0, <3>1 DEF SeriesInv
    <2>2. CASE ~(series.attempted < series.todo) /\ i \in Due
      <3>1. /\ IsFiniteSet(Due) /\ Cardinality(Due) \in Nat /\ Cardinality(Attempted) \in Nat
            /\ Attempted \in SUBSET Due
        BY <1>0, <1>1, DueFinite DEF Attempted
      <3>2. Cardinality(Attempted) <= Cardinality(Due)
        BY <3>1, FS_Subset
      <3>3. Cardinality(Attempted) = Cardinality(Due)
        BY <1>1, <2>2, <3>1, <3>2
      <3>4. Attempted = Due
        BY <3>1, <3>3, FS_Subset
      <3>5. i < k
        BY <1>0, <2>2, <3>4 DEF Attempted
      <3> QED
        BY <1>0, <3>5 DEF SeriesInv
    <2>3. CASE i \notin Due
      BY <2>3 DEF Due, SeriesInv
    <2> QED
      BY <1>0, <2>1, <2>2, <2>3
  <1> QED
    BY <1>0, <1>2 DEF SeriesInv, Opened

LEMMA SeriesMain ==
    ASSUME DirInv, SeriesInv, MainStep
    PROVE  SeriesInv'
  <1>0. PlaceInv /\ AimInv /\ failed \in Nat /\ k \in Nat
    BY DEF DirInv, PlaceInv
  <1>1. CASE DoSeries
    BY <1>1, SeriesBegins
  <1>2. CASE DownloadEpisode
    BY <1>2, SeriesAttempts
  <1>3. CASE Again
    <2>1. pc' = "main" /\ dl'.phase = "none" /\ series' = NoSeries
      BY <1>3, AgainDoes, NoneIsNone
    <2>2. series'.sel = {} /\ Due' = {}
      BY <2>1 DEF NoSeries, Due
    <2> QED
      BY <2>1, <2>2 DEF SeriesInv
  <1>4. CASE DoSearch \/ Searches \/ DoOne \/ DoExpand \/ Expands \/ Die
    <2>1. UNCHANGED series /\ pc' \notin {"series", "exit"}
      BY <1>4 DEF DoSearch, Searches, DoOne, DoExpand, Expands, Die, mainvars
    <2> QED
      BY <2>1, SeriesSame
  <1>5. CASE SearchOver \/ ResolveFails \/ ExpandOver \/ NoSelection
    <2>1. UNCHANGED series /\ pc' # "series" /\ (pc' = "exit" => ret' = 1)
      BY <1>5 DEF SearchOver, ResolveFails, ExpandOver, NoSelection, Exit
    <2> QED
      BY <2>1, SeriesSame
  <1>6. CASE OneOver \/ BatchNext \/ BatchOver
    <2>1. UNCHANGED series /\ pc' # "series" /\ ~Multi
      BY <1>0, <1>6 DEF OneOver, BatchNext, BatchOver, Exit, mainvars, PlaceInv, Multi, Batch
    <2>2. series.sel = {}
      BY <2>1 DEF SeriesInv
    <2> QED
      BY <2>1, <2>2, SeriesSame
  <1>7. CASE Signal
    <2>1. UNCHANGED <<series, pc, k, dl, failed>> /\ pc # "exit"
      BY <1>7 DEF Signal, Running, mainvars
    <2> QED
      BY <1>0, <2>1, SeriesSame
  <1>8. CASE SkipEpisode
    <2>1. /\ UNCHANGED <<series, pc, dl, failed>> /\ k' = k + 1 /\ pc = "series" /\ dl.phase = "none"
          /\ k \notin series.sel \/ EpisodeOnDisk
      BY <1>8 DEF SkipEpisode, Looking, dlvars
    <2>2. k \in series.sel => OnDisk(series.path[k])
      BY <2>1 DEF EpisodeOnDisk, SeriesInv
    <2> QED
      BY <1>0, <2>1, <2>2, SeriesSame
  <1>9. CASE ItemOver
    <2>1. /\ UNCHANGED <<series, pc>> /\ k' = k + 1 /\ dl.phase = "returned" /\ dl'.phase = "none"
          /\ pc \in {"batch", "series"} /\ failed' = failed + (IF dl.ret # 0 THEN 1 ELSE 0)
      BY <1>9, NoneIsNone DEF ItemOver, Failure
    <2>2. failed' \in Nat /\ (failed' = 0 => failed = 0 /\ dl.ret = 0)
      BY <1>0, <2>1
    <2>3. ASSUME pc = "series", failed' = 0, NoneMisjudged PROVE OnDisk(series.path[k])
      <3>1. Multi /\ dl.out = series.path[k] /\ dl.out # <<>>
        BY <1>0, <2>1, <2>3 DEF AimInv, PlaceInv
      <3>2. Done(dl.out)
        BY <2>1, <2>2, <2>3, <3>1 DEF SeriesInv
      <3> QED
        BY <3>1, <3>2 DEF Done, OnDisk
    <2> QED
      BY <2>1, <2>2, <2>3, SeriesSame
  <1>10. CASE SeriesOver
    <2>1. UNCHANGED series /\ pc' = "exit"
      BY <1>10 DEF SeriesOver, Exit
    <2>2. ret' = 0 /\ NoneMisjudged =>
             \A i \in series.sel : OnDisk(series.path[i]) /\ (i \in Due => Done(series.path[i]))
      BY <1>10, SeriesOverDoes
    <2> QED
      BY <2>1, <2>2, SeriesSame
  <1> QED
    BY <1>1, <1>2, <1>3, <1>4, <1>5, <1>6, <1>7, <1>8, <1>9, <1>10 DEF MainStep

LEMMA SeriesStep ==
    ASSUME DirInv, SeriesInv, [CLNext]_clvars
    PROVE  SeriesInv'
  <1>1. CASE UNCHANGED clvars
    <2>1. /\ UNCHANGED <<cmd, files, states, dl, gaveup, cutshort, pc, k, failed, ret, series>>
          /\ NEpisodes' = NEpisodes /\ Multi' = Multi
      BY <1>1, Stutter, BatchSame
    <2>2. Due' = Due /\ Attempted' = Attempted
      BY <2>1 DEF Due, Attempted
    <2> QED
      BY <2>1, <2>2 DEF SeriesInv, OnDisk, Done, Exists, HasState, NoneMisjudged
  <1> QED
    BY <1>1, SeriesMain, SeriesDownload, NextIsMain

CLInv == SourceInv /\ SavedInv /\ SeriesInv

LEMMA CLInvInit == CLInit => CLInv
  <1> SUFFICES ASSUME CLInit PROVE CLInv
    OBVIOUS
  <1>1. pc = "main" /\ dl.phase = "none" /\ series = NoSeries
    BY NoneIsNone DEF CLInit
  <1>2. series.sel = {} /\ Due = {}
    BY <1>1 DEF NoSeries, Due
  <1> QED
    BY <1>1, <1>2, SourceInit DEF CLInv, SavedInv, SeriesInv

LEMMA CLInvNext == CLInv /\ [CLNext]_clvars => CLInv'
  <1> SUFFICES ASSUME CLInv, [CLNext]_clvars PROVE CLInv'
    OBVIOUS
  <1>1. SourceInv /\ SavedInv /\ SeriesInv /\ DirInv
    BY DEF CLInv, SourceInv
  <1> QED
    BY <1>1, SourceNext, SavedStep, SeriesStep DEF CLInv

(* Exit status 0 is the truth about every URL of the expansion and about      *)
(* every episode that was selected, for every command line, directory and     *)
(* history of runs, as long as no download is given up, or broken off by a    *)
(* server without ranges, and called a success (see ExitCodeTruthful).        *)
THEOREM ExitAlwaysTruthful == CLSpec => []ExitTruthful
  <1>1. CLInv => ExitTruthful
    BY DEF CLInv, SavedInv, SeriesInv, Due, Done, ExitTruthful
  <1> QED
    BY <1>1, CLInvInit, CLInvNext, PTL DEF CLSpec

-----------------------------------------------------------------------------
(* The search of a command line is the search of MirrorSearch: what is proved *)
(* of its pool and its choice holds of the program as a whole.                *)
THEOREM CommandLineSearches == CLSpec => SearchSpec
  <1>1. CLInit => SearchInit
    BY DEF CLInit
  <1>2. [CLNext]_clvars => [SearchNext]_searchvars
    <2> SUFFICES ASSUME [CLNext]_clvars PROVE SearchNext \/ UNCHANGED searchvars
      OBVIOUS
    <2>1. CASE UNCHANGED clvars
      BY <2>1 DEF clvars
    <2>2. CASE Searches
      BY <2>2 DEF Searches
    <2>3. CASE Downloading
      BY <2>3 DEF Downloading, IdleSearch
    <2>4. CASE MainStep /\ ~Searches
      BY <2>4 DEF MainStep, DoSearch, SearchOver, DoOne, OneOver, ResolveFails, DoExpand, Expands, ExpandOver,
         BatchNext, ItemOver, BatchOver, DoSeries, NoSelection, SkipEpisode, DownloadEpisode, SeriesOver, Signal,
         Die, Again, IdleSearch
    <2> QED
      BY <2>1, <2>2, <2>3, <2>4, NextIsMain
  <1> QED
    BY <1>1, <1>2, PTL DEF CLSpec, SearchSpec

-----------------------------------------------------------------------------
(***************************************************************************)
(* URL expansion: the odometer counts                                      *)
(***************************************************************************)
LEMMA DivisionIs ==
    ASSUME NEW a \in Nat, NEW b \in Nat, b > 0
    PROVE  /\ a \div b \in Nat /\ a % b \in 0..(b - 1)
           /\ a = b * (a \div b) + (a % b)
  OBVIOUS

LEMMA DivisionUnique ==
    ASSUME NEW a \in Nat, NEW b \in Nat, b > 0, NEW q \in Nat, NEW r \in 0..(b - 1), a = b * q + r
    PROVE  a \div b = q /\ a % b = r
  <1> PICK p, t : p = a \div b /\ t = a % b
    OBVIOUS
  <1>1. p \in Nat /\ t \in 0..(b - 1) /\ a = b * p + t
    BY DivisionIs
  <1>2. b * (p - q) = r - t
    BY <1>1
  <1>3. ~(p - q >= 1)
    <2> SUFFICES ASSUME p - q >= 1 PROVE FALSE
      OBVIOUS
    <2>1. b * (p - q) >= b * 1
      <3>1. \A x, y, z \in Int : x >= 0 /\ y >= z => x * y >= x * z
        OBVIOUS
      <3> QED
        BY <1>1, <3>1
    <2> QED
      BY <1>1, <1>2, <2>1
  <1>4. ~(p - q <= -1)
    <2> SUFFICES ASSUME p - q <= -1 PROVE FALSE
      OBVIOUS
    <2>1. b * (p - q) <= b * (-1)
      <3>1. \A x, y, z \in Int : x >= 0 /\ y <= z => x * y <= x * z
        OBVIOUS
      <3> QED
        BY <1>1, <3>1
    <2> QED
      BY <1>1, <1>2, <2>1
  <1>5. p = q
    BY <1>1, <1>3, <1>4
  <1> QED
    BY <1>1, <1>5

LEMMA ZeroDivided ==
    ASSUME NEW b \in Nat, b > 0
    PROVE  0 \div b = 0 /\ 0 % b = 0
  <1>1. 0 \in Nat /\ 0 \in 0..(b - 1) /\ 0 = b * 0 + 0
    OBVIOUS
  <1> PICK z : z = 0
    OBVIOUS
  <1>2. z \in Nat /\ z \in 0..(b - 1) /\ z = b * z + z
    BY <1>1
  <1>3. z \div b = z /\ z % b = z
    BY <1>2, DivisionUnique
  <1> QED
    BY <1>3

LEMMA DivideTwice ==
    ASSUME NEW n \in Nat, NEW w \in Nat, NEW s \in Nat, w > 0, s > 0
    PROVE  n \div (w * s) = (n \div w) \div s /\ w * s \in Nat /\ w * s > 0
  <1>1. w * s \in Nat /\ w * s > 0
    OBVIOUS
  <1> PICK q, r : q = n \div w /\ r = n % w
    OBVIOUS
  <1> PICK p, t : p = q \div s /\ t = q % s
    OBVIOUS
  <1>2. q \in Nat /\ r \in 0..(w - 1) /\ n = w * q + r
    BY DivisionIs
  <1>3. p \in Nat /\ t \in 0..(s - 1) /\ q = s * p + t
    BY <1>2, DivisionIs
  <1>4. n = (w * s) * p + (w * t + r)
    BY <1>2, <1>3
  <1>5. w * t + r \in 0..((w * s) - 1)
    <2>1. w * t \in Int /\ w * t >= 0 /\ w * t <= w * (s - 1) /\ w * (s - 1) = w * s - w
      BY <1>3
    <2> QED
      BY <1>1, <1>2, <2>1
  <1>6. n \div (w * s) = p
    BY <1>1, <1>3, <1>4, <1>5, DivisionUnique
  <1> QED
    BY <1>1, <1>6

Sized(pats) == DOMAIN pats = 1..Len(pats) /\ Len(pats) \in Nat /\ \A i \in 1..Len(pats) : Len(pats[i].alts) \in Nat

\* What the recursion of Weight comes to.
Weights(pats, w) ==
    /\ w \in [0..Len(pats) -> Nat] /\ w[Len(pats)] = 1
    /\ \A i \in 1..Len(pats) : w[i - 1] = w[i] * Len(pats[i].alts)
    /\ \A i \in 0..Len(pats) : WeightOf(pats, i) = w[i]

LEMMA WeightsAre ==
    ASSUME NEW pats, Sized(pats)
    PROVE  \E w : Weights(pats, w)
  <1> DEFINE n == Len(pats)
             size(i) == Len(pats[n - i + 1].alts)
             next == [p \in (1..n) \X Nat |-> p[2] * size(p[1])]
  <1>1. n \in Nat /\ \A i \in 1..n : Len(pats[i].alts) \in Nat
    BY DEF Sized
  <1>2. \A i \in 1..n : n - i + 1 \in 1..n /\ size(i) \in Nat
    <2>1. \A i \in 1..n : n - i + 1 \in 1..n
      BY <1>1
    <2> QED
      BY <1>1, <2>1
  <1>3. next \in [(1..n) \X Nat -> Nat]
    BY <1>2
  <1>4. \A i \in 1..n, b \in Nat : next[<<i, b>>] = b * size(i)
    OBVIOUS
  <1>5. PICK g : Runs(g, n, Nat, 1, next)
    <2> HIDE DEF n, next
    <2> QED
      BY <1>1, <1>3, LoopRuns
  <1> HIDE DEF next
  <1>6. /\ g \in [0..n -> Nat] /\ g[0] = 1
        /\ \A i \in 1..n : g[i] = g[i - 1] * size(i)
    <2>1. g \in [0..n -> Nat] /\ g[0] = 1 /\ \A i \in 1..n : g[i] = next[<<i, g[i - 1]>>]
      BY <1>5 DEF Runs
    <2>2. ASSUME NEW i \in 1..n PROVE i - 1 \in 0..n /\ g[i - 1] \in Nat
      <3>1. i - 1 \in 0..n
        BY <1>1
      <3> QED
        BY <2>1, <3>1
    <2> HIDE DEF size
    <2>3. ASSUME NEW i \in 1..n PROVE next[<<i, g[i - 1]>>] = g[i - 1] * size(i)
      <3> PICK b : b = g[i - 1]
        OBVIOUS
      <3>1. next[<<i, b>>] = b * size(i)
        BY <1>4, <2>2
      <3> QED
        BY <3>1
    <2> QED
      BY <2>1, <2>3
  <1> DEFINE Body(h) == [i \in 0..n |-> IF i = 0 THEN 1 ELSE h[i - 1] * Len(pats[n - i + 1].alts)]
             c == CHOOSE h : h = Body(h)
  <1>7. g = Body(g)
    <2>1. ASSUME NEW i \in 0..n PROVE g[i] = Body(g)[i]
      <3>1. i = 0 \/ i \in 1..n
        BY <1>1
      <3> QED
        BY <1>6, <3>1
    <2> QED
      BY <1>6, <2>1
  <1>8. c = Body(c)
    BY <1>7
  <1>9. \A i \in 0..n : WeightOf(pats, i) = c[n - i]
    BY DEF WeightOf
  <1> HIDE DEF c
  <1>10. c[0] = 1 /\ \A i \in 1..n : c[i] = c[i - 1] * size(i)
    <2>1. \A i \in 0..n : c[i] = IF i = 0 THEN 1 ELSE c[i - 1] * Len(pats[n - i + 1].alts)
      BY <1>8
    <2>2. 0 \in 0..n /\ \A i \in 1..n : i \in 0..n /\ i # 0
      BY <1>1
    <2> QED
      BY <2>1, <2>2
  <1>11. \A i \in 0..n : c[i] = g[i]
    <2> DEFINE P == {i \in 0..n : c[i] = g[i]}
    <2>1. 0 \in P
      BY <1>1, <1>6, <1>10
    <2>2. ASSUME NEW i \in 1..n, i - 1 \in P PROVE i \in P
      BY <1>6, <1>10, <2>2
    <2>3. \A i \in 0..n : i \in P
      <3> HIDE DEF P
      <3> QED
        BY <1>1, <2>1, <2>2, AfterEveryStep
    <2> QED
      BY <2>3
  <1> DEFINE w == [i \in 0..n |-> g[n - i]]
  <1>12. \A i \in 0..n : n - i \in 0..n
    BY <1>1
  <1>13. w \in [0..n -> Nat] /\ w[n] = 1
    BY <1>1, <1>6, <1>12
  <1>14. ASSUME NEW i \in 1..n PROVE w[i - 1] = w[i] * Len(pats[i].alts)
    <2>1. i - 1 \in 0..n /\ i \in 0..n /\ n - (i - 1) = n - i + 1 /\ n - i + 1 \in 1..n
          /\ (n - i + 1) - 1 = n - i /\ n - (n - i + 1) + 1 = i
      BY <1>1
    <2>2. g[n - i + 1] = g[n - i] * Len(pats[i].alts)
      BY <1>6, <2>1
    <2> QED
      BY <2>1, <2>2
  <1>15. \A i \in 0..n : WeightOf(pats, i) = w[i]
    BY <1>9, <1>11, <1>12
  <1> HIDE DEF w
  <1>16. Weights(pats, w)
    BY <1>13, <1>14, <1>15 DEF Weights
  <1> QED
    BY <1>16

LEMMA WeightsPositive ==
    ASSUME NEW pats, Sized(pats), NEW w, Weights(pats, w), w[0] > 0
    PROVE  (\A i \in 0..Len(pats) : w[i] > 0) /\ (\A i \in 1..Len(pats) : Len(pats[i].alts) > 0)
  <1> DEFINE n == Len(pats)
             P == {i \in 0..n : w[i] > 0 /\ (i # 0 => Len(pats[i].alts) > 0)}
  <1>1. n \in Nat /\ \A i \in 1..n : Len(pats[i].alts) \in Nat
    BY DEF Sized
  <1>2. /\ w \in [0..n -> Nat]
        /\ \A i \in 1..n : w[i - 1] = w[i] * Len(pats[i].alts)
    BY DEF Weights
  <1>3. 0 \in P
    BY <1>1
  <1>4. ASSUME NEW i \in 1..n, i - 1 \in P PROVE i \in P
    <2>1. \A x, y \in Nat : x * y > 0 => x > 0 /\ y > 0
      OBVIOUS
    <2>2. w[i] \in Nat /\ Len(pats[i].alts) \in Nat /\ w[i] * Len(pats[i].alts) > 0
      BY <1>1, <1>2, <1>4
    <2> QED
      BY <2>1, <2>2
  <1>5. \A i \in 0..n : i \in P
    <2> HIDE DEF P
    <2> QED
      BY <1>1, <1>3, <1>4, AfterEveryStep
  <1> QED
    BY <1>1, <1>5

\* One pattern more multiplies all weights by its alternatives.
LEMMA WeightsGrow ==
    ASSUME NEW pats, Sized(pats), NEW more, Sized(more), Len(more) = Len(pats) + 1,
           \A i \in 1..Len(pats) : more[i] = pats[i]
    PROVE  WeightOf(more, 0) = WeightOf(pats, 0) * Len(more[Len(more)].alts)
  <1> DEFINE n == Len(pats)
             s == Len(more[n + 1].alts)
  <1>1. n \in Nat /\ s \in Nat /\ \A i \in 1..n : Len(pats[i].alts) \in Nat
    BY DEF Sized
  <1>2. PICK w : Weights(pats, w)
    BY WeightsAre
  <1>3. PICK v : Weights(more, v)
    BY WeightsAre
  <1>4. /\ w \in [0..n -> Nat] /\ w[n] = 1
        /\ \A i \in 1..n : w[i - 1] = w[i] * Len(pats[i].alts)
        /\ WeightOf(pats, 0) = w[0]
    BY <1>1, <1>2 DEF Weights
  <1>5. /\ v \in [0..(n + 1) -> Nat] /\ v[n + 1] = 1
        /\ \A i \in 1..(n + 1) : v[i - 1] = v[i] * Len(more[i].alts)
        /\ WeightOf(more, 0) = v[0]
    BY <1>1, <1>3 DEF Weights
  <1> DEFINE P == {i \in 0..n : v[n - i] = w[n - i] * s}
  <1>6. 0 \in P
    <2>1. n + 1 \in 1..(n + 1) /\ (n + 1) - 1 = n
      BY <1>1
    <2>2. v[n] = v[n + 1] * s
      BY <1>5, <2>1
    <2> QED
      BY <1>1, <1>4, <1>5, <2>2
  <1>7. ASSUME NEW i \in 1..n, i - 1 \in P PROVE i \in P
    <2>1. n - i + 1 \in 1..n /\ n - i + 1 \in 1..(n + 1) /\ (n - i + 1) - 1 = n - i /\ n - (i - 1) = n - i + 1
          /\ n - i \in 0..n
      BY <1>1
    <2> PICK x, y, z : x = v[n - i + 1] /\ y = w[n - i + 1] /\ z = Len(pats[n - i + 1].alts)
      OBVIOUS
    <2>2. x = y * s /\ y \in Nat /\ z \in Nat
      BY <1>1, <1>4, <1>7, <2>1
    <2>3. v[n - i] = x * z /\ w[n - i] = y * z
      BY <1>4, <1>5, <2>1
    <2>4. (y * s) * z = (y * z) * s
      BY <1>1, <2>2
    <2> QED
      BY <2>2, <2>3, <2>4
  <1>8. n \in P
    <2> HIDE DEF P
    <2>1. \A i \in 0..n : i \in P
      BY <1>1, <1>6, <1>7, AfterEveryStep
    <2> QED
      BY <1>1, <2>1
  <1> QED
    BY <1>1, <1>4, <1>5, <1>8

-----------------------------------------------------------------------------
(***************************************************************************)
(* URL expansion: which segment the k-th pattern is                        *)
(***************************************************************************)
LEMMA PatternsCounted ==
    ASSUME NEW L, NEW n \in Nat
    PROVE  /\ PatternsIn(L, 0) = 0
           /\ \A i \in 0..n : PatternsIn(L, i) \in Nat
           /\ \A i \in 1..n : PatternsIn(L, i) = IF L[i].pattern THEN PatternsIn(L, i - 1) + 1 ELSE PatternsIn(L, i - 1)
           /\ \A i \in 0..n : \A j \in i..n : PatternsIn(L, i) <= PatternsIn(L, j)
  <1> DEFINE T(i) == {s \in 1..i : L[s].pattern}
  <1>1. \A i \in 0..n : IsFiniteSet(T(i)) /\ Cardinality(T(i)) \in Nat
    <2> SUFFICES ASSUME NEW i \in 0..n PROVE IsFiniteSet(T(i)) /\ Cardinality(T(i)) \in Nat
      OBVIOUS
    <2>1. IsFiniteSet(1..i)
      BY FS_Interval
    <2>2. T(i) \in SUBSET (1..i)
      OBVIOUS
    <2> HIDE DEF T
    <2>3. IsFiniteSet(T(i))
      BY <2>1, <2>2, FS_Subset
    <2> QED
      BY <2>3, FS_CardinalityType
  <1>2. \A i : PatternsIn(L, i) = Cardinality(T(i))
    BY DEF PatternsIn
  <1>3. T(0) = {}
    OBVIOUS
  <1>4. ASSUME NEW i \in 1..n
        PROVE  Cardinality(T(i)) = IF L[i].pattern THEN Cardinality(T(i - 1)) + 1 ELSE Cardinality(T(i - 1))
    <2>1. i - 1 \in 0..n
      OBVIOUS
    <2>2. i \notin T(i - 1) /\ IsFiniteSet(T(i - 1))
      BY <1>1, <2>1
    <2>3. CASE L[i].pattern
      <3>1. T(i) = T(i - 1) \cup {i}
        BY <2>3
      <3> HIDE DEF T
      <3>2. Cardinality(T(i - 1) \cup {i}) = Cardinality(T(i - 1)) + 1
        BY <2>2, FS_AddElement
      <3> QED
        BY <2>3, <3>1, <3>2
    <2>4. CASE ~L[i].pattern
      <3>1. T(i) = T(i - 1)
        BY <2>4
      <3> HIDE DEF T
      <3> QED
        BY <2>4, <3>1
    <2> QED
      BY <2>3, <2>4
  <1>5. ASSUME NEW i \in 0..n, NEW j \in i..n PROVE Cardinality(T(i)) <= Cardinality(T(j))
    <2>1. j \in 0..n /\ T(i) \in SUBSET T(j)
      OBVIOUS
    <2> HIDE DEF T
    <2> QED
      BY <1>1, <2>1, FS_Subset
  <1> HIDE DEF T
  <1> QED
    BY <1>1, <1>2, <1>3, <1>4, <1>5, FS_EmptySet

LEMMA PatternPlaces ==
    ASSUME NEW S, NEW L \in Seq(S)
    PROVE  /\ Len(PatternsOf(L)) = PatternsIn(L, Len(L)) /\ Len(PatternsOf(L)) \in Nat
           /\ DOMAIN PatternsOf(L) = 1..Len(PatternsOf(L))
           /\ \A s \in 1..Len(L) : L[s].pattern =>
                PatternsIn(L, s) \in 1..Len(PatternsOf(L)) /\ PatternsOf(L)[PatternsIn(L, s)] = L[s]
           /\ \A i \in 1..Len(PatternsOf(L)) : \E s \in 1..Len(L) : L[s].pattern /\ PatternsIn(L, s) = i
  <1> PICK n : n = Len(L)
    OBVIOUS
  <1> DEFINE N == PatternsIn(L, n)
             at_(i) == CHOOSE s \in 1..n : L[s].pattern /\ PatternsIn(L, s) = i
  <1>1. n \in Nat /\ DOMAIN L = 1..n
    OBVIOUS
  <1>2. /\ PatternsIn(L, 0) = 0
        /\ \A i \in 0..n : PatternsIn(L, i) \in Nat
        /\ \A i \in 1..n : PatternsIn(L, i) = IF L[i].pattern THEN PatternsIn(L, i - 1) + 1 ELSE PatternsIn(L, i - 1)
        /\ \A i \in 0..n : \A j \in i..n : PatternsIn(L, i) <= PatternsIn(L, j)
    BY <1>1, PatternsCounted
  <1>3. PatternsOf(L) = [i \in 1..N |-> L[at_(i)]]
    BY <1>1 DEF PatternsOf
  <1>4. N \in Nat
    BY <1>1, <1>2
  <1>5. Len(PatternsOf(L)) = N /\ DOMAIN PatternsOf(L) = 1..N
    <2> HIDE DEF N, at_
    <2> QED
      BY <1>3, <1>4
  <1>6. ASSUME NEW s \in 1..n, NEW t \in 1..n, L[s].pattern, L[t].pattern, PatternsIn(L, s) = PatternsIn(L, t), s < t
        PROVE  FALSE
    <2>1. s \in 0..n /\ t - 1 \in s..n /\ t - 1 \in 0..n
      BY <1>1, <1>6
    <2>2. PatternsIn(L, s) <= PatternsIn(L, t - 1) /\ PatternsIn(L, t) = PatternsIn(L, t - 1) + 1
      BY <1>2, <1>6, <2>1
    <2> QED
      BY <1>2, <1>6, <2>1, <2>2
  <1>7. ASSUME NEW s \in 1..n, L[s].pattern
        PROVE  PatternsIn(L, s) \in 1..N /\ PatternsOf(L)[PatternsIn(L, s)] = L[s]
    <2>1. s \in 0..n /\ s - 1 \in 0..n /\ n \in s..n /\ n \in 0..n
      BY <1>1
    <2>2. PatternsIn(L, s) \in 1..N
      BY <1>2, <1>7, <2>1
    <2> PICK i : i = PatternsIn(L, s)
      OBVIOUS
    <2>3. at_(i) \in 1..n /\ L[at_(i)].pattern /\ PatternsIn(L, at_(i)) = i
      BY <1>7
    <2> PICK t : t = at_(i)
      OBVIOUS
    <2>4. t = s
      <3>1. t \in 1..n /\ ~(s < t) /\ ~(t < s)
        BY <1>6, <1>7, <2>3
      <3> QED
        BY <3>1
    <2>5. PatternsOf(L)[i] = L[at_(i)]
      BY <1>3, <2>2
    <2> QED
      BY <2>2, <2>4, <2>5
  <1>8. ASSUME NEW i \in 1..N PROVE \E s \in 1..n : L[s].pattern /\ PatternsIn(L, s) = i
    <2> DEFINE T == {s \in 0..n : PatternsIn(L, s) >= i}
    <2>1. T \in SUBSET Nat /\ n \in T
      BY <1>1, <1>4
    <2>2. PICK s \in T : \A t \in T : s <= t
      <3> HIDE DEF T
      <3> QED
        BY <2>1, LeastExists
    <2>3. s \in 0..n /\ PatternsIn(L, s) >= i /\ i \in Nat /\ i >= 1
      BY <1>4
    <2>4. s # 0
      BY <1>2, <2>3
    <2>5. s \in 1..n /\ s - 1 \in 0..n /\ ~(s <= s - 1)
      BY <1>1, <2>3, <2>4
    <2>6. ~(PatternsIn(L, s - 1) >= i)
      BY <2>2, <2>5
    <2>7. /\ PatternsIn(L, s - 1) \in Nat
          /\ PatternsIn(L, s) = IF L[s].pattern THEN PatternsIn(L, s - 1) + 1 ELSE PatternsIn(L, s - 1)
      BY <1>2, <2>5
    <2>8. L[s].pattern /\ PatternsIn(L, s) = i
      BY <2>3, <2>6, <2>7
    <2> QED
      BY <2>5, <2>8
  <1> HIDE DEF N
  <1>9. N = PatternsIn(L, Len(L))
    BY DEF N
  <1> QED
    BY <1>4, <1>5, <1>7, <1>8, <1>9

OneMore(P, Q, e) ==
    /\ e.pattern => Len(Q) = Len(P) + 1 /\ Q[Len(Q)] = e
    /\ ~e.pattern => Len(Q) = Len(P)
    /\ \A i \in 1..Len(P) : Q[i] = P[i]

LEMMA PatternAdded ==
    ASSUME NEW S, NEW L \in Seq(S), NEW e
    PROVE  OneMore(PatternsOf(L), PatternsOf(Append(L, e)), e)
  <1> PICK M : M = Append(L, e)
    OBVIOUS
  <1> PICK P, Q : P = PatternsOf(L) /\ Q = PatternsOf(M)
    OBVIOUS
  <1> PICK n : n = Len(L)
    OBVIOUS
  <1>1. /\ n \in Nat /\ M \in Seq(S \cup {e}) /\ Len(M) = n + 1 /\ M[n + 1] = e
        /\ \A i \in 1..n : M[i] = L[i]
    OBVIOUS
  <1>2. \A s \in 0..n : PatternsIn(M, s) = PatternsIn(L, s)
    <2> SUFFICES ASSUME NEW s \in 0..n PROVE PatternsIn(M, s) = PatternsIn(L, s)
      OBVIOUS
    <2>1. \A i \in 1..s : M[i] = L[i]
      BY <1>1
    <2>2. {i \in 1..s : M[i].pattern} = {i \in 1..s : L[i].pattern}
      BY <2>1
    <2> QED
      BY <2>2 DEF PatternsIn
  <1>3. PatternsIn(M, n + 1) = IF e.pattern THEN PatternsIn(M, n) + 1 ELSE PatternsIn(M, n)
    <2> PICK m : m = n + 1
      OBVIOUS
    <2>1. m \in Nat /\ m \in 1..m /\ m - 1 = n
      BY <1>1
    <2>2. PatternsIn(M, m) = IF M[m].pattern THEN PatternsIn(M, m - 1) + 1 ELSE PatternsIn(M, m - 1)
      BY <2>1, PatternsCounted
    <2> QED
      BY <1>1, <2>1, <2>2
  <1>4. /\ Len(P) = PatternsIn(L, n) /\ Len(P) \in Nat
        /\ \A s \in 1..n : L[s].pattern => P[PatternsIn(L, s)] = L[s]
        /\ \A i \in 1..Len(P) : \E s \in 1..n : L[s].pattern /\ PatternsIn(L, s) = i
    BY PatternPlaces
  <1>5. /\ Len(Q) = PatternsIn(M, n + 1)
        /\ \A s \in 1..(n + 1) : M[s].pattern => Q[PatternsIn(M, s)] = M[s]
    <2> PICK T : T = S \cup {e}
      OBVIOUS
    <2>1. M \in Seq(T)
      BY <1>1
    <2> PICK m : m = n + 1
      OBVIOUS
    <2>2. Len(M) = m /\ Q = PatternsOf(M)
      BY <1>1
    <2>3. /\ Len(PatternsOf(M)) = PatternsIn(M, Len(M))
          /\ \A s \in 1..Len(M) : M[s].pattern => PatternsOf(M)[PatternsIn(M, s)] = M[s]
      BY <2>1, PatternPlaces
    <2> QED
      BY <2>2, <2>3
  <1>6. Len(Q) = IF e.pattern THEN Len(P) + 1 ELSE Len(P)
    <2>1. n \in 0..n
      BY <1>1
    <2> QED
      BY <1>2, <1>3, <1>4, <1>5, <2>1
  <1>7. ASSUME NEW i \in 1..Len(P) PROVE Q[i] = P[i]
    <2>1. PICK s \in 1..n : L[s].pattern /\ PatternsIn(L, s) = i
      BY <1>4
    <2>2. s \in 1..(n + 1) /\ s \in 0..n /\ M[s] = L[s]
      BY <1>1
    <2> QED
      BY <1>2, <1>4, <1>5, <2>1, <2>2
  <1>8. e.pattern => Q[Len(Q)] = e
    <2>1. n + 1 \in 1..(n + 1)
      BY <1>1
    <2> QED
      BY <1>1, <1>5, <2>1
  <1> QED
    BY <1>6, <1>7, <1>8 DEF OneMore

-----------------------------------------------------------------------------
(***************************************************************************)
(* URL expansion: the next URL takes the next combination                  *)
(***************************************************************************)
Turned(pats, index) ==
    LET last == Max({0} \cup {p \in DOMAIN index : index[p] + 1 < Len(pats[p].alts)})
    IN  [p \in DOMAIN index |-> IF p < last THEN index[p] ELSE IF p = last THEN index[p] + 1 ELSE 0]

\* One wheel of the odometer: it moves on by one, or starts again and carries one over.
LEMMA CountsOn ==
    ASSUME NEW a \in Nat, NEW t \in Nat, t > 0
    PROVE  /\ (a % t) + 1 < t => (a + 1) % t = (a % t) + 1 /\ (a + 1) \div t = a \div t
           /\ ~((a % t) + 1 < t) => (a + 1) % t = 0 /\ (a + 1) \div t = (a \div t) + 1
  <1> PICK c, d : c = a % t /\ d = a \div t
    OBVIOUS
  <1>1. d \in Nat /\ c \in 0..(t - 1) /\ a = t * d + c
    BY DivisionIs
  <1> PICK b : b = a + 1
    OBVIOUS
  <1>2. ASSUME c + 1 < t PROVE b % t = c + 1 /\ b \div t = d
    <2> PICK e : e = c + 1
      OBVIOUS
    <2>1. b \in Nat /\ e \in 0..(t - 1) /\ b = t * d + e
      BY <1>1, <1>2
    <2> QED
      BY <1>1, <2>1, DivisionUnique
  <1>3. ASSUME ~(c + 1 < t) PROVE b % t = 0 /\ b \div t = d + 1
    <2> PICK e : e = d + 1
      OBVIOUS
    <2>1. c = t - 1 /\ t * e = t * d + t
      BY <1>1, <1>3
    <2>2. b \in Nat /\ e \in Nat /\ 0 \in 0..(t - 1) /\ b = t * e + 0
      BY <1>1, <2>1
    <2> QED
      BY <2>2, DivisionUnique
  <1> QED
    BY <1>2, <1>3

\* The odometer stands at n.
Stands(pats, w, index, n) ==
    /\ index \in [1..Len(pats) -> Nat]
    /\ \A p \in 1..Len(pats) : index[p] = (n \div w[p]) % Len(pats[p].alts)

LEMMA OdometerTurns ==
    ASSUME NEW pats, Sized(pats), NEW w, Weights(pats, w), w[0] > 0, NEW n \in Nat,
           NEW index, Stands(pats, w, index, n)
    PROVE  Stands(pats, w, Turned(pats, index), n + 1)
  <1> PICK N : N = Len(pats)
    OBVIOUS
  <1> DEFINE s(p) == Len(pats[p].alts)
             Free == {0} \cup {p \in 1..N : index[p] + 1 < s(p)}
             last == Max(Free)
             q(p) == n \div w[p]
             r(p) == (n + 1) \div w[p]
  <1>1. /\ N \in Nat /\ \A p \in 1..N : s(p) \in Nat /\ s(p) > 0
        /\ w \in [0..N -> Nat] /\ w[N] = 1
        /\ \A p \in 0..N : w[p] \in Nat /\ w[p] > 0
        /\ \A p \in 1..N : w[p - 1] = w[p] * s(p)
    BY WeightsPositive DEF Sized, Weights
  <1>2. DOMAIN index = 1..N /\ \A p \in 1..N : index[p] \in Nat
    BY DEF Stands
  <1>3. last \in Free /\ \A p \in Free : p <= last
    <2>1. Free \in SUBSET (0..N) /\ Free # {}
      BY <1>1
    <2> HIDE DEF Free
    <2> QED
      BY <1>1, <2>1, LargestExists
  <1>4. last \in 0..N
    BY <1>1, <1>3
  <1>5. Turned(pats, index) = [p \in 1..N |-> IF p < last THEN index[p] ELSE IF p = last THEN index[p] + 1 ELSE 0]
    BY <1>2 DEF Turned
  <1> HIDE DEF last
  <1>6. \A p \in 0..N : q(p) \in Nat /\ r(p) \in Nat
    <2> SUFFICES ASSUME NEW p \in 0..N PROVE q(p) \in Nat /\ r(p) \in Nat
      OBVIOUS
    <2> PICK b : b = w[p]
      OBVIOUS
    <2>1. b \in Nat /\ b > 0 /\ n + 1 \in Nat
      BY <1>1
    <2>2. n \div b \in Nat /\ (n + 1) \div b \in Nat
      BY <2>1, DivisionIs
    <2> QED
      BY <2>2
  <1>7. \A p \in 1..N : q(p - 1) = q(p) \div s(p) /\ r(p - 1) = r(p) \div s(p)
    <2> SUFFICES ASSUME NEW p \in 1..N PROVE q(p - 1) = q(p) \div s(p) /\ r(p - 1) = r(p) \div s(p)
      OBVIOUS
    <2> PICK b, t : b = w[p] /\ t = s(p)
      OBVIOUS
    <2>1. b \in Nat /\ b > 0 /\ t \in Nat /\ t > 0 /\ n + 1 \in Nat /\ w[p - 1] = b * t
      BY <1>1
    <2>2. n \div (b * t) = (n \div b) \div t /\ (n + 1) \div (b * t) = ((n + 1) \div b) \div t
      BY <2>1, DivideTwice
    <2> QED
      BY <2>1, <2>2
  <1>8. q(N) = n /\ r(N) = n + 1
    <2>1. n \div 1 = n /\ (n + 1) \div 1 = n + 1
      OBVIOUS
    <2> QED
      BY <1>1, <2>1
  <1>9. \A p \in 1..N : index[p] = q(p) % s(p)
    BY DEF Stands
  <1> HIDE DEF q, r
  <1>10. ASSUME NEW p \in 1..N, r(p) = q(p) + 1, index[p] + 1 < s(p)
         PROVE  r(p) % s(p) = index[p] + 1 /\ r(p - 1) = q(p - 1)
    <2> PICK a, t : a = q(p) /\ t = s(p)
      OBVIOUS
    <2>1. a \in Nat /\ t \in Nat /\ t > 0 /\ index[p] = a % t
      BY <1>1, <1>6, <1>9
    <2>2. (a + 1) % t = (a % t) + 1 /\ (a + 1) \div t = a \div t
      BY <1>10, <2>1, CountsOn
    <2> QED
      BY <1>7, <1>10, <2>1, <2>2
  <1>11. ASSUME NEW p \in 1..N, r(p) = q(p) + 1, ~(index[p] + 1 < s(p))
         PROVE  r(p) % s(p) = 0 /\ r(p - 1) = q(p - 1) + 1
    <2> PICK a, t : a = q(p) /\ t = s(p)
      OBVIOUS
    <2>1. a \in Nat /\ t \in Nat /\ t > 0 /\ index[p] = a % t
      BY <1>1, <1>6, <1>9
    <2>2. (a + 1) % t = 0 /\ (a + 1) \div t = (a \div t) + 1
      BY <1>11, <2>1, CountsOn
    <2> QED
      BY <1>7, <1>11, <2>1, <2>2
  <1>12. \A i \in 0..(N - last) : r(N - i) = q(N - i) + 1
    <2> DEFINE P == {i \in 0..(N - last) : r(N - i) = q(N - i) + 1}
    <2>1. 0 \in P
      BY <1>1, <1>4, <1>8
    <2>2. ASSUME NEW i \in 1..(N - last), i - 1 \in P PROVE i \in P
      <3> PICK p : p = N - (i - 1)
        OBVIOUS
      <3>1. p \in 1..N /\ p > last /\ p - 1 = N - i
        BY <1>1, <1>4
      <3>2. ~(index[p] + 1 < s(p))
        BY <1>3, <1>4, <3>1
      <3>3. r(p) = q(p) + 1
        BY <2>2
      <3> QED
        BY <1>11, <3>1, <3>2, <3>3
    <2>3. N - last \in Nat
      BY <1>1, <1>4
    <2>4. \A i \in 0..(N - last) : i \in P
      <3> HIDE DEF P
      <3> QED
        BY <2>1, <2>2, <2>3, AfterEveryStep
    <2> QED
      BY <2>4
  <1>13. ASSUME NEW p \in last..N PROVE r(p) = q(p) + 1
    <2>1. N - p \in 0..(N - last) /\ N - (N - p) = p
      BY <1>1, <1>4
    <2> QED
      BY <1>12, <2>1
  <1>14. \A i \in 0..last : i # 0 => r(last - i) = q(last - i)
    <2> DEFINE P == {i \in 0..last : i # 0 => r(last - i) = q(last - i)}
    <2>1. 0 \in P
      BY <1>4
    <2>2. ASSUME NEW i \in 1..last, i - 1 \in P PROVE i \in P
      <3> PICK p : p = last - (i - 1)
        OBVIOUS
      <3>1. p \in 1..N /\ p - 1 = last - i
        BY <1>1, <1>4
      <3>2. CASE i = 1
        <4>1. p = last /\ p \in last..N /\ p \in Free /\ p # 0
          BY <1>1, <1>3, <1>4, <3>2
        <4>2. r(p) = q(p) + 1 /\ index[p] + 1 < s(p)
          BY <1>13, <4>1
        <4> QED
          BY <1>10, <3>1, <4>2
      <3>3. CASE i # 1
        <4>1. r(p) = q(p)
          BY <1>4, <2>2, <3>3
        <4> QED
          BY <1>7, <3>1, <4>1
      <3> QED
        BY <3>2, <3>3
    <2>3. last \in Nat
      BY <1>4
    <2>4. \A i \in 0..last : i \in P
      <3> HIDE DEF P
      <3> QED
        BY <2>1, <2>2, <2>3, AfterEveryStep
    <2> QED
      BY <2>4
  <1>15. ASSUME NEW p \in 1..N
         PROVE  (IF p < last THEN index[p] ELSE IF p = last THEN index[p] + 1 ELSE 0) = r(p) % s(p)
    <2>1. CASE p < last
      <3>1. last - p \in 0..last /\ last - p # 0 /\ last - (last - p) = p
        BY <1>4, <2>1
      <3>2. r(p) = q(p)
        BY <1>14, <3>1
      <3> QED
        BY <1>9, <2>1, <3>2
    <2>2. CASE p = last
      <3>1. p \in last..N /\ p \in Free /\ p # 0
        BY <1>1, <1>3, <2>2
      <3> QED
        BY <1>10, <1>13, <2>2, <3>1
    <2>3. CASE p > last
      <3>1. p \in last..N /\ ~(index[p] + 1 < s(p))
        BY <1>3, <1>4, <2>3
      <3> QED
        BY <1>4, <1>11, <1>13, <2>3, <3>1
    <2> QED
      BY <1>4, <2>1, <2>2, <2>3
  <1>16. \A p \in 1..N : Turned(pats, index)[p] = r(p) % s(p)
    BY <1>5, <1>15
  <1>17. Turned(pats, index) \in [1..N -> Nat]
    <2>1. \A p \in 1..N : (IF p < last THEN index[p] ELSE IF p = last THEN index[p] + 1 ELSE 0) \in Nat
      BY <1>2
    <2> QED
      BY <1>5, <2>1
  <1> QED
    BY <1>16, <1>17 DEF r, Stands

-----------------------------------------------------------------------------
(***************************************************************************)
(* URL expansion: the patterns of a URL                                    *)
(***************************************************************************)
LEMMA FindIs ==
    ASSUME NEW S, NEW c \in Seq(S), NEW t
    PROVE  /\ Find(c, t) \in 0..Len(c)
           /\ Before(c, t) \in Seq(S) /\ After(c, t) \in Seq(S)
  <1> DEFINE I == {i \in 1..Len(c) : c[i] = t}
  <1>1. Find(c, t) = IF I # {} THEN Min(I) ELSE 0
    BY DEF Find, SelectInSeq
  <1>2. Len(c) \in Nat /\ I \in SUBSET Nat /\ \A i \in I : i \in 1..Len(c)
    OBVIOUS
  <1>3. Find(c, t) \in 0..Len(c)
    <2> HIDE DEF I
    <2>1. I # {} => Min(I) \in I
      BY <1>2, LeastExists
    <2>2. I # {} => Min(I) \in 1..Len(c)
      BY <1>2, <2>1
    <2>3. 0 \in 0..Len(c) /\ \A i \in 1..Len(c) : i \in 0..Len(c)
      BY <1>2
    <2> QED
      BY <1>1, <2>2, <2>3
  <1> PICK j : j = Find(c, t)
    OBVIOUS
  <1>4. ASSUME j # 0 PROVE SubSeq(c, 1, j - 1) \in Seq(S) /\ SubSeq(c, j + 1, Len(c)) \in Seq(S)
    <2>1. j \in 1..Len(c) /\ Len(c) \in Nat
      BY <1>2, <1>3, <1>4
    <2> QED
      BY <2>1
  <1>5. <<>> \in Seq(S)
    OBVIOUS
  <1> QED
    BY <1>3, <1>4, <1>5 DEF Before, After

LEMMA ListSized ==
    ASSUME NEW S, NEW c \in Seq(S), BuildList(c).r = "pattern"
    PROVE  Len(BuildList(c).alts) \in Nat
  <1> DEFINE cuts == {0, Len(c) + 1} \cup {i \in DOMAIN c : c[i] = Sym(",")}
             cut(i) == CHOOSE j \in cuts : Cardinality({m \in cuts : m < j}) = i
             n == Cardinality(cuts) - 1
             alts == [i \in 1..n |-> SubSeq(c, cut(i - 1) + 1, cut(i) - 1)]
  <1>1. n \in Nat
    <2>1. cuts \in SUBSET (0..(Len(c) + 1)) /\ Len(c) \in Nat /\ cuts # {}
      <3>1. Len(c) \in Nat /\ DOMAIN c = 1..Len(c)
        OBVIOUS
      <3> PICK m : m = Len(c)
        OBVIOUS
      <3>2. \A i \in cuts : i = 0 \/ i = m + 1 \/ i \in 1..m
        BY <3>1
      <3>4. \A i \in cuts : i \in 0..(m + 1)
        <4> HIDE DEF cuts
        <4> QED
          BY <3>1, <3>2
      <3>3. 0 \in cuts
        OBVIOUS
      <3> HIDE DEF cuts
      <3> QED
        BY <3>1, <3>3, <3>4
    <2> PICK m : m = Len(c) + 1
      OBVIOUS
    <2>2. IsFiniteSet(0..m) /\ cuts \in SUBSET (0..m)
      <3>1. 0 \in Int /\ m \in Int
        <4>1. Len(c) \in Nat
          OBVIOUS
        <4> QED
          BY <4>1
      <3>2. IsFiniteSet(0..m)
        BY <3>1, FS_Interval
      <3> QED
        BY <2>1, <3>2
    <2> HIDE DEF cuts
    <2>3. IsFiniteSet(cuts)
      BY <2>1, <2>2, FS_Subset
    <2>4. Cardinality(cuts) \in Nat /\ Cardinality(cuts) # 0
      BY <2>1, <2>3, FS_CardinalityType, FS_EmptySet
    <2> QED
      BY <2>4
  <1>2. BuildList(c) = IF n > MaxUrls THEN TooMany ELSE Pattern(alts)
    BY DEF BuildList
  <1>3. TooMany.r # "pattern" /\ Pattern(alts).alts = alts
    BY DEF TooMany, Pattern
  <1>4. Len(alts) = n
    <2> HIDE DEF n, cuts
    <2> QED
      BY <1>1
  <1> HIDE DEF alts, n
  <1> QED
    BY <1>1, <1>2, <1>3, <1>4

\* The values of a range.
LEMMA SpanIs ==
    ASSUME NEW lo \in Int, NEW hi \in Int, NEW by \in Int, by >= 1,
           NEW n, n = (IF lo <= hi THEN hi - lo ELSE lo - hi) \div by + 1
    PROVE  n \in Nat
  <1> PICK span : span = IF lo <= hi THEN hi - lo ELSE lo - hi
    OBVIOUS
  <1>1. span \in Nat /\ by \in Nat /\ by > 0
    OBVIOUS
  <1>2. span \div by \in Nat
    BY <1>1, DivisionIs
  <1> QED
    BY <1>2

LEMMA RangeSized ==
    ASSUME NEW c \in Seq(Tokens), NEW open, BuildRange(open, c).r = "pattern"
    PROVE  Len(BuildRange(open, c).alts) \in Nat
  <1> DEFINE sep == IF open = "{" THEN DotDot ELSE Sym("-")
             stepsep == IF open = "{" THEN DotDot ELSE Sym(":")
             start == Before(c, sep)
             rest == After(c, sep)
             end == Before(rest, stepsep)
             stepping == Find(rest, stepsep) # 0
             steptext == After(rest, stepsep)
             numeric == IsNumber(start) /\ IsNumber(end)
             alpha == IsLetter(start) /\ IsLetter(end)
             lo == start[1].val
             hi == end[1].val
             span == IF lo <= hi THEN hi - lo ELSE lo - hi
             by == IF stepping THEN steptext[1].val ELSE 1
             n == span \div by + 1
             width == IF LeadingZero(start) \/ LeadingZero(end) THEN Larger(start[1].len, end[1].len) ELSE 0
             value(i) == IF lo <= hi THEN lo + i * by ELSE lo - i * by
             text(v) == IF numeric THEN Num(v, Larger(width, DigitsOf(v))) ELSE Letter(v)
             literal == \/ Find(c, sep) = 0
                        \/ stepping /\ ~(IsNumber(steptext) /\ steptext[1].val >= 1)
                        \/ ~numeric /\ ~alpha
                        \/ open = "[" /\ lo > hi
             alts == [i \in 1..n |-> <<text(value(i - 1))>>]
  <1>1. BuildRange(open, c) = IF literal THEN NoPattern ELSE IF n > MaxUrls THEN TooMany ELSE Pattern(alts)
    BY DEF BuildRange
  <1>2. /\ start \in Seq(Tokens) /\ rest \in Seq(Tokens)
    <2> HIDE DEF sep
    <2> QED
      BY FindIs
  <1>3. end \in Seq(Tokens) /\ steptext \in Seq(Tokens)
    <2> HIDE DEF stepsep, rest
    <2> QED
      BY <1>2, FindIs
  <1>4. ASSUME NEW x \in Seq(Tokens), Len(x) = 1 PROVE x[1].val \in Int
    <2>1. 1 \in 1..Len(x)
      BY <1>4
    <2>2. x[1] \in Tokens
      BY <2>1
    <2> QED
      BY <2>2 DEF Tokens
  <1> HIDE DEF start, rest, end, steptext
  <1>5. ~literal => n \in Nat
    <2> SUFFICES ASSUME ~literal PROVE n \in Nat
      OBVIOUS
    <2>1. Len(start) = 1 /\ Len(end) = 1 /\ (stepping => Len(steptext) = 1 /\ steptext[1].val >= 1)
      BY DEF IsNumber, IsLetter
    <2>2. lo \in Int /\ hi \in Int /\ (stepping => steptext[1].val \in Int)
      BY <1>2, <1>3, <1>4, <2>1
    <2> HIDE DEF literal
    <2> PICK x, y, st : x = lo /\ y = hi /\ st = steptext[1].val
      OBVIOUS
    <2>3. x \in Int /\ y \in Int /\ (stepping => st \in Int /\ st >= 1)
      BY <2>1, <2>2
    <2>4. n = (IF x <= y THEN y - x ELSE x - y) \div (IF stepping THEN st ELSE 1) + 1
      OBVIOUS
    <2> HIDE DEF n
    <2>5. CASE stepping
      <3>1. n = (IF x <= y THEN y - x ELSE x - y) \div st + 1
        BY <2>4, <2>5
      <3> HIDE DEF stepping
      <3> QED
        BY <2>3, <2>5, <3>1, SpanIs
    <2>6. CASE ~stepping
      <3>1. n = (IF x <= y THEN y - x ELSE x - y) \div 1 + 1
        BY <2>4, <2>6
      <3> HIDE DEF stepping
      <3>2. 1 \in Int /\ 1 >= 1
        OBVIOUS
      <3> QED
        BY <2>3, <3>1, <3>2, SpanIs
    <2> QED
      BY <2>5, <2>6
  <1>6. NoPattern.r # "pattern" /\ TooMany.r # "pattern" /\ Pattern(alts).alts = alts
    BY DEF NoPattern, TooMany, Pattern
  <1> HIDE DEF literal
  <1>7. n \in Nat => Len(alts) = n
    <2> HIDE DEF n, text, value
    <2> QED
      OBVIOUS
  <1> HIDE DEF alts, n
  <1> QED
    BY <1>1, <1>5, <1>6, <1>7

LEMMA GroupSized ==
    ASSUME src \in Seq(Tokens), pos \in Nat \ {0}, pos <= Len(src), GroupAt(pos).r = "pattern"
    PROVE  Len(GroupAt(pos).alts) \in Nat /\ FindFrom(src, pos + 1, Closing(src[pos].kind)) + 1 \in Nat \ {0}
  <1> PICK t, o : t = Closing(o) /\ o = src[pos].kind
    OBVIOUS
  <1> DEFINE I == {i \in (pos + 1)..Len(src) : src[i] = t}
             j == FindFrom(src, pos + 1, t)
             c == SubSeq(src, pos + 1, j - 1)
  <1>1. j = IF I # {} THEN Min(I) ELSE 0
    BY DEF FindFrom, SelectInSubSeq
  <1>2. j = 0 \/ j \in (pos + 1)..Len(src)
    <2>1. I \in SUBSET Nat /\ I \in SUBSET ((pos + 1)..Len(src))
      OBVIOUS
    <2> HIDE DEF I
    <2>2. I # {} => Min(I) \in I
      BY <2>1, LeastExists
    <2> QED
      BY <1>1, <2>1, <2>2
  <1>3. GroupAt(pos) = IF j = 0 THEN NoPattern ELSE BuildPattern(o, c)
    BY DEF GroupAt
  <1> HIDE DEF j
  <1>4. j # 0 /\ GroupAt(pos) = BuildPattern(o, c)
    BY <1>3 DEF NoPattern
  <1>5. c \in Seq(Tokens)
    <2>1. j - 1 \in Int /\ pos + 1 \in Int /\ Len(src) \in Nat /\ j - 1 <= Len(src)
      BY <1>2, <1>4
    <2> QED
      BY <2>1
  <1> HIDE DEF c
  <1>6. Len(BuildPattern(o, c).alts) \in Nat
    <2>1. BuildPattern(o, c).r = "pattern"
      BY <1>4
    <2>2. NoPattern.r # "pattern"
      BY DEF NoPattern
    <2> QED
      BY <1>5, <2>1, <2>2, RangeSized, ListSized DEF BuildPattern
  <1>7. j + 1 \in Nat \ {0}
    BY <1>2
  <1> QED
    BY <1>4, <1>6, <1>7 DEF j

-----------------------------------------------------------------------------
(***************************************************************************)
(* URL expansion: what has been done of it                                 *)
(***************************************************************************)
ItemIs(item, n) ==
    /\ item.caps = [p \in 1..NCaps |-> Pats[p].alts[Choice(n, p) + 1]]
    /\ item.url = FlattenSeq([s \in DOMAIN segs |->
           IF segs[s].pattern THEN item.caps[PatternsIn(segs, s)] ELSE segs[s].alts[1]])

ItemRight(n) == ItemIs(items[n], n - 1)

Fine(L) == (\E S : L \in Seq(S)) /\ \A s \in 1..Len(L) : L[s].pattern => Len(L[s].alts) \in Nat

\* While URLs are written out, the odometer stands at the number of those there are.
GlobInv ==
    /\ src \in Seq(Tokens) /\ pos \in Nat \ {0}
    /\ Fine(segs)
    /\ \E T : items \in Seq(T)
    /\ at \in {"idle", "scan"} => items = <<>>
    /\ at \in {"scan", "generate", "expanded"} => product = Weight(0)
    /\ at = "expanded" => Len(items) = product
    /\ at = "generate" => /\ idx \in [1..NCaps -> Nat]
                          /\ Len(items) < product => \A p \in 1..NCaps : idx[p] = Choice(Len(items), p)
    /\ at \in {"generate", "expanded"} => \A n \in 1..Len(items) : ItemRight(n)

LEMMA GlobStarts == GlobInit => GlobInv
  <1> SUFFICES ASSUME GlobInit PROVE GlobInv
    OBVIOUS
  <1>1. src = <<>> /\ at = "idle" /\ pos = 1 /\ segs = <<>> /\ items = <<>>
    BY DEF GlobInit
  <1>2. src \in Seq(Tokens) /\ pos \in Nat \ {0} /\ items \in Seq({}) /\ segs \in Seq({}) /\ Len(segs) = 0
    BY <1>1
  <1>3. Fine(segs)
    BY <1>2 DEF Fine
  <1> QED
    BY <1>1, <1>2, <1>3 DEF GlobInv

LEMMA GlobStartInv ==
    ASSUME NEW url \in Seq(Tokens), GlobStart(url)
    PROVE  GlobInv'
  <1>1. src' = url /\ at' = "scan" /\ pos' = 1 /\ segs' = <<>> /\ items' = <<>> /\ product' = 1
    BY DEF GlobStart
  <1>2. src' \in Seq(Tokens) /\ pos' \in Nat \ {0} /\ items' \in Seq({}) /\ segs' \in Seq({}) /\ Len(segs') = 0
    BY <1>1
  <1>3. Fine(segs')
    BY <1>2 DEF Fine
  <1>4. WeightOf(PatternsOf(segs'), 0) = 1
    <2> PICK L : L = segs'
      OBVIOUS
    <2>1. L \in Seq({}) /\ Len(L) = 0
      BY <1>2
    <2>2. Sized(PatternsOf(L)) /\ Len(PatternsOf(L)) = 0
      <3>1. /\ Len(PatternsOf(L)) = PatternsIn(L, 0)
            /\ DOMAIN PatternsOf(L) = 1..Len(PatternsOf(L))
        BY <2>1, PatternPlaces
      <3>2. PatternsIn(L, 0) = 0
        BY PatternsCounted
      <3> QED
        BY <3>1, <3>2 DEF Sized
    <2>3. PICK w : Weights(PatternsOf(L), w)
      BY <2>2, WeightsAre
    <2> QED
      BY <2>2, <2>3 DEF Weights
  <1> QED
    BY <1>1, <1>2, <1>3, <1>4 DEF GlobInv, Weight, Pats

LEMMA FineSized ==
    ASSUME NEW L, Fine(L)
    PROVE  Sized(PatternsOf(L))
  <1>1. PICK S : L \in Seq(S)
    BY DEF Fine
  <1> PICK P : P = PatternsOf(L)
    OBVIOUS
  <1>2. /\ Len(P) \in Nat /\ DOMAIN P = 1..Len(P)
        /\ \A s \in 1..Len(L) : L[s].pattern => P[PatternsIn(L, s)] = L[s]
        /\ \A i \in 1..Len(P) : \E s \in 1..Len(L) : L[s].pattern /\ PatternsIn(L, s) = i
    BY <1>1, PatternPlaces
  <1>3. ASSUME NEW i \in 1..Len(P) PROVE Len(P[i].alts) \in Nat
    <2>1. PICK s \in 1..Len(L) : L[s].pattern /\ PatternsIn(L, s) = i
      BY <1>2
    <2>2. P[i] = L[s]
      BY <1>2, <2>1
    <2> QED
      BY <2>1, <2>2 DEF Fine
  <1> QED
    BY <1>2, <1>3 DEF Sized

LEMMA FineAdded ==
    ASSUME NEW L, Fine(L), NEW e, e.pattern => Len(e.alts) \in Nat
    PROVE  Fine(Append(L, e))
  <1>1. PICK S : L \in Seq(S)
    BY DEF Fine
  <1> PICK M : M = Append(L, e)
    OBVIOUS
  <1> PICK n : n = Len(L)
    OBVIOUS
  <1>2. n \in Nat /\ M \in Seq(S \cup {e}) /\ Len(M) = n + 1 /\ M[n + 1] = e /\ \A i \in 1..n : M[i] = L[i]
    BY <1>1
  <1>3. \A s \in 1..(n + 1) : s = n + 1 \/ s \in 1..n
    BY <1>2
  <1>4. \A s \in 1..Len(M) : M[s].pattern => Len(M[s].alts) \in Nat
    BY <1>2, <1>3 DEF Fine
  <1>5. Fine(M)
    BY <1>2, <1>4 DEF Fine
  <1> QED
    BY <1>5

LEMMA LiteralAdded ==
    ASSUME NEW L, Fine(L), NEW e, ~e.pattern
    PROVE  Fine(Append(L, e)) /\ PatternsOf(Append(L, e)) = PatternsOf(L)
  <1>1. PICK S : L \in Seq(S)
    BY DEF Fine
  <1> PICK M : M = Append(L, e)
    OBVIOUS
  <1> PICK P, Q : P = PatternsOf(L) /\ Q = PatternsOf(M)
    OBVIOUS
  <1>2. Fine(M)
    BY FineAdded
  <1>3. Len(Q) = Len(P) /\ \A i \in 1..Len(P) : Q[i] = P[i]
    <2>1. OneMore(P, Q, e)
      BY <1>1, PatternAdded
    <2> QED
      BY <2>1 DEF OneMore
  <1>4. DOMAIN P = 1..Len(P) /\ DOMAIN Q = 1..Len(Q)
    BY <1>2, FineSized DEF Sized
  <1>5. P = [i \in DOMAIN P |-> P[i]] /\ Q = [i \in DOMAIN Q |-> Q[i]]
    <2>1. \A K : PatternsOf(K) = [i \in DOMAIN PatternsOf(K) |-> PatternsOf(K)[i]]
      <3> TAKE K
      <3> DEFINE N == PatternsIn(K, Len(K))
                 f(i) == K[CHOOSE s \in DOMAIN K : K[s].pattern /\ PatternsIn(K, s) = i]
      <3>1. PatternsOf(K) = [i \in 1..N |-> f(i)]
        BY DEF PatternsOf
      <3> HIDE DEF N, f
      <3> QED
        BY <3>1
    <2> QED
      BY <2>1
  <1>6. P = Q
    BY <1>3, <1>4, <1>5
  <1> QED
    BY <1>2, <1>6

LEMMA PatternWeighs ==
    ASSUME NEW L, Fine(L), NEW e, e.pattern, Len(e.alts) \in Nat
    PROVE  WeightOf(PatternsOf(Append(L, e)), 0) = WeightOf(PatternsOf(L), 0) * Len(e.alts)
  <1>1. PICK S : L \in Seq(S)
    BY DEF Fine
  <1> PICK M : M = Append(L, e)
    OBVIOUS
  <1> PICK P, Q : P = PatternsOf(L) /\ Q = PatternsOf(M)
    OBVIOUS
  <1>2. Len(Q) = Len(P) + 1 /\ (\A i \in 1..Len(P) : Q[i] = P[i]) /\ Q[Len(Q)] = e
    <2>1. OneMore(P, Q, e)
      BY <1>1, PatternAdded
    <2> QED
      BY <2>1 DEF OneMore
  <1>3. Sized(P) /\ Sized(Q)
    BY FineSized, FineAdded
  <1> QED
    BY <1>2, <1>3, WeightsGrow

LEMMA WithLiteralKeeps ==
    ASSUME Fine(segs), NEW upto
    PROVE  Fine(WithLiteral(upto)) /\ PatternsOf(WithLiteral(upto)) = PatternsOf(segs)
  <1> PICK e : e = Literal(SubSeq(src, lit_start, upto - 1))
    OBVIOUS
  <1>1. ~e.pattern
    BY DEF Literal
  <1>2. WithLiteral(upto) = Append(segs, e) \/ WithLiteral(upto) = segs
    BY DEF WithLiteral
  <1> QED
    BY <1>1, <1>2, LiteralAdded

\* The item that Generate writes is the one with the number of those before it.
LEMMA ItemMade ==
    ASSUME GlobInv, at = "generate", Len(items) < product
    PROVE  ItemIs([url |-> NextUrl, caps |-> [p \in 1..NCaps |-> Pats[p].alts[idx[p] + 1]]], Len(items))
  <1> PICK item : item = [url |-> NextUrl, caps |-> [p \in 1..NCaps |-> Pats[p].alts[idx[p] + 1]]]
    OBVIOUS
  <1> PICK P : P = Pats
    OBVIOUS
  <1>1. NCaps = Len(P)
    BY DEF NCaps
  <1>2. \A p \in 1..NCaps : idx[p] = Choice(Len(items), p)
    BY DEF GlobInv
  <1>3. item.caps = [p \in 1..NCaps |-> P[p].alts[idx[p] + 1]]
    OBVIOUS
  <1>4. item.caps = [p \in 1..NCaps |-> P[p].alts[Choice(Len(items), p) + 1]]
    BY <1>2, <1>3
  <1>5. ASSUME NEW s \in DOMAIN segs
        PROVE  TextOf(s) = IF segs[s].pattern THEN item.caps[PatternsIn(segs, s)] ELSE segs[s].alts[1]
    <2>1. CASE segs[s].pattern
      <3>1. PICK S : segs \in Seq(S)
        BY DEF GlobInv, Fine
      <3>2. s \in 1..Len(segs)
        BY <3>1
      <3>3. PatternsIn(segs, s) \in 1..Len(P) /\ P[PatternsIn(segs, s)] = segs[s]
        BY <2>1, <3>1, <3>2, PatternPlaces DEF Pats
      <3>4. item.caps[PatternsIn(segs, s)] = segs[s].alts[idx[PatternsIn(segs, s)] + 1]
        BY <1>1, <1>3, <3>3
      <3> QED
        BY <2>1, <3>4 DEF TextOf
    <2>2. CASE ~segs[s].pattern
      BY <2>2 DEF TextOf
    <2> QED
      BY <2>1, <2>2
  <1> DEFINE f == [s \in DOMAIN segs |-> TextOf(s)]
             h == [s \in DOMAIN segs |-> IF segs[s].pattern THEN item.caps[PatternsIn(segs, s)] ELSE segs[s].alts[1]]
  <1>6. f = h
    BY <1>5
  <1>7. item.url = FlattenSeq(f)
    BY DEF NextUrl
  <1> HIDE DEF f
  <1>8. ItemIs(item, Len(items))
    BY <1>4, <1>6, <1>7 DEF ItemIs
  <1> QED
    BY <1>8

LEMMA NextIdxCounts ==
    ASSUME GlobInv, at = "generate", Len(items) < product
    PROVE  /\ NextIdx \in [1..NCaps -> Nat]
           /\ \A p \in 1..NCaps : NextIdx[p] = Choice(Len(items) + 1, p)
  <1> PICK P, n : P = Pats /\ n = Len(items)
    OBVIOUS
  <1>1. Sized(P) /\ NCaps = Len(P)
    BY FineSized DEF GlobInv, NCaps, Pats
  <1>2. n \in Nat
    BY DEF GlobInv
  <1>3. PICK w : Weights(P, w)
    BY <1>1, WeightsAre
  <1>4. /\ w \in [0..Len(P) -> Nat] /\ Len(P) \in Nat
        /\ \A p \in 0..Len(P) : Weight(p) = w[p]
    BY <1>1, <1>3 DEF Weights, Weight, Sized
  <1>5. w[0] > 0
    <2>1. 0 \in 0..Len(P)
      BY <1>4
    <2>2. product = w[0] /\ w[0] \in Nat
      BY <1>4, <2>1 DEF GlobInv
    <2> QED
      BY <1>2, <2>2
  <1>6. \A p \in 1..Len(P) : p \in 0..Len(P)
    BY <1>4
  <1>7. idx \in [1..Len(P) -> Nat] /\ \A p \in 1..Len(P) : idx[p] = (n \div w[p]) % Len(P[p].alts)
    BY <1>1, <1>4, <1>6 DEF GlobInv, Choice
  <1>8. NextIdx = Turned(P, idx)
    BY DEF NextIdx, Turned
  <1>9. /\ Turned(P, idx) \in [1..Len(P) -> Nat]
        /\ \A p \in 1..Len(P) : Turned(P, idx)[p] = ((n + 1) \div w[p]) % Len(P[p].alts)
    <2> PICK index : index = idx
      OBVIOUS
    <2>1. Stands(P, w, index, n)
      BY <1>7 DEF Stands
    <2>2. Stands(P, w, Turned(P, index), n + 1)
      BY <1>1, <1>2, <1>3, <1>5, <2>1, OdometerTurns
    <2> QED
      BY <2>2 DEF Stands
  <1>10. \A p \in 1..Len(P) : Choice(n + 1, p) = ((n + 1) \div w[p]) % Len(P[p].alts)
    BY <1>4, <1>6 DEF Choice
  <1> QED
    BY <1>1, <1>8, <1>9, <1>10


LEMMA GlobSteps == GlobInv /\ GlobNext => GlobInv'
  <1> SUFFICES ASSUME GlobInv, GlobNext PROVE GlobInv'
    OBVIOUS
  <1>1. /\ src \in Seq(Tokens) /\ pos \in Nat \ {0} /\ Fine(segs)
        /\ \E T : items \in Seq(T)
    BY DEF GlobInv
  <1>2. CASE ScanLiteral
    <2>1. /\ src' = src /\ at' = at /\ segs' = segs /\ product' = product /\ items' = items
          /\ at = "scan" /\ pos' = pos + 1
      BY <1>2 DEF ScanLiteral
    <2>2. pos' \in Nat \ {0}
      BY <1>1, <2>1
    <2>3. Weight(0)' = Weight(0)
      BY <2>1 DEF Weight, Pats
    <2> QED
      BY <2>1, <2>2, <2>3 DEF GlobInv
  <1>3. CASE ScanPattern
    <2> PICK alts : alts = GroupAt(pos).alts
      OBVIOUS
    <2> PICK e : e = [pattern |-> TRUE, alts |-> alts]
      OBVIOUS
    <2> PICK L : L = WithLiteral(pos)
      OBVIOUS
    <2>1. /\ at = "scan" /\ pos <= Len(src) /\ GroupAt(pos).r = "pattern"
          /\ product' = product * Len(alts)
          /\ segs' = Append(L, e)
          /\ pos' = FindFrom(src, pos + 1, Closing(src[pos].kind)) + 1
          /\ src' = src /\ at' = at /\ items' = items
      BY <1>3 DEF ScanPattern
    <2>2. Len(alts) \in Nat /\ pos' \in Nat \ {0}
      BY <1>1, <2>1, GroupSized
    <2>3. Fine(L) /\ PatternsOf(L) = PatternsOf(segs)
      BY <1>1, WithLiteralKeeps
    <2>4. e.pattern /\ Len(e.alts) = Len(alts)
      OBVIOUS
    <2>5. Fine(Append(L, e)) /\ WeightOf(PatternsOf(Append(L, e)), 0) = WeightOf(PatternsOf(L), 0) * Len(alts)
      BY <2>2, <2>3, <2>4, FineAdded, PatternWeighs
    <2>6. product = WeightOf(PatternsOf(segs), 0) /\ items = <<>>
      BY <2>1 DEF GlobInv, Weight, Pats
    <2>7. Fine(segs') /\ product' = WeightOf(PatternsOf(segs'), 0)
      BY <2>1, <2>3, <2>5, <2>6
    <2> QED
      BY <1>1, <2>1, <2>2, <2>6, <2>7 DEF GlobInv, Weight, Pats
  <1>4. CASE ScanError
    <2>1. /\ src' = src /\ at' = "error" /\ pos' = pos /\ segs' = segs /\ items' = items
      BY <1>4 DEF ScanError
    <2> QED
      BY <2>1 DEF GlobInv
  <1>5. CASE ScanEnd
    <2>1. /\ at = "scan" /\ at' = "generate" /\ src' = src /\ pos' = pos /\ product' = product /\ items' = items
          /\ segs' = WithLiteral(pos)
          /\ idx' = [p \in 1..NCaps |-> 0]
      BY <1>5 DEF ScanEnd
    <2>2. Fine(segs') /\ PatternsOf(segs') = PatternsOf(segs)
      BY <1>1, <2>1, WithLiteralKeeps
    <2>3. Pats' = Pats
      BY <2>2 DEF Pats
    <2>4. items = <<>> /\ product = Weight(0)
      BY <2>1 DEF GlobInv
    <2>5. NCaps' = NCaps /\ Weight(0)' = Weight(0) /\ \A n, p : Choice(n, p)' = Choice(n, p)
      BY <2>3 DEF NCaps, Weight, Choice
    <2>6. Len(items') = 0 /\ items' = <<>>
      BY <2>1, <2>4
    <2>7. ASSUME 0 < product, NEW p \in 1..NCaps PROVE Choice(0, p) = 0
      <3> PICK P : P = Pats
        OBVIOUS
      <3>1. Sized(P) /\ NCaps = Len(P)
        BY <1>1, FineSized DEF NCaps, Pats
      <3>2. PICK w : Weights(P, w)
        BY <3>1, WeightsAre
      <3>3. /\ w \in [0..Len(P) -> Nat] /\ Len(P) \in Nat
            /\ \A i \in 0..Len(P) : Weight(i) = w[i]
        BY <3>1, <3>2 DEF Weights, Weight, Sized
      <3>4. w[0] > 0
        BY <2>4, <2>7, <3>3
      <3>5. p \in 1..Len(P) /\ p \in 0..Len(P)
        BY <3>1, <3>3
      <3> PICK b, t : b = w[p] /\ t = Len(P[p].alts)
        OBVIOUS
      <3>6. b > 0 /\ t > 0 /\ b \in Nat /\ t \in Nat
        BY <3>1, <3>2, <3>3, <3>4, <3>5, WeightsPositive DEF Sized
      <3>7. 0 \div b = 0 /\ 0 % t = 0
        BY <3>6, ZeroDivided
      <3> QED
        BY <3>3, <3>5, <3>7 DEF Choice
    <2>8. idx' \in [1..NCaps -> Nat] /\ \A p \in 1..NCaps : idx'[p] = 0
      BY <2>1
    <2>9. Len(items') < product' => \A p \in 1..NCaps : idx'[p] = Choice(0, p)
      BY <2>1, <2>6, <2>7, <2>8
    <2>10. \A n \in 1..Len(items') : ItemRight(n)'
      BY <2>6
    <2> QED
      BY <1>1, <2>1, <2>2, <2>4, <2>5, <2>6, <2>8, <2>9, <2>10 DEF GlobInv
  <1>6. CASE Generate
    <2>1. /\ at = "generate" /\ Len(items) < product
          /\ src' = src /\ pos' = pos /\ segs' = segs /\ product' = product
      BY <1>6 DEF Generate
    <2>2. CASE Length(NextUrl) >= MaxLen
      <3>1. at' = "error" /\ items' = items /\ idx' = idx
        BY <1>6, <2>2 DEF Generate
      <3> QED
        BY <2>1, <3>1 DEF GlobInv
    <2>3. CASE ~(Length(NextUrl) >= MaxLen)
      <3> PICK item : item = [url |-> NextUrl, caps |-> [p \in 1..NCaps |-> Pats[p].alts[idx[p] + 1]]]
        OBVIOUS
      <3> PICK n : n = Len(items)
        OBVIOUS
      <3>1. /\ items' = Append(items, item)
            /\ idx' = NextIdx
            /\ at' = IF Len(items') = product THEN "expanded" ELSE "generate"
        BY <1>6, <2>3 DEF Generate
      <3>2. PICK T : items \in Seq(T)
        BY <1>1
      <3>3. /\ items' \in Seq(T \cup {item}) /\ Len(items') = n + 1 /\ n \in Nat /\ items'[n + 1] = item
            /\ \A i \in 1..n : items'[i] = items[i]
        BY <3>1, <3>2
      <3>4. Pats' = Pats /\ Fine(segs)'
        BY <1>1, <2>1 DEF Pats, Fine
      <3>5. NCaps' = NCaps /\ Weight(0)' = Weight(0) /\ \A i, p : Choice(i, p)' = Choice(i, p)
        BY <3>4 DEF NCaps, Weight, Choice
      <3>6. product = Weight(0) /\ \A i \in 1..n : ItemRight(i)
        BY <2>1 DEF GlobInv
      <3>7. ASSUME NEW i \in 1..(n + 1) PROVE ItemRight(i)'
        <4>1. CASE i = n + 1
          <5>1. ItemIs(item, n)
            BY <2>1, ItemMade
          <5>2. i - 1 = n /\ items'[i] = item
            BY <3>3, <4>1
          <5> QED
            BY <2>1, <3>4, <3>5, <5>1, <5>2 DEF ItemRight, ItemIs
        <4>2. CASE i # n + 1
          <5>1. i \in 1..n /\ items'[i] = items[i]
            BY <3>3, <4>2
          <5>2. ItemRight(i)
            BY <3>6, <5>1
          <5> QED
            BY <2>1, <3>4, <3>5, <5>1, <5>2 DEF ItemRight, ItemIs
        <4> QED
          BY <4>1, <4>2
      <3>8. NextIdx \in [1..NCaps -> Nat] /\ \A p \in 1..NCaps : NextIdx[p] = Choice(n + 1, p)
        BY <2>1, NextIdxCounts
      <3>9. idx' \in [1..NCaps' -> Nat] /\ \A p \in 1..NCaps' : idx'[p] = Choice(Len(items), p)'
        BY <3>1, <3>3, <3>5, <3>8
      <3>10. \A i \in 1..Len(items') : ItemRight(i)'
        BY <3>3, <3>7
      <3> QED
        BY <1>1, <2>1, <3>1, <3>3, <3>4, <3>5, <3>6, <3>9, <3>10 DEF GlobInv
    <2> QED
      BY <2>2, <2>3
  <1> QED
    BY <1>2, <1>3, <1>4, <1>5, <1>6 DEF GlobNext

LEMMA GlobStands == GlobInv /\ UNCHANGED globvars => GlobInv'
  <1> SUFFICES ASSUME GlobInv, UNCHANGED globvars PROVE GlobInv'
    OBVIOUS
  <1>1. /\ src' = src /\ at' = at /\ pos' = pos /\ segs' = segs /\ product' = product /\ idx' = idx /\ items' = items
    BY DEF globvars
  <1>2. Pats' = Pats
    BY <1>1 DEF Pats
  <1>3. NCaps' = NCaps /\ Weight(0)' = Weight(0) /\ \A i, p : Choice(i, p)' = Choice(i, p)
    BY <1>2 DEF NCaps, Weight, Choice
  <1>4. \A n : ItemRight(n)' = ItemRight(n)
    BY <1>1, <1>2, <1>3 DEF ItemRight, ItemIs
  <1> QED
    BY <1>1, <1>3, <1>4 DEF GlobInv

LEMMA GlobExact == GlobInv => ExpansionExact
  <1> SUFFICES ASSUME GlobInv, at \in {"generate", "expanded"}
               PROVE  /\ product = Weight(0)
                      /\ at = "expanded" => Len(items) = product
                      /\ \A n \in DOMAIN items : ItemRight(n)
    BY DEF ExpansionExact, ItemRight, ItemIs
  <1>1. DOMAIN items = 1..Len(items)
    BY DEF GlobInv
  <1> QED
    BY <1>1 DEF GlobInv

LEMMA GlobMain ==
    ASSUME GlobInv, PlaceInv, MainStep
    PROVE  GlobInv'
  <1>1. CASE Expands
    BY <1>1, GlobSteps DEF Expands
  <1>2. CASE DoExpand
    <2>1. cmd.url \in Seq(Tokens)
      BY CommandAssumption DEF PlaceInv
    <2>2. GlobStart(cmd.url) \/ UNCHANGED globvars
      BY <1>2 DEF DoExpand, IdleGlob
    <2> QED
      BY <2>1, <2>2, GlobStartInv, GlobStands
  <1>3. CASE ~Expands /\ ~DoExpand
    <2>1. IdleGlob
      BY <1>3 DEF MainStep, DoSearch, Searches, SearchOver, DoOne, OneOver, ResolveFails, ExpandOver, BatchNext,
         ItemOver, BatchOver, DoSeries, NoSelection, SkipEpisode, DownloadEpisode, SeriesOver, Signal, Die, Again
    <2> QED
      BY <2>1, GlobStands DEF IdleGlob
  <1> QED
    BY <1>1, <1>2, <1>3

(* The URLs written out are those of the combinations, in order and each of   *)
(* them once, and their captures are the texts of the combination, for every  *)
(* URL and whatever the limits on their number and length are; a URL that is  *)
(* expanded again by a later run comes to the same.                           *)
THEOREM ExpansionAlwaysExact == CLSpec => []ExpansionExact
  <1>1. CLInit => DirInv /\ GlobInv
    BY DirInit, GlobStarts DEF CLInit
  <1>2. DirInv /\ GlobInv /\ [CLNext]_clvars => DirInv' /\ GlobInv'
    <2> SUFFICES ASSUME DirInv, GlobInv, [CLNext]_clvars PROVE GlobInv'
      BY DirNext
    <2>1. CASE MainStep
      BY <2>1, GlobMain DEF DirInv
    <2>2. CASE Downloading
      BY <2>2, GlobStands DEF Downloading, IdleGlob
    <2>3. CASE UNCHANGED clvars
      BY <2>3, GlobStands DEF clvars
    <2> QED
      BY <2>1, <2>2, <2>3, NextIsMain
  <1> QED
    BY <1>1, <1>2, GlobExact, PTL DEF CLSpec
=============================================================================
