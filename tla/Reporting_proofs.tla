-------------------------- MODULE Reporting_proofs --------------------------
(***************************************************************************)
(* Proofs about Reporting, for any tests, answers, collectors and limits:  *)
(* run_all_tests reports success only for runnable tests that were all     *)
(* answered PASS, and the counters of main and of the reporter are those   *)
(* of the answers and of the stored results.                               *)
(***************************************************************************)
EXTENDS Reporting, FiniteSetTheorems, TLAPS

\* A collector past its question has an answer.
CopiesAreStates == \A c \in Collector : at[c] # "idle" => copy[c] \in State

\* The places main has gone past without a failure are those of tests that
\* were answered PASS and of tests that cannot run; it has heard nothing yet of
\* the others.
HeardSoFar ==
    /\ \A k \in DOMAIN Tests : k > index => told[k] = {}
    /\ failed = 0 => \A k \in 1 .. index : Tests[k] \in Runnable => told[k] = {"PASS"}

\* main waits for one of the runnable tests, and reports success at the end and
\* without a failure only.
MainFollowsTests ==
    /\ pc = "wait" => index < Len(Tests) /\ Current \in Runnable
    /\ status = "EXIT_SUCCESS" => pc = "done" /\ index = Len(Tests) /\ failed = 0

IInv ==
    /\ TypeOK
    /\ CopiesAreStates
    /\ HeardSoFar
    /\ MainFollowsTests

\* The list of tests has a length, and its places hold tests.
LEMMA TestsAreListed ==
    /\ Len(Tests) \in Nat
    /\ DOMAIN Tests = 1 .. Len(Tests)
    /\ \A k \in 1 .. Len(Tests) : Tests[k] \in Test
BY ReportingAssumption DEF Test, ToSet

\* The initial state satisfies the inductive invariant.
LEMMA InitIInv == Init => IInv
<1> SUFFICES ASSUME Init
             PROVE  IInv
    OBVIOUS
<1>1. TypeOK
    BY ReportingAssumption, TestsAreListed DEF Init, TypeOK, Zero, Summary, Verdict
<1>2. CopiesAreStates
    BY DEF Init, CopiesAreStates
<1>3. HeardSoFar /\ MainFollowsTests
    BY DEF Init, HeardSoFar, MainFollowsTests
<1> QED BY <1>1, <1>2, <1>3 DEF IInv

\* What a counted place leaves: the wait is over in vain, or with one answer.
LEMMA CountHears ==
    ASSUME IInv, Count
    PROVE  /\ pc = "wait" /\ index + 1 \in DOMAIN Tests
           /\ index' = index + 1 /\ attempts' = 0 /\ pc' = "loop"
           /\ skipped' = skipped /\ status' = status
           /\ \/ told' = told /\ passed' = passed /\ failed' = failed + 1
              \/ \E answer \in State \ Unsettled :
                    /\ told' = [told EXCEPT ![index + 1] = {answer}]
                    /\ IF answer = "PASS"
                       THEN passed' = passed + 1 /\ failed' = failed
                       ELSE failed' = failed + 1 /\ passed' = passed
<1>1. pc = "wait"
    BY DEF Count, Hear, HearNothing
<1>2. index + 1 \in DOMAIN Tests /\ index + 1 > index
    BY <1>1, TestsAreListed DEF IInv, TypeOK, MainFollowsTests
<1>3. told[index + 1] = {}
    BY <1>2 DEF IInv, HeardSoFar
<1>4. CASE HearNothing /\ Tally(FALSE)
    BY <1>1, <1>2, <1>4 DEF HearNothing, Tally, NextTest
<1>5. CASE \E answer \in State : Hear(answer) /\ Tally(answer = "PASS")
  <2>1. PICK answer \in State : Hear(answer) /\ Tally(answer = "PASS")
      BY <1>5
  <2>2. answer \notin Unsettled /\ told' = [told EXCEPT ![index + 1] = {answer}]
      BY <1>3, <2>1 DEF Hear
  <2>3. /\ index' = index + 1 /\ attempts' = 0 /\ pc' = "loop"
        /\ skipped' = skipped /\ status' = status
        /\ IF answer = "PASS"
           THEN passed' = passed + 1 /\ failed' = failed
           ELSE failed' = failed + 1 /\ passed' = passed
      BY <2>1 DEF Tally, NextTest
  <2> QED BY <1>1, <1>2, <2>2, <2>3
<1> QED BY <1>4, <1>5 DEF Count

\* main only counts a test as passed that it was told has passed.
LEMMA MainIInv ==
    ASSUME IInv, MainStep, UNCHANGED reporterVars
    PROVE  IInv'
<1> USE DEF IInv
<1>0. /\ index \in Nat /\ Len(Tests) \in Nat /\ {passed, failed, skipped} \subseteq Nat
      /\ DOMAIN Tests = 1 .. Len(Tests)
    BY TestsAreListed DEF TypeOK
<1>1. CopiesAreStates'
    BY DEF CopiesAreStates, reporterVars
<1>2. TypeOK'
  <2>1. /\ at' \in [Collector -> {"idle", "fetched", "stored", "totalled"}]
        /\ copy' \in [Collector -> State \union {NULL}]
        /\ lock' \in Collector \union {NULL}
        /\ results' \in Seq(State) /\ Len(results') <= MaxResults
        /\ {summary', taken'} \subseteq Summary
      BY DEF TypeOK, reporterVars
  <2>2. /\ pc' \in {"start", "loop", "wait", "done"}
        /\ index' \in 0 .. Len(Tests) /\ attempts' \in 0 .. MaxAttempts
        /\ {passed', failed', skipped'} \subseteq Nat
        /\ passed' + failed' + skipped' = index'
        /\ status' \in {"EXIT_SUCCESS", "EXIT_FAILURE"}
    <3>1. CASE Skip
      <4>1. /\ pc' = "loop" /\ attempts' = 0 /\ index' = index + 1 /\ index < Len(Tests)
            /\ skipped' = skipped + 1 /\ passed' = passed /\ failed' = failed
            /\ status' = status
          BY <3>1 DEF Skip, NextTest
      <4>2. /\ index \in 0 .. Len(Tests) /\ passed + failed + skipped = index
            /\ status \in {"EXIT_SUCCESS", "EXIT_FAILURE"}
          BY DEF TypeOK
      <4> QED BY <4>1, <4>2, <1>0, ReportingAssumption
    <3>2. CASE Begin \/ StartWaiting
        BY <3>2 DEF TypeOK, Begin, StartWaiting
    <3>3. CASE PollAgain
        BY <3>3, ReportingAssumption DEF TypeOK, PollAgain
    <3>4. CASE Count
      <4>1. /\ index' = index + 1 /\ attempts' = 0 /\ pc' = "loop"
            /\ skipped' = skipped /\ status' = status
            /\ \/ passed' = passed /\ failed' = failed + 1
               \/ passed' = passed + 1 /\ failed' = failed
          BY <3>4, CountHears
      <4>2. index + 1 \in 1 .. Len(Tests)
          BY <3>4, <1>0, CountHears
      <4>3. passed + failed + skipped = index /\ status \in {"EXIT_SUCCESS", "EXIT_FAILURE"}
          BY DEF TypeOK
      <4> QED BY <4>1, <4>2, <4>3, <1>0, ReportingAssumption
    <3>5. CASE Finish
        BY <3>5 DEF TypeOK, Finish
    <3> QED BY <3>1, <3>2, <3>3, <3>4, <3>5 DEF MainStep
  <2>3. told' \in [DOMAIN Tests -> SUBSET (State \ Unsettled)]
    <3>1. CASE Count
      <4>1. \/ told' = told
            \/ \E answer \in State \ Unsettled : told' = [told EXCEPT ![index + 1] = {answer}]
          BY <3>1, CountHears
      <4> QED BY <4>1 DEF TypeOK
    <3>2. CASE ~Count
        BY <3>2 DEF MainStep, Begin, Skip, StartWaiting, PollAgain, Finish, TypeOK
    <3> QED BY <3>1, <3>2
  <2> QED BY <2>1, <2>2, <2>3 DEF TypeOK
<1>3. HeardSoFar'
  <2>1. CASE Skip
      BY <2>1, <1>0 DEF Skip, NextTest, Current, HeardSoFar
  <2>2. CASE Count
    <3>1. index' = index + 1 /\ index + 1 \in DOMAIN Tests
        BY <2>2, CountHears
    <3>2. CASE told' = told /\ failed' = failed + 1
        BY <3>1, <3>2, <1>0 DEF HeardSoFar
    <3>3. ASSUME NEW answer \in State \ Unsettled,
                 told' = [told EXCEPT ![index + 1] = {answer}],
                 answer # "PASS" => failed' = failed + 1,
                 answer = "PASS" => failed' = failed
          PROVE  HeardSoFar'
      <4>1. \A k \in DOMAIN Tests : told'[k] = IF k = index + 1 THEN {answer} ELSE told[k]
          BY <3>3 DEF TypeOK
      <4>2. \A k \in DOMAIN Tests : k > index' => told'[k] = {}
          BY <1>0, <3>1, <4>1 DEF HeardSoFar
      <4>3. ASSUME failed' = 0, NEW k \in 1 .. index', Tests[k] \in Runnable
            PROVE  told'[k] = {"PASS"}
        <5>1. answer = "PASS" /\ failed = 0
            BY <1>0, <3>3, <4>3
        <5>2. k \in DOMAIN Tests
            BY <1>0, <3>1
        <5> QED BY <1>0, <3>1, <4>1, <4>3, <5>1, <5>2 DEF HeardSoFar
      <4> QED BY <4>2, <4>3 DEF HeardSoFar
    <3> QED BY <2>2, <3>2, <3>3, CountHears
  <2>3. CASE Begin \/ StartWaiting \/ PollAgain \/ Finish
      BY <2>3 DEF Begin, StartWaiting, PollAgain, Finish, HeardSoFar
  <2> QED BY <2>1, <2>2, <2>3 DEF MainStep
<1>4. MainFollowsTests'
  <2>1. CASE Begin \/ Skip \/ StartWaiting \/ PollAgain
      BY <2>1 DEF Begin, Skip, NextTest, StartWaiting, PollAgain, MainFollowsTests, Current
  <2>2. CASE Count
      BY <2>2, CountHears DEF MainFollowsTests
  <2>3. CASE Finish
      BY <2>3 DEF Finish, MainFollowsTests
  <2> QED BY <2>1, <2>2, <2>3 DEF MainStep
<1> QED BY <1>1, <1>2, <1>3, <1>4

\* A collector stores what it was answered.
LEMMA CollectorIInv ==
    ASSUME IInv, GetSummary \/ \E c \in Collector : CollectorStep(c),
           UNCHANGED mainVars
    PROVE  IInv'
<1> USE DEF IInv
<1>1. HeardSoFar' /\ MainFollowsTests'
    BY DEF HeardSoFar, MainFollowsTests, Current, mainVars
<1>2. ASSUME /\ at' \in [Collector -> {"idle", "fetched", "stored", "totalled"}]
             /\ copy' \in [Collector -> State \union {NULL}]
             /\ lock' \in Collector \union {NULL}
             /\ results' \in Seq(State) /\ Len(results') <= MaxResults
             /\ {summary', taken'} \subseteq Summary
      PROVE  TypeOK'
    BY <1>2 DEF TypeOK, mainVars
<1>4. ASSUME NEW c \in Collector, NEW answer \in State, Fetch(c, answer)
      PROVE  IInv'
  <2>1. TypeOK'
      BY <1>2, <1>4 DEF TypeOK, Fetch, Goto
  <2>2. CopiesAreStates'
      BY <1>4 DEF TypeOK, Fetch, Goto, CopiesAreStates
  <2> QED BY <1>1, <2>1, <2>2
<1>5. ASSUME NEW c \in Collector, Store(c)
      PROVE  IInv'
  <2>1. at[c] = "fetched" /\ copy[c] \in State /\ results' = Append(results, copy[c])
      BY <1>5 DEF Store, Goto, CopiesAreStates
  <2>2. TypeOK'
      BY <1>2, <1>5, <2>1, ReportingAssumption DEF TypeOK, Store, Goto
  <2>3. CopiesAreStates'
      BY <1>5, <2>1 DEF TypeOK, Store, Goto, CopiesAreStates
  <2> QED BY <1>1, <2>2, <2>3
<1>6. ASSUME NEW c \in Collector, RefuseFull(c)
      PROVE  IInv'
  <2>1. TypeOK'
      BY <1>2, <1>6 DEF TypeOK, RefuseFull, Goto
  <2>2. CopiesAreStates'
      BY <1>6 DEF TypeOK, RefuseFull, Goto, CopiesAreStates
  <2> QED BY <1>1, <2>1, <2>2
<1>7. ASSUME NEW c \in Collector, CountTotal(c)
      PROVE  IInv'
  <2>1. summary' \in Summary
      BY <1>7 DEF CountTotal, TypeOK, Summary
  <2>2. TypeOK'
      BY <1>2, <1>7, <2>1 DEF TypeOK, CountTotal, Goto
  <2>3. CopiesAreStates'
      BY <1>7 DEF TypeOK, CountTotal, Goto, CopiesAreStates
  <2> QED BY <1>1, <2>2, <2>3
<1>8. ASSUME NEW c \in Collector, CountVerdict(c)
      PROVE  IInv'
  <2>1. summary' \in Summary
    <3>1. summary \in [{"total"} \union Verdict -> Nat]
        BY DEF TypeOK, Summary
    <3>2. summary' = [f \in DOMAIN summary |->
                         summary[f] + IF f = copy[c] THEN 1 ELSE 0]
        BY <1>8 DEF CountVerdict
    <3> QED BY <3>1, <3>2 DEF Summary
  <2>2. TypeOK'
      BY <1>2, <1>8, <2>1 DEF TypeOK, CountVerdict, Goto
  <2>3. CopiesAreStates'
      BY <1>8 DEF TypeOK, CountVerdict, Goto, CopiesAreStates
  <2> QED BY <1>1, <2>2, <2>3
<1>9. CASE GetSummary
  <2>1. TypeOK'
      BY <1>2, <1>9 DEF TypeOK, GetSummary
  <2>2. CopiesAreStates'
      BY <1>9 DEF GetSummary, CopiesAreStates
  <2> QED BY <1>1, <2>1, <2>2
<1> QED BY <1>4, <1>5, <1>6, <1>7, <1>8, <1>9 DEF CollectorStep

\* Every step keeps the inductive invariant.
LEMMA Inductive ==
    ASSUME IInv, [Next]_vars
    PROVE  IInv'
<1>1. CASE UNCHANGED vars
    BY <1>1 DEF vars, mainVars, reporterVars, IInv, TypeOK, CopiesAreStates, HeardSoFar,
                MainFollowsTests, Current
<1> QED BY <1>1, MainIInv, CollectorIInv DEF Next

\* The invariant holds in every reachable state.
LEMMA Invariant == Spec => []IInv
<1>1. IInv /\ [Next]_vars => IInv'
    BY Inductive
<1> QED BY InitIInv, <1>1, PTL DEF Spec

\* Every reachable state of main and the reporter is well-typed.
THEOREM ReportingTypeCorrect == Spec => []TypeOK
<1>1. IInv => TypeOK
    BY DEF IInv
<1> QED BY Invariant, <1>1, PTL

----------------------------------------------------------------------------
(***************************************************************************)
(* The counters: what main counts in one place after the other, and what   *)
(* the reporter counts in two steps under its lock.                        *)
(***************************************************************************)

\* main has counted the places it has gone past.
MainCounts ==
    /\ passed = Cardinality(PassedIn(1 .. index))
    /\ skipped = Cardinality(SkippedIn(1 .. index))

\* Without the lock the summary is of all results; the thread that has the
\* lock has stored one more than the summary counts, or has it in the total.
SummaryFollows ==
    /\ lock = NULL => summary = Counted(Len(results))
    /\ \A c \in Collector : at[c] \in {"stored", "totalled"} => lock = c
    /\ \A c \in Collector : lock = c =>
          /\ at[c] \in {"stored", "totalled"}
          /\ Len(results) > 0 /\ copy[c] = results[Len(results)]
          /\ summary = [f \in {"total"} \union Verdict |->
                           IF f = "total" /\ at[c] = "totalled" THEN Len(results)
                           ELSE Counted(Len(results) - 1)[f]]

CountInv == MainCounts /\ SummaryFollows /\ SummaryIsOfResults

\* A condition on the places up to n + 1 counts one more place than up to n, if
\* the last one meets it.
LEMMA CountOneMore ==
    ASSUME NEW n \in Nat, NEW A, NEW B, A \subseteq 1 .. n,
           B = A \/ B = A \union {n + 1}
    PROVE  /\ Cardinality(A) \in Nat
           /\ Cardinality(B) = IF B = A THEN Cardinality(A) ELSE Cardinality(A) + 1
<1>1. IsFiniteSet(1 .. n)
    BY FS_Interval
<1>2. IsFiniteSet(A)
    BY <1>1, FS_Subset
<1>3. n + 1 \notin A
    OBVIOUS
<1> QED BY <1>2, <1>3, FS_AddElement, FS_CardinalityType

\* Whatever leaves the reporter alone leaves its summary right.
LEMMA SummaryUnchanged ==
    ASSUME SummaryFollows, SummaryIsOfResults, UNCHANGED reporterVars
    PROVE  SummaryFollows' /\ SummaryIsOfResults'
<1>1. UNCHANGED <<at, copy, lock, results, summary, taken>>
    BY DEF reporterVars
<1>2. \A n : Counted(n)' = Counted(n)
    BY <1>1 DEF Counted
<1>3. SummaryFollows'
    BY <1>1, <1>2 DEF SummaryFollows
<1>4. SummaryIsOfResults'
    BY <1>1, <1>2 DEF SummaryIsOfResults
<1> QED BY <1>3, <1>4

\* The initial state has nothing to count.
LEMMA InitCounts == Init => CountInv
<1> SUFFICES ASSUME Init
             PROVE  CountInv
    OBVIOUS
<1>1. 1 .. 0 = {} /\ Len(results) = 0
    BY DEF Init
<1>2. PassedIn(1 .. index) = {} /\ SkippedIn(1 .. index) = {}
    BY <1>1 DEF Init, PassedIn, SkippedIn
<1>3. MainCounts
  <2>1. passed = 0 /\ skipped = 0
      BY DEF Init
  <2>2. Cardinality(PassedIn(1 .. index)) = 0 /\ Cardinality(SkippedIn(1 .. index)) = 0
      BY <1>2, FS_EmptySet
  <2> QED BY <2>1, <2>2 DEF MainCounts
<1>4. \A f : {k \in 1 .. 0 : results[k] = f} = {}
    BY <1>1
<1>5. Counted(0) = Zero
    BY <1>4, FS_EmptySet DEF Counted, Zero
<1>6. SummaryFollows
    BY <1>1, <1>5, ReportingAssumption DEF Init, SummaryFollows
<1>7. SummaryIsOfResults
    BY <1>1, <1>5 DEF Init, SummaryIsOfResults
<1> QED BY <1>3, <1>6, <1>7 DEF CountInv

\* main counts a place when it goes past it.
LEMMA MainCountsOn ==
    ASSUME IInv, CountInv, MainStep, UNCHANGED reporterVars
    PROVE  CountInv'
<1>1. SummaryFollows' /\ SummaryIsOfResults'
    BY SummaryUnchanged DEF CountInv
<1>2. /\ index \in Nat /\ {passed, failed, skipped} \subseteq Nat
      /\ index <= Len(Tests) /\ DOMAIN Tests = 1 .. Len(Tests) /\ Len(Tests) \in Nat
    BY TestsAreListed DEF IInv, TypeOK
<1>3. MainCounts
    BY DEF CountInv
<1> DEFINE P == PassedIn(1 .. index)
           K == SkippedIn(1 .. index)
<1>4. P \subseteq 1 .. index /\ K \subseteq 1 .. index
    BY DEF PassedIn, SkippedIn
<1>5. \A k : k \in 1 .. index + 1 <=> k \in 1 .. index \/ k = index + 1
    BY <1>2
<1>6. index + 1 \notin P /\ index + 1 \notin K
    BY <1>2, <1>4
<1>7. passed = Cardinality(P) /\ skipped = Cardinality(K)
    BY <1>3 DEF MainCounts
<1>8. ASSUME index' = index + 1,
             \/ Current \in Runnable /\ K' = K /\ skipped' = skipped
             \/ Current \notin Runnable /\ K' = K \union {index + 1} /\ skipped' = skipped + 1,
             \/ P' = P /\ passed' = passed
             \/ P' = P \union {index + 1} /\ passed' = passed + 1
      PROVE  MainCounts'
  <2> HIDE DEF P, K
  <2>1. /\ Cardinality(P) \in Nat
        /\ Cardinality(P') = IF P' = P THEN Cardinality(P) ELSE Cardinality(P) + 1
      BY <1>2, <1>4, <1>8, CountOneMore
  <2>2. /\ Cardinality(K) \in Nat
        /\ Cardinality(K') = IF K' = K THEN Cardinality(K) ELSE Cardinality(K) + 1
      BY <1>2, <1>4, <1>8, CountOneMore
  <2>3. passed' = Cardinality(P')
      BY <1>6, <1>7, <1>8, <2>1
  <2>4. skipped' = Cardinality(K')
      BY <1>6, <1>7, <1>8, <2>2
  <2> QED BY <2>3, <2>4 DEF MainCounts, P, K
<1>9. CASE Skip
  <2>1. /\ Current \notin Runnable /\ passed' = passed /\ skipped' = skipped + 1
        /\ index' = index + 1 /\ told' = told
      BY <1>9 DEF Skip, NextTest
  <2>2. P' = P
      BY <1>5, <2>1 DEF PassedIn, Current
  <2>3. K' = K \union {index + 1}
      BY <1>5, <2>1 DEF SkippedIn, Current
  <2> HIDE DEF P, K
  <2> QED BY <1>1, <1>8, <2>1, <2>2, <2>3 DEF CountInv
<1>10. CASE Count
  <2>1. /\ index' = index + 1 /\ index + 1 \in DOMAIN Tests /\ skipped' = skipped
        /\ Current \in Runnable
      BY <1>10, CountHears DEF IInv, MainFollowsTests
  <2>2. K' = K
      BY <1>5, <2>1 DEF SkippedIn, Current
  <2>3. CASE told' = told /\ passed' = passed
    <3>1. told[index + 1] = {}
        BY <1>2, <2>1 DEF IInv, HeardSoFar
    <3>2. P' = P
        BY <1>5, <2>1, <2>3, <3>1 DEF PassedIn
    <3> HIDE DEF P, K
    <3> QED BY <1>1, <1>8, <2>1, <2>2, <2>3, <3>2 DEF CountInv
  <2>4. ASSUME NEW answer \in State \ Unsettled,
               told' = [told EXCEPT ![index + 1] = {answer}],
               IF answer = "PASS" THEN passed' = passed + 1 ELSE passed' = passed
        PROVE  CountInv'
    <3>1. \A k \in DOMAIN Tests : told'[k] = IF k = index + 1 THEN {answer} ELSE told[k]
        BY <2>4 DEF IInv, TypeOK
    <3>2. \A k \in 1 .. index : k \in DOMAIN Tests /\ k # index + 1
        BY <1>2
    <3>3. CASE answer = "PASS"
      <4>1. P' = P \union {index + 1}
          BY <1>5, <2>1, <3>1, <3>2, <3>3 DEF PassedIn, Current
      <4> HIDE DEF P, K
      <4> QED BY <1>1, <1>8, <2>1, <2>2, <2>4, <3>3, <4>1 DEF CountInv
    <3>4. CASE answer # "PASS"
      <4>1. told'[index + 1] # {"PASS"}
          BY <2>1, <3>1, <3>4
      <4>2. P' = P
          BY <1>5, <2>1, <3>1, <3>2, <4>1 DEF PassedIn, Current
      <4> HIDE DEF P, K
      <4> QED BY <1>1, <1>8, <2>1, <2>2, <2>4, <3>4, <4>2 DEF CountInv
    <3> QED BY <3>3, <3>4
  <2> QED BY <1>10, <2>3, <2>4, CountHears
<1>11. CASE Begin \/ StartWaiting \/ PollAgain \/ Finish
  <2>1. UNCHANGED <<index, passed, skipped, told>>
      BY <1>11 DEF Begin, StartWaiting, PollAgain, Finish
  <2>2. P' = P /\ K' = K
      BY <2>1 DEF PassedIn, SkippedIn
  <2> QED BY <1>1, <1>3, <2>1, <2>2 DEF CountInv, MainCounts
<1> QED BY <1>9, <1>10, <1>11 DEF MainStep

\* A result that is appended does not change the counts before it.
LEMMA AppendKeepsCounts ==
    ASSUME results \in Seq(State), NEW r \in State, results' = Append(results, r),
           NEW n \in 0 .. Len(results)
    PROVE  Counted(n)' = Counted(n)
<1>1. \A k \in 1 .. n : results'[k] = results[k]
    OBVIOUS
<1>2. ASSUME NEW f PROVE {k \in 1 .. n : results[k] = f}'
                             = {k \in 1 .. n : results[k] = f}
    BY <1>1
<1> QED BY <1>2 DEF Counted

\* One result more counts once in the total, and in the verdict it is.
LEMMA CountedOneMore ==
    ASSUME results \in Seq(State), NEW n \in Nat, n < Len(results), NEW f \in Verdict
    PROVE  /\ Counted(n)["total"] = n /\ Counted(n + 1)["total"] = n + 1
           /\ Counted(n)[f] \in Nat
           /\ Counted(n + 1)[f] =
                  Counted(n)[f] + IF results[n + 1] = f THEN 1 ELSE 0
<1>1. DOMAIN Zero = {"total"} \union Verdict /\ f # "total"
    BY DEF Zero, Verdict
<1> DEFINE A == {k \in 1 .. n : results[k] = f}
           B == {k \in 1 .. n + 1 : results[k] = f}
<1>2. Counted(n)[f] = Cardinality(A) /\ Counted(n + 1)[f] = Cardinality(B)
    BY <1>1 DEF Counted
<1>3. \A k : k \in 1 .. n + 1 <=> k \in 1 .. n \/ k = n + 1
    OBVIOUS
<1>4. B = IF results[n + 1] = f THEN A \union {n + 1} ELSE A
    BY <1>3
<1>5. A \subseteq 1 .. n /\ n + 1 \notin A
    OBVIOUS
<1> HIDE DEF A, B
<1>6. /\ Cardinality(A) \in Nat
      /\ Cardinality(B) = IF B = A THEN Cardinality(A) ELSE Cardinality(A) + 1
    BY <1>4, <1>5, CountOneMore
<1>7. Cardinality(B) = Cardinality(A) + IF results[n + 1] = f THEN 1 ELSE 0
    BY <1>4, <1>5, <1>6
<1>8. Counted(n)["total"] = n /\ Counted(n + 1)["total"] = n + 1
    BY <1>1 DEF Counted
<1> QED BY <1>2, <1>6, <1>7, <1>8

\* Under the lock, a thread stores a result and counts it in two steps.
LEMMA CollectorCounts ==
    ASSUME IInv, CountInv, GetSummary \/ \E c \in Collector : CollectorStep(c),
           UNCHANGED mainVars
    PROVE  CountInv'
<1> DEFINE L == Len(results)
<1>1. /\ results \in Seq(State) /\ L \in Nat
      /\ at \in [Collector -> {"idle", "fetched", "stored", "totalled"}]
      /\ copy \in [Collector -> State \union {NULL}]
      /\ lock \in Collector \union {NULL} /\ NULL \notin Collector
      /\ SummaryFollows /\ SummaryIsOfResults /\ DOMAIN Zero = {"total"} \union Verdict
    BY ReportingAssumption DEF IInv, TypeOK, CountInv, Zero
<1>2. MainCounts'
  <2>1. UNCHANGED <<index, passed, skipped, told>>
      BY DEF mainVars
  <2>2. PassedIn(1 .. index)' = PassedIn(1 .. index)
      BY <2>1 DEF PassedIn
  <2>3. SkippedIn(1 .. index)' = SkippedIn(1 .. index)
      BY <2>1 DEF SkippedIn
  <2> QED BY <2>1, <2>2, <2>3 DEF CountInv, MainCounts
<1>3. ASSUME results' = results PROVE \A n : Counted(n)' = Counted(n)
    BY <1>3 DEF Counted
<1>4. ASSUME UNCHANGED <<lock, results, summary, taken>>, NEW c \in Collector,
             at[c] \in {"idle", "fetched"}, NEW l \in {"idle", "fetched"},
             at' = [at EXCEPT ![c] = l], NEW r, copy' = [copy EXCEPT ![c] = r]
      PROVE  CountInv'
  <2>1. \A d \in Collector : d # c => at'[d] = at[d] /\ copy'[d] = copy[d]
      BY <1>1, <1>4
  <2>2. at'[c] = l
      BY <1>1, <1>4
  <2>3. lock # c
      BY <1>1, <1>4 DEF SummaryFollows
  <2>4. \A n : Counted(n)' = Counted(n)
      BY <1>3, <1>4
  <2>5. SummaryIsOfResults'
      BY <1>1, <1>4, <2>4 DEF SummaryIsOfResults
  <2>6. SummaryFollows'
    <3>1. lock' = NULL => summary' = Counted(Len(results))'
        BY <1>1, <1>4, <2>4 DEF SummaryFollows
    <3>2. \A d \in Collector : at'[d] \in {"stored", "totalled"} => lock' = d
        BY <1>1, <1>4, <2>1, <2>2 DEF SummaryFollows
    <3>3. ASSUME NEW d \in Collector, lock' = d
          PROVE  /\ at'[d] \in {"stored", "totalled"}
                 /\ Len(results') > 0 /\ copy'[d] = results'[Len(results')]
                 /\ summary' = [f \in {"total"} \union Verdict |->
                                   IF f = "total" /\ at'[d] = "totalled" THEN Len(results')
                                   ELSE Counted(Len(results) - 1)'[f]]
      <4>1. d # c /\ lock = d
          BY <1>4, <2>3, <3>3
      <4>2. at'[d] = at[d] /\ copy'[d] = copy[d] /\ results' = results /\ summary' = summary
          BY <1>4, <2>1, <4>1
      <4>3. /\ at[d] \in {"stored", "totalled"}
            /\ Len(results) > 0 /\ copy[d] = results[Len(results)]
            /\ summary = [f \in {"total"} \union Verdict |->
                             IF f = "total" /\ at[d] = "totalled" THEN Len(results)
                             ELSE Counted(Len(results) - 1)[f]]
          BY <1>1, <4>1 DEF SummaryFollows
      <4>4. Counted(Len(results) - 1)' = Counted(Len(results) - 1)
          BY <2>4, <4>2
      <4> QED BY <4>2, <4>3, <4>4
    <3> QED BY <3>1, <3>2, <3>3 DEF SummaryFollows
  <2> QED BY <1>2, <2>5, <2>6 DEF CountInv
<1>5. ASSUME NEW c \in Collector, NEW answer \in State, Fetch(c, answer) PROVE CountInv'
    BY <1>4, <1>5 DEF Fetch, Goto
<1>6. ASSUME NEW c \in Collector, RefuseFull(c) PROVE CountInv'
    BY <1>4, <1>6 DEF RefuseFull, Goto
<1>7. ASSUME NEW c \in Collector, Store(c) PROVE CountInv'
  <2>1. /\ lock = NULL /\ at[c] = "fetched" /\ at' = [at EXCEPT ![c] = "stored"]
        /\ lock' = c /\ results' = Append(results, copy[c])
        /\ UNCHANGED <<copy, summary, taken>>
      BY <1>7 DEF Store, Goto
  <2>2. copy[c] \in State
      BY <2>1 DEF IInv, CopiesAreStates
  <2>3. Len(results') = L + 1 /\ results'[L + 1] = copy[c]
      BY <1>1, <2>1, <2>2
  <2>4. \A n \in 0 .. L : Counted(n)' = Counted(n)
      BY <1>1, <2>1, <2>2, AppendKeepsCounts
  <2>5. SummaryIsOfResults'
    <3>1. PICK n \in 0 .. L : taken = Counted(n)
        BY <1>1 DEF SummaryIsOfResults
    <3>2. n \in 0 .. Len(results') /\ taken' = Counted(n)'
        BY <1>1, <2>1, <2>3, <2>4, <3>1
    <3> QED BY <3>2 DEF SummaryIsOfResults
  <2>6. PICK m \in Nat : m = Len(results)
      BY <1>1
  <2>7. summary = Counted(m) /\ Counted(m)' = Counted(m)
    <3>1. summary = Counted(Len(results)) /\ m \in 0 .. Len(results)
        BY <1>1, <2>1, <2>6 DEF SummaryFollows
    <3> QED BY <2>4, <2>6, <3>1
  <2>8. \A d \in Collector : at[d] \notin {"stored", "totalled"}
      BY <1>1, <2>1 DEF SummaryFollows
  <2>9. at'[c] = "stored" /\ \A d \in Collector : d # c => at'[d] = at[d]
      BY <1>1, <2>1
  <2>10. SummaryFollows'
    <3>1. Len(results') - 1 = m
        BY <2>3, <2>6
    <3>2. Counted(Len(results) - 1)' = Counted(m)
      <4>1. \A n : n = m => Counted(n)' = Counted(m)
          BY <2>7
      <4> QED BY <3>1, <4>1
    <3>3. Counted(m) = [f \in {"total"} \union Verdict |-> Counted(m)[f]]
        BY <1>1 DEF Counted
    <3>4. lock' = c /\ lock' # NULL /\ Len(results)' > 0
        BY <1>1, <2>1, <2>3
    <3>5. \A d \in Collector : at'[d] \in {"stored", "totalled"} => lock' = d
        BY <2>1, <2>8, <2>9
    <3>6. copy'[c] = results'[Len(results')]
        BY <2>1, <2>3
    <3>7. summary' = [f \in {"total"} \union Verdict |->
                         IF f = "total" /\ at'[c] = "totalled" THEN Len(results')
                         ELSE Counted(Len(results) - 1)'[f]]
        BY <2>1, <2>7, <2>9, <3>2, <3>3
    <3> QED BY <2>9, <3>4, <3>5, <3>6, <3>7 DEF SummaryFollows
  <2> QED BY <1>2, <2>5, <2>10 DEF CountInv
<1>8. ASSUME NEW c \in Collector, CountTotal(c) PROVE CountInv'
  <2>1. /\ at[c] = "stored" /\ at' = [at EXCEPT ![c] = "totalled"]
        /\ summary' = [summary EXCEPT !["total"] = @ + 1]
        /\ UNCHANGED <<copy, lock, results, taken>>
      BY <1>8 DEF CountTotal, Goto
  <2>2. /\ lock = c /\ L > 0 /\ copy[c] = results[L]
        /\ summary = [f \in {"total"} \union Verdict |-> Counted(L - 1)[f]]
      BY <1>1, <2>1 DEF SummaryFollows
  <2>3. \A n : Counted(n)' = Counted(n)
      BY <1>3, <2>1
  <2>4. Counted(L - 1)["total"] = L - 1
      BY <1>1 DEF Counted
  <2>5. summary["total"] + 1 = L
      BY <1>1, <2>2, <2>4
  <2>6. summary' = [f \in {"total"} \union Verdict |->
                       IF f = "total" THEN L ELSE Counted(L - 1)[f]]
      BY <2>1, <2>2, <2>5
  <2>7. at'[c] = "totalled" /\ \A d \in Collector : d # c => at'[d] = at[d]
      BY <1>1, <2>1
  <2>8. SummaryFollows'
    <3>1. \A d \in Collector : at'[d] \in {"stored", "totalled"} => lock' = d
        BY <1>1, <2>1, <2>2, <2>7 DEF SummaryFollows
    <3>2. lock' = c /\ lock' # NULL
        BY <1>1, <2>1, <2>2
    <3>3. summary' = [f \in {"total"} \union Verdict |->
                         IF f = "total" /\ at'[c] = "totalled" THEN Len(results')
                         ELSE Counted(Len(results) - 1)'[f]]
        BY <2>1, <2>3, <2>6, <2>7
    <3>4. Len(results') > 0 /\ copy'[c] = results'[Len(results')]
        BY <2>1, <2>2
    <3> QED BY <2>7, <3>1, <3>2, <3>3, <3>4 DEF SummaryFollows
  <2>9. SummaryIsOfResults'
      BY <1>1, <2>1, <2>3 DEF SummaryIsOfResults
  <2> QED BY <1>2, <2>8, <2>9 DEF CountInv
<1>9. ASSUME NEW c \in Collector, CountVerdict(c) PROVE CountInv'
  <2>1. /\ at[c] = "totalled" /\ at' = [at EXCEPT ![c] = "idle"] /\ lock' = NULL
        /\ summary' = [f \in DOMAIN summary |->
                          summary[f] + IF f = copy[c] THEN 1 ELSE 0]
        /\ UNCHANGED <<results, taken>>
      BY <1>9 DEF CountVerdict, Goto
  <2>2. /\ lock = c /\ L > 0 /\ copy[c] = results[L]
        /\ summary = [f \in {"total"} \union Verdict |->
                         IF f = "total" THEN L ELSE Counted(L - 1)[f]]
      BY <1>1, <2>1 DEF SummaryFollows
  <2>3. \A n : Counted(n)' = Counted(n)
      BY <1>3, <2>1
  <2>4. copy[c] # "total"
    <3>1. results[L] \in State
        BY <1>1, <2>2
    <3> QED BY <2>2, <3>1, ReportingAssumption DEF Verdict, Unsettled
  <2>5. \A f \in Verdict :
            Counted(L)[f] = Counted(L - 1)[f] + IF copy[c] = f THEN 1 ELSE 0
    <3>1. L - 1 \in Nat /\ L - 1 < L /\ (L - 1) + 1 = L
        BY <1>1, <2>2
    <3> QED BY <1>1, <2>2, <3>1, CountedOneMore
  <2>6. Counted(L)["total"] = L
      BY <1>1 DEF Counted
  <2>7. \A f \in {"total"} \union Verdict :
            summary[f] + (IF f = copy[c] THEN 1 ELSE 0) = Counted(L)[f]
    <3>1. summary["total"] + (IF "total" = copy[c] THEN 1 ELSE 0) = Counted(L)["total"]
        BY <1>1, <2>2, <2>4, <2>6
    <3>2. ASSUME NEW f \in Verdict
          PROVE  summary[f] + (IF f = copy[c] THEN 1 ELSE 0) = Counted(L)[f]
        BY <2>2, <2>5 DEF Verdict
    <3> QED BY <3>1, <3>2
  <2>8. summary' = Counted(L)
    <3>1. summary' = [f \in {"total"} \union Verdict |-> Counted(L)[f]]
        BY <2>1, <2>2, <2>7
    <3> QED BY <1>1, <3>1 DEF Counted
  <2>9. SummaryFollows'
    <3>1. \A d \in Collector : at'[d] \notin {"stored", "totalled"}
        BY <1>1, <2>1, <2>2 DEF SummaryFollows
    <3> QED BY <1>1, <2>1, <2>3, <2>8, <3>1 DEF SummaryFollows
  <2>10. SummaryIsOfResults'
      BY <1>1, <2>1, <2>3 DEF SummaryIsOfResults
  <2> QED BY <1>2, <2>9, <2>10 DEF CountInv
<1>10. CASE GetSummary
  <2>1. lock = NULL /\ taken' = summary /\ UNCHANGED <<at, copy, lock, results, summary>>
      BY <1>10 DEF GetSummary
  <2>2. \A n : Counted(n)' = Counted(n)
      BY <1>3, <2>1
  <2>3. taken' = Counted(L)' /\ L \in 0 .. L
      BY <1>1, <2>1, <2>2 DEF SummaryFollows
  <2>4. SummaryIsOfResults'
      BY <2>1, <2>2, <2>3 DEF SummaryIsOfResults
  <2>5. SummaryFollows'
      BY <1>1, <2>1, <2>2 DEF SummaryFollows
  <2> QED BY <1>2, <2>4, <2>5 DEF CountInv
<1> QED BY <1>5, <1>6, <1>7, <1>8, <1>9, <1>10 DEF CollectorStep

\* Every step keeps the counters right.
LEMMA CountsInvariant == Spec => []CountInv
<1>1. ASSUME IInv, CountInv, UNCHANGED vars
      PROVE  CountInv'
  <2>1. UNCHANGED <<index, passed, skipped, told>> /\ UNCHANGED reporterVars
      BY <1>1 DEF vars, mainVars
  <2>2. PassedIn(1 .. index)' = PassedIn(1 .. index)
      BY <2>1 DEF PassedIn
  <2>3. SkippedIn(1 .. index)' = SkippedIn(1 .. index)
      BY <2>1 DEF SkippedIn
  <2> QED BY <1>1, <2>1, <2>2, <2>3, SummaryUnchanged DEF CountInv, MainCounts
<1>2. IInv /\ CountInv /\ [Next]_vars => CountInv'
    BY <1>1, MainCountsOn, CollectorCounts DEF Next
<1> QED BY <1>2, InitCounts, Invariant, PTL DEF Spec

\* However many threads collect, what test_reporter_get_summary returns is the
\* summary of the results stored up to one moment.
THEOREM SummariesAddUp == Spec => []SummaryIsOfResults
<1>1. CountInv => SummaryIsOfResults
    BY DEF CountInv
<1> QED BY CountsInvariant, <1>1, PTL

\* run_all_tests returns success only when every runnable test was answered PASS
\* in time, and its summary line counts those and the skipped ones.
THEOREM ExitStatusIsEarned == Spec => []SuccessMeansAllPassed
<1>1. ASSUME IInv, CountInv
      PROVE  SuccessMeansAllPassed
  <2>1. DOMAIN Tests = 1 .. Len(Tests)
      BY TestsAreListed
  <2>2. ASSUME status = "EXIT_SUCCESS", NEW k \in DOMAIN Tests
        PROVE  k \in PassedIn(DOMAIN Tests) \union SkippedIn(DOMAIN Tests)
    <3>1. failed = 0 /\ k \in 1 .. index
        BY <1>1, <2>1, <2>2 DEF IInv, MainFollowsTests
    <3> QED BY <1>1, <3>1 DEF IInv, HeardSoFar, PassedIn, SkippedIn
  <2>3. PassedIn(DOMAIN Tests) \union SkippedIn(DOMAIN Tests) \subseteq DOMAIN Tests
      BY DEF PassedIn, SkippedIn
  <2>4. pc = "done" /\ index = Len(Tests) =>
            /\ passed = Cardinality(PassedIn(DOMAIN Tests))
            /\ skipped = Cardinality(SkippedIn(DOMAIN Tests))
      BY <1>1, <2>1 DEF CountInv, MainCounts
  <2> QED BY <2>2, <2>3, <2>4 DEF SuccessMeansAllPassed
<1>2. IInv /\ CountInv => SuccessMeansAllPassed
    BY <1>1
<1> QED BY <1>2, Invariant, CountsInvariant, PTL
=============================================================================
