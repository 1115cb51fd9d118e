----------------------------- MODULE Reporting -----------------------------
(***************************************************************************)
(* Who asks test_engine_get_result, and what is made of its answers:       *)
(* run_all_tests of main.c, which polls test by test and sums up, and the  *)
(* test reporter (services/test-reporter.c), whose table and summary       *)
(* several threads may fill.                                               *)
(*                                                                         *)
(* The engine is open here: a call is answered with -1 or with any state   *)
(* of test_execution_state_e, whatever the call before it said.  What the  *)
(* engine of today answers is TestEngine's (ResultFound): -1, since nobody *)
(* writes the instances it looks in.  Nothing calls the reporter yet; its  *)
(* collectors here are any threads, at any time.                           *)
(***************************************************************************)
EXTENDS Naturals, Sequences, SequencesExt, FiniteSets

CONSTANTS
    Tests,          \* the configured tests, in order
    Runnable,       \* those that are available and implemented
    State,          \* the states that are answered
    MaxAttempts,    \* polls of wait_for_test_result, 3000 in the code
    Collector,      \* threads that call test_reporter_collect
    MaxResults,     \* TEST_REPORTER_MAX_RESULTS
    NULL

Test == ToSet(Tests)

\* What the summary has a counter for, and what main goes on waiting at.
Verdict == {"PASS", "FAIL", "TIMEOUT", "SKIP"}
Unsettled == {"QUEUED", "RUNNING"}

ASSUME ReportingAssumption ==
    /\ Tests \in Seq(Test) /\ Runnable \subseteq Test
    /\ State \subseteq Verdict \union Unsettled \union {"IDLE"}
    /\ MaxAttempts \in Nat \ {0} /\ MaxResults \in Nat
    /\ NULL \notin Collector /\ NULL \notin State

VARIABLES
    pc, index, attempts,    \* main: "start", "loop", "wait" or "done"
    passed, failed, skipped, status,
    told,       \* the final states main's polls were answered, by place
    at, copy,   \* a collector and the state it was answered
    lock,       \* reporter->lock
    results,    \* reporter->results, the first result_count of them
    summary,    \* reporter->summary
    taken       \* what test_reporter_get_summary last returned

mainVars == <<pc, index, attempts, passed, failed, skipped, status, told>>
reporterVars == <<at, copy, lock, results, summary, taken>>
vars == <<mainVars, reporterVars>>

Summary == [{"total"} \union Verdict -> Nat]
Zero == [f \in {"total"} \union Verdict |-> 0]

TypeOK ==
    /\ pc \in {"start", "loop", "wait", "done"}
    /\ index \in 0 .. Len(Tests) /\ attempts \in 0 .. MaxAttempts
    /\ {passed, failed, skipped} \subseteq Nat /\ passed + failed + skipped = index
    /\ status \in {"EXIT_SUCCESS", "EXIT_FAILURE"}
    /\ told \in [DOMAIN Tests -> SUBSET (State \ Unsettled)]
    /\ at \in [Collector -> {"idle", "fetched", "stored", "totalled"}]
    /\ copy \in [Collector -> State \union {NULL}]
    /\ lock \in Collector \union {NULL}
    /\ results \in Seq(State) /\ Len(results) <= MaxResults
    /\ {summary, taken} \subseteq Summary

Init ==
    /\ pc = "start" /\ index = 0 /\ attempts = 0
    /\ passed = 0 /\ failed = 0 /\ skipped = 0
    /\ status = "EXIT_FAILURE"
    /\ told = [k \in DOMAIN Tests |-> {}]
    /\ at = [c \in Collector |-> "idle"]
    /\ copy = [c \in Collector |-> NULL]
    /\ lock = NULL /\ results = <<>>
    /\ summary = Zero /\ taken = Zero

----------------------------------------------------------------------------
(***************************************************************************)
(* run_all_tests                                                           *)
(***************************************************************************)

Current == Tests[index + 1]

NextTest == index' = index + 1 /\ attempts' = 0 /\ pc' = "loop"

\* Every test is registered and submitted first; a call that fails ends it all.
Begin ==
    /\ pc = "start"
    /\ pc' \in {"loop", "done"}
    /\ UNCHANGED <<index, attempts, passed, failed, skipped, status, told>>

Skip ==
    /\ pc = "loop" /\ index < Len(Tests) /\ Current \notin Runnable
    /\ NextTest
    /\ skipped' = skipped + 1
    /\ UNCHANGED <<passed, failed, status, told>>

StartWaiting ==
    /\ pc = "loop" /\ index < Len(Tests) /\ Current \in Runnable
    /\ pc' = "wait"
    /\ UNCHANGED <<index, attempts, passed, failed, skipped, status, told>>

\* A poll that is answered -1, or that the test is under way, is repeated.
PollAgain ==
    /\ pc = "wait" /\ attempts < MaxAttempts
    /\ attempts' = attempts + 1
    /\ UNCHANGED <<pc, index, passed, failed, skipped, status, told>>

\* A poll that is answered anything else ends the wait.
Hear(answer) ==
    /\ pc = "wait" /\ attempts < MaxAttempts
    /\ answer \notin Unsettled
    /\ told' = [told EXCEPT ![index + 1] = @ \union {answer}]

\* After the last poll the wait fails.
HearNothing == pc = "wait" /\ attempts = MaxAttempts /\ UNCHANGED told

Tally(pass) ==
    /\ NextTest
    /\ IF pass
       THEN passed' = passed + 1 /\ UNCHANGED failed
       ELSE failed' = failed + 1 /\ UNCHANGED passed
    /\ UNCHANGED <<skipped, status>>

\* Slip: a test that did not fail has passed.
CountUnfailed ==
    \/ HearNothing /\ Tally(FALSE)
    \/ \E answer \in State : Hear(answer) /\ Tally(answer # "FAIL")

Count ==
    \/ HearNothing /\ Tally(FALSE)
    \/ \E answer \in State : Hear(answer) /\ Tally(answer = "PASS")

Finish ==
    /\ pc = "loop" /\ index = Len(Tests)
    /\ pc' = "done"
    /\ status' = IF failed = 0 THEN "EXIT_SUCCESS" ELSE "EXIT_FAILURE"
    /\ UNCHANGED <<index, attempts, passed, failed, skipped, told>>

MainStep == Begin \/ Skip \/ StartWaiting \/ PollAgain \/ Count \/ Finish

----------------------------------------------------------------------------
(***************************************************************************)
(* The reporter.                                                           *)
(***************************************************************************)

Goto(c, from, to) == at[c] = from /\ at' = [at EXCEPT ![c] = to]

\* test_reporter_collect asks the engine first, without the reporter's lock.
Fetch(c, answer) ==
    /\ Goto(c, "idle", "fetched")
    /\ copy' = [copy EXCEPT ![c] = answer]
    /\ UNCHANGED <<lock, results, summary, taken>>

\* Slip: the table is taken to have one place more.
StoreLate(c) ==
    /\ lock = NULL
    /\ Len(results) <= MaxResults
    /\ Goto(c, "fetched", "stored")
    /\ lock' = c
    /\ results' = Append(results, copy[c])
    /\ UNCHANGED <<copy, summary, taken>>

Store(c) ==
    /\ lock = NULL
    /\ Len(results) < MaxResults
    /\ Goto(c, "fetched", "stored")
    /\ lock' = c
    /\ results' = Append(results, copy[c])
    /\ UNCHANGED <<copy, summary, taken>>

RefuseFull(c) ==
    /\ lock = NULL
    /\ Len(results) >= MaxResults
    /\ Goto(c, "fetched", "idle")
    /\ copy' = [copy EXCEPT ![c] = NULL]
    /\ UNCHANGED <<lock, results, summary, taken>>

\* test_reporter_update_summary, under the lock
CountTotal(c) ==
    /\ Goto(c, "stored", "totalled")
    /\ summary' = [summary EXCEPT !["total"] = @ + 1]
    /\ UNCHANGED <<copy, lock, results, taken>>

\* Its switch; a result that is no verdict counts in the total only.
CountVerdict(c) ==
    /\ Goto(c, "totalled", "idle")
    /\ summary' = [f \in DOMAIN summary |->
                      summary[f] + IF f = copy[c] THEN 1 ELSE 0]
    /\ lock' = NULL
    /\ copy' = [copy EXCEPT ![c] = NULL]
    /\ UNCHANGED <<results, taken>>

\* Slip: a copy is thought to be safe without the lock.
GetSummaryUnlocked ==
    /\ taken' = summary
    /\ UNCHANGED <<at, copy, lock, results, summary>>

\* test_reporter_get_summary; test_reporter_print reads the same.
GetSummary ==
    /\ lock = NULL
    /\ taken' = summary
    /\ UNCHANGED <<at, copy, lock, results, summary>>

CollectorStep(c) ==
    \/ \E answer \in State : Fetch(c, answer)
    \/ Store(c) \/ RefuseFull(c) \/ CountTotal(c) \/ CountVerdict(c)

----------------------------------------------------------------------------

Next ==
    \/ MainStep /\ UNCHANGED reporterVars
    \/ /\ GetSummary \/ \E c \in Collector : CollectorStep(c)
       /\ UNCHANGED mainVars

Spec == Init /\ [][Next]_vars

----------------------------------------------------------------------------
(***************************************************************************)
(* Properties.                                                             *)
(***************************************************************************)

\* The summary of the first n results.
Counted(n) ==
    [f \in DOMAIN Zero |->
        IF f = "total" THEN n ELSE Cardinality({k \in 1 .. n : results[k] = f})]

\* However many threads collect, and whenever the summary is asked for, it is
\* the summary of the results that were stored up to one moment: it never
\* shows half of an update.
SummaryIsOfResults ==
    \E n \in 0 .. Len(results) : taken = Counted(n)

\* The places of the runnable tests that were answered PASS and nothing else,
\* and those that cannot run.
PassedIn(places) == {k \in places : Tests[k] \in Runnable /\ told[k] = {"PASS"}}

SkippedIn(places) == {k \in places : Tests[k] \notin Runnable}

\* The exit status of a run of all tests: success says that for every runnable
\* test one of the polls made in time was answered PASS and none before it
\* anything final, whatever was skipped; and the summary line counts those.
SuccessMeansAllPassed ==
    /\ status = "EXIT_SUCCESS" =>
           PassedIn(DOMAIN Tests) \union SkippedIn(DOMAIN Tests) = DOMAIN Tests
    /\ pc = "done" /\ index = Len(Tests) =>
           /\ passed = Cardinality(PassedIn(DOMAIN Tests))
           /\ skipped = Cardinality(SkippedIn(DOMAIN Tests))
=============================================================================
