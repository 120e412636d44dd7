------------------------------ MODULE HostSuite ------------------------------
(***************************************************************************)
(* The host Python suite: verifier_driver.py checks the checkout and runs  *)
(* scripts/run_host_python_suite.py, which loads the manifest of test IDs, *)
(* discovers and runs the tests, keeps one outcome per ID and prints a     *)
(* receipt; driver and consumer then check the receipt.  Tracked files of  *)
(* the checkout may be edited at any moment, and an edit is not undone;    *)
(* files that Git does not track are not looked at by this code.           *)
(*                                                                         *)
(* The suite starts once the driver holds an opened input bundle.  One     *)
(* module with two classes stands for all of them; an outcome keeps of its *)
(* detail only whether a skip reason is an allowed one.                    *)
(***************************************************************************)
EXTENDS InputBundle

CONSTANTS
    Tests,      \* the test IDs of the audited manifest
    Baseline,   \* those it must never lose
    ClassOf,    \* the class of each test
    Order       \* the tests in the order of their sorted IDs

Module == "module"
Classes == {ClassOf[t] : t \in Tests}

(* An ID begins with its class, so sorted IDs keep a class together.       *)
ASSUME TestsAssumption ==
    /\ Baseline \subseteq Tests /\ {Module, None} \cap Classes = {}
    /\ Order \in Seq(Tests) /\ ToSet(Order) = Tests
    /\ \A i, j \in DOMAIN Order : Order[i] = Order[j] => i = j
    /\ \A i, j, k \in DOMAIN Order :
          i < j /\ j < k /\ ClassOf[Order[i]] = ClassOf[Order[k]]
          => ClassOf[Order[j]] = ClassOf[Order[k]]

VARIABLES
    stage,      \* where the invocation of the suite is
    tree,       \* the checkout's tests and manifest: "audited" or "edited"
    selected,   \* test IDs of the manifest that was loaded
    found,      \* test IDs that were discovered
    next,       \* the place in Order that the run has come to
    current,    \* the scope whose set-up came last and whose tear-down is due
    barred,     \* scopes whose set-up did not succeed
    outcomes,   \* RecordingResult.outcomes
    synthetic,  \* RecordingResult.synthetic_events is not empty
    failures,   \* tests a failure or error was reported for
    excused,    \* tests a skip was reported for after such a failure
    receipt     \* the printed receipt

place == <<next, current, barred>>
events == <<outcomes, synthetic, failures, excused>>
suiteVars == <<stage, tree, selected, found, place, events, receipt>>

Outcomes == {"passed", "failed", "errors", "skipped-allowed", "skipped"}
Skips == {"skipped-allowed", "skipped"}

SuiteInit ==
    /\ stage = "idle" /\ tree = "audited"
    /\ selected = {} /\ found = {} /\ next = 1 /\ current = None /\ barred = {}
    /\ outcomes = Nothing /\ synthetic = FALSE
    /\ failures = {} /\ excused = {} /\ receipt = None

(* A scope is the module or a class; its prefix covers its tests' IDs.     *)
Under(scope) == IF scope = Module THEN Tests ELSE {t \in Tests : ClassOf[t] = scope}

-----------------------------------------------------------------------------
(* The driver: the checkout, the runner and the manifest are the audited   *)
(* ones at this moment.                                                    *)
StartSuite ==
    /\ stage = "idle" /\ opened # None
    /\ tree = "audited"
    /\ stage' = "load"
    /\ UNCHANGED <<tree, selected, found, place, events, receipt>>

(* load_manifest: an edited manifest may select other tests; one that is   *)
(* malformed or lost a baseline test is refused (Abort).                   *)
ManifestLoads(ids) == Baseline \subseteq ids /\ (tree = "audited" => ids = Tests)

LoadManifest ==
    /\ stage = "load" /\ stage' = "discover"
    /\ \E ids \in SUBSET Tests : ManifestLoads(ids) /\ selected' = ids
    /\ UNCHANGED <<tree, found, place, events, receipt>>

(* discover: the IDs in the checkout, without duplicates; the tests are    *)
(* run only when they are exactly the selected ones.                       *)
Discover ==
    /\ stage = "discover"
    /\ \E ids \in SUBSET Tests : /\ tree = "audited" => ids = Tests
                                 /\ found' = ids
                                 /\ stage' = IF ids = selected THEN "run" ELSE "report"
    /\ UNCHANGED <<tree, selected, place, events, receipt>>

\* MUTANT: the first outcome of a test is kept.
RecordFirst(ts, o) == outcomes' = [t \in DOMAIN outcomes \cup ts |->
                                      IF t \in DOMAIN outcomes THEN outcomes[t] ELSE o]

(* _record: the last event for a test is its outcome.                      *)
Record(ts, o) == outcomes' = [t \in DOMAIN outcomes \cup ts |->
                                 IF t \in ts THEN o ELSE outcomes[t]]

Bars(t) == {Module, ClassOf[t]} \cap barred # {}

(* unittest runs the selected tests in order.  Before a test whose class   *)
(* is not the current one it tears that one down and sets up the test's,   *)
(* the module before the first of them; both are torn down at the end.     *)
Due(t) == stage = "run" /\ next <= Len(Order) /\ Order[next] = t /\ t \in selected
AllRun == stage = "run" /\ next > Len(Order)
SetUpDue(scope) == \E t \in Tests :
    /\ Due(t)
    /\ \/ scope = Module /\ current = None
       \/ scope = ClassOf[t] /\ current = Module
TearDownDue(scope) ==
    /\ current = scope
    /\ AllRun \/ (scope # Module /\ \E t \in Tests : Due(t) /\ ClassOf[t] # scope)
Begins(t) == Due(t) /\ current = ClassOf[t] /\ next' = next + 1

(* A fixture that fails or skips is recorded for every selected test of    *)
(* its scope, those that have already run included.                        *)
FixtureEvent(scope, o) ==
    LET ts == Under(scope) \cap selected IN
    IF o = "passed" THEN UNCHANGED events
    ELSE /\ Record(ts, o)
         /\ synthetic' = (synthetic \/ ts = {})
         /\ failures' = IF o = "errors" THEN failures \cup ts ELSE failures
         /\ excused' = IF o = "errors" THEN excused \ ts ELSE excused \cup (failures \cap ts)

SetUp(scope) == \E o \in {"passed", "errors", "skipped-allowed", "skipped"} :
    /\ SetUpDue(scope) /\ current' = scope
    /\ IF Module \in barred THEN UNCHANGED <<barred, events>>
       ELSE /\ barred' = IF o = "passed" THEN barred ELSE barred \cup {scope}
            /\ FixtureEvent(scope, o)
    /\ UNCHANGED <<stage, tree, selected, found, next, receipt>>

TearDown(scope) == \E o \in {"passed", "errors", "skipped-allowed", "skipped"} :
    /\ TearDownDue(scope) /\ current' = IF scope = Module THEN None ELSE Module
    /\ IF {Module, scope} \cap barred # {}
       THEN UNCHANGED events
       ELSE FixtureEvent(scope, o)
    /\ UNCHANGED <<stage, tree, selected, found, next, barred, receipt>>

(* A test that was not selected is none of the suite's.                    *)
PassOver ==
    /\ stage = "run" /\ next <= Len(Order) /\ Order[next] \notin selected
    /\ next' = next + 1
    /\ UNCHANGED <<stage, tree, selected, found, current, barred, events, receipt>>

(* A test of a barred scope is not started.                                *)
SkipBarred(t) ==
    /\ Begins(t) /\ Bars(t)
    /\ UNCHANGED <<stage, tree, selected, found, current, barred, events, receipt>>

(* A test ends in its last event; an expected failure and an unexpected    *)
(* success are failures.  A failure may be followed by a skip that its     *)
(* tear-down raises.                                                       *)
RunTest(t) == \E o \in Outcomes, failed \in BOOLEAN :
    /\ Begins(t) /\ ~Bars(t)
    /\ o \in {"failed", "errors"} => failed
    /\ o = "passed" => ~failed
    /\ Record({t}, o)
    /\ failures' = IF failed THEN failures \cup {t} ELSE failures
    /\ excused' = IF failed /\ o \in Skips THEN excused \cup {t} ELSE excused
    /\ UNCHANGED <<stage, tree, selected, found, current, barred, synthetic, receipt>>

(* A failing subtest leaves its test without an outcome, a skipped one is  *)
(* an event of an unknown ID and the test passes.                          *)
RunSubtests(t) ==
    /\ Begins(t) /\ ~Bars(t)
    /\ \/ /\ failures' = failures \cup {t}
          /\ UNCHANGED <<outcomes, synthetic>>
       \/ /\ Record({t}, "passed") /\ synthetic' = TRUE
          /\ UNCHANGED failures
    /\ UNCHANGED <<stage, tree, selected, found, current, barred, excused, receipt>>

EndRun ==
    /\ AllRun /\ current = None /\ stage' = "report"
    /\ UNCHANGED <<tree, selected, found, place, events, receipt>>

-----------------------------------------------------------------------------
(* execute: the verdict, from the outcomes and from the checkout as it is  *)
(* after the run.                                                          *)
Unstarted == selected \ DOMAIN outcomes
Verdict ==
    /\ selected = found /\ Unstarted = {} /\ ~synthetic
    /\ \A t \in selected \cap DOMAIN outcomes : outcomes[t] \in {"passed", "skipped-allowed"}
    /\ tree = "audited"

(* main: the receipt is written beside the output, renamed and printed.    *)
Report ==
    /\ stage = "report" /\ stage' = "reported"
    /\ receipt' = [pass |-> Verdict, clean |-> tree = "audited", manifest |-> tree,
                   selected |-> selected, found |-> found, outcomes |-> outcomes]
    /\ UNCHANGED <<tree, selected, found, place, events>>

(* An exception of the runner is a FAIL receipt; a kill leaves none.       *)
Abort ==
    /\ stage \in {"load", "discover", "run", "report"} /\ stage' = "failed"
    /\ UNCHANGED <<tree, selected, found, place, events, receipt>>

(* The driver: exit status, and identity of candidate and manifest.        *)
DriverAccepts ==
    /\ stage = "reported"
    /\ stage' = IF receipt.pass /\ receipt.manifest = "audited" THEN "consume" ELSE "failed"
    /\ UNCHANGED <<tree, selected, found, place, events, receipt>>

(* parse_host_python_receipt, against the selection the policy pins.       *)
ReceiptHolds(r) ==
    /\ r.pass /\ r.clean /\ r.manifest = "audited"
    /\ r.selected = Tests /\ r.found = Tests /\ DOMAIN r.outcomes = Tests
    /\ \A t \in Tests : r.outcomes[t] \notin {"failed", "errors"}

ConsumerAccepts ==
    /\ stage = "consume"
    /\ stage' = IF ReceiptHolds(receipt) THEN "accepted" ELSE "failed"
    /\ UNCHANGED <<tree, selected, found, place, events, receipt>>

EditCheckout ==
    /\ tree = "audited" /\ tree' = "edited"
    /\ UNCHANGED <<stage, selected, found, place, events, receipt>>

SuiteStep ==
    \/ StartSuite \/ LoadManifest \/ Discover
    \/ \E s \in Classes \cup {Module} : SetUp(s) \/ TearDown(s)
    \/ \E t \in Tests : RunTest(t) \/ RunSubtests(t) \/ SkipBarred(t)
    \/ PassOver \/ EndRun \/ Report \/ Abort \/ DriverAccepts \/ ConsumerAccepts \/ EditCheckout

ReviewInit == BundleInit /\ SuiteInit
ReviewNext == \/ BundleNext /\ UNCHANGED suiteVars
              \/ SuiteStep /\ UNCHANGED bundleVars
ReviewSpec == ReviewInit /\ [][ReviewNext]_<<bundleVars, suiteVars>>

-----------------------------------------------------------------------------
(* A suite the consumer accepts ran the tests of the audited manifest, all *)
(* of them, from an audited checkout, and no failure that was reported for *)
(* a test is missing from it, wherever it came from (body, tear-down,      *)
(* class or module fixture, subtest), except one that a later skip with an *)
(* allowed reason replaced: _record keeps the last event.                  *)
AcceptedSuiteIsClean == stage = "accepted" =>
    /\ receipt.clean
    /\ DOMAIN outcomes = Tests /\ selected = Tests
    /\ failures \subseteq excused
    /\ \A t \in excused : outcomes[t] = "skipped-allowed"
=============================================================================
