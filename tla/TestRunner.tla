----------------------------- MODULE TestRunner -----------------------------
(***************************************************************************)
(* The test runner, test/run-tests: the main thread hands every test case  *)
(* to run_testcase_helper, in a thread of its own or, when the limit of    *)
(* threads is reached, by itself; it then collects the results through one *)
(* Future per test.                                                        *)
(*                                                                         *)
(* A helper is stepped through the points at which threads can meet: the   *)
(* lookup of COLOR.has_colours, which the first call of COLOR.format       *)
(* replaces by its own result, and the statements of Future.set.  What a   *)
(* test compiles and compares is one step with any verdict.  COLOR.format  *)
(* is called many times by a helper; only the first call can meet another  *)
(* thread's first call, and it stands at the beginning of the helper.      *)
(*                                                                         *)
(* The output is that of the option -T, one TAP line per test.             *)
(***************************************************************************)
EXTENDS Naturals, Sequences, FiniteSets

CONSTANTS N,            \* number of test cases
          Threads,      \* the option -t
          CanRaise,     \* may a helper or the opening of a test case fail?
          None          \* Python's None

ASSUME ThreadsAssumption ==
    N \in Nat /\ Threads \in Nat \ {0} /\ CanRaise \in BOOLEAN
    /\ None \notin {"passed", "failed"} /\ None \notin Nat

Tests == 1 .. N

VARIABLES
    handled,    \* the test cases with a check-name
    known,      \* the test cases with check-known-to-fail
    mpc, next,  \* the main thread: its place and its test case
    pc,         \* the helper of every test case
    colours,    \* COLOR.has_colours has been replaced by a bool
    idx, id,    \* the counter of test ids, data['test_id']
    verdict,    \* testcase_opts['passed']
    out,        \* the TAP lines on the console
    value, set, lock,             \* the Futures
    futures,    \* running_tests
    got,        \* what main got from the futures, in the order of futures
    status      \* exit status

future == <<value, set, lock>>
main == <<mpc, next, idx, id, futures, got, status>>
const == <<handled, known>>
vars == <<const, main, pc, colours, verdict, out, future>>

Pcs == {"idle", "format", "load", "call", "work", "report", "acquire",
        "value", "flag", "notify", "release", "done", "dead"}
MainPcs == {"loop", "warn", "inline", "get", "acquire", "check", "wait",
            "woken", "release", "exited"}

Init ==
    /\ handled \in SUBSET Tests
    /\ known \in SUBSET handled
    /\ mpc = "loop" /\ next = 1
    /\ pc = [t \in Tests |-> "idle"]
    /\ colours = FALSE
    /\ idx = 1
    /\ id = [t \in Tests |-> 0]
    /\ verdict = [t \in Tests |-> None]
    /\ out = << >>
    /\ value = [t \in Tests |-> None]
    /\ set = [t \in Tests |-> FALSE]
    /\ lock = [t \in Tests |-> "free"]
    /\ futures = << >>
    /\ got = << >>
    /\ status = None

-----------------------------------------------------------------------------
(* Helpers. *)

\* The main thread runs the helper of t, or the warning about t, by itself.
ByMain(t) == mpc \in {"inline", "warn"} /\ t = next

Alive == {t \in Tests : pc[t] \notin {"idle", "done", "dead"}}

\* An exception ends the thread, or the program when the thread is main.
Raise(t) ==
    /\ pc' = [pc EXCEPT ![t] = "dead"]
    /\ IF ByMain(t)
       THEN mpc' = "exited" /\ status' = 1
       ELSE UNCHANGED <<mpc, status>>
    /\ UNCHANGED <<next, idx, id, futures, got>>

Goto(t, l) == pc' = [pc EXCEPT ![t] = l]

AfterFormat(t) == IF t \in handled THEN "work" ELSE "done"

\* type(COLOR.has_colours) is not bool
Format(t) ==
    /\ pc[t] = "format"
    /\ Goto(t, IF colours THEN AfterFormat(t) ELSE "load")
    /\ UNCHANGED <<const, main, colours, verdict, out, future>>

\* COLOR.has_colours(sys.stdout) looks the name up again: a bool by now
\* cannot be called.
Load(t) ==
    /\ pc[t] = "load"
    /\ IF colours
       THEN Raise(t)
       ELSE Goto(t, "call") /\ UNCHANGED main
    /\ UNCHANGED <<const, colours, verdict, out, future>>

Call(t) ==
    /\ pc[t] = "call"
    /\ colours' = TRUE
    /\ Goto(t, AfterFormat(t))
    /\ UNCHANGED <<const, main, verdict, out, future>>

Work(t) ==
    /\ pc[t] = "work"
    /\ \E v \in {"passed", "failed"} : verdict' = [verdict EXCEPT ![t] = v]
    /\ Goto(t, "report")
    /\ UNCHANGED <<const, main, colours, out, future>>

\* A failing assert, a test case that cannot be opened any more, a program
\* that is not there.
WorkRaises(t) ==
    /\ CanRaise
    /\ pc[t] = "work"
    /\ Raise(t)
    /\ UNCHANGED <<const, colours, verdict, out, future>>

\* Mistake: check-known-to-fail is ignored.
TapStatusIgnoresKnown(t) == IF verdict[t] = "passed" THEN "ok" ELSE "not ok"

\* tap_status
TapStatus(t) ==
    IF (verdict[t] = "passed") = (t \in known) THEN "not ok" ELSE "ok"

Report(t) ==
    /\ pc[t] = "report"
    /\ out' = Append(out, [status |-> TapStatus(t), id |-> id[t], test |-> t])
    /\ Goto(t, "acquire")
    /\ UNCHANGED <<const, main, colours, verdict, future>>

\* Mistake: the flag is set before the value.
SetAcquireFlags(t) ==
    /\ pc[t] = "acquire"
    /\ lock[t] = "free"
    /\ lock' = [lock EXCEPT ![t] = "helper"]
    /\ set' = [set EXCEPT ![t] = TRUE]
    /\ Goto(t, "value")
    /\ UNCHANGED <<const, main, colours, verdict, out, value>>

\* Future.set
SetAcquire(t) ==
    /\ pc[t] = "acquire"
    /\ lock[t] = "free"
    /\ lock' = [lock EXCEPT ![t] = "helper"]
    /\ Goto(t, "value")
    /\ UNCHANGED <<const, main, colours, verdict, out, value, set>>

SetValue(t) ==
    /\ pc[t] = "value"
    /\ value' = [value EXCEPT ![t] = verdict[t]]
    /\ Goto(t, "flag")
    /\ UNCHANGED <<const, main, colours, verdict, out, set, lock>>

SetFlag(t) ==
    /\ pc[t] = "flag"
    /\ set' = [set EXCEPT ![t] = TRUE]
    /\ Goto(t, "notify")
    /\ UNCHANGED <<const, main, colours, verdict, out, value, lock>>

\* The future main waits for, or would wait for.
Current == futures[Len(got) + 1]

SetNotify(t) ==
    /\ pc[t] = "notify"
    /\ mpc' = IF mpc = "wait" /\ Current = t THEN "woken" ELSE mpc
    /\ Goto(t, "release")
    /\ UNCHANGED <<const, next, idx, id, futures, got, status,
                   colours, verdict, out, future>>

SetRelease(t) ==
    /\ pc[t] = "release"
    /\ lock' = [lock EXCEPT ![t] = "free"]
    /\ Goto(t, "done")
    /\ UNCHANGED <<const, main, colours, verdict, out, value, set>>

Helper(t) ==
    \/ Format(t) \/ Load(t) \/ Call(t)
    \/ Work(t) \/ WorkRaises(t) \/ Report(t)
    \/ SetAcquire(t) \/ SetValue(t) \/ SetFlag(t)
    \/ SetNotify(t) \/ SetRelease(t)

-----------------------------------------------------------------------------
(* The main thread. *)

\* threading.active_count(): main is one of the threads.
active_count == 1 + Cardinality(Alive)

LimitReached == active_count >= Threads

\* run_test_suite's loop, and run_testcase.
RunTestcase ==
    /\ mpc = "loop" /\ next \in handled
    /\ idx' = idx + 1
    /\ id' = [id EXCEPT ![next] = idx]
    /\ futures' = Append(futures, next)
    /\ Goto(next, "format")
    /\ IF LimitReached
       THEN mpc' = "inline" /\ next' = next
       ELSE mpc' = "loop" /\ next' = next + 1
    /\ UNCHANGED <<const, got, status, colours, verdict, out, future>>

Unhandled ==
    /\ mpc = "loop" /\ next \in Tests \ handled
    /\ mpc' = "warn"
    /\ Goto(next, "format")
    /\ UNCHANGED <<const, next, idx, id, futures, got, status,
                   colours, verdict, out, future>>

\* test_case_open exits with status 2.
OpenFails ==
    /\ CanRaise
    /\ mpc = "loop" /\ next \in Tests
    /\ mpc' = "exited" /\ status' = 2
    /\ UNCHANGED <<const, next, idx, id, futures, got,
                   pc, colours, verdict, out, future>>

\* The inline helper returns, its future is set; or the warning is written.
Return ==
    /\ mpc \in {"inline", "warn"} /\ pc[next] = "done"
    /\ mpc' = "loop" /\ next' = next + 1
    /\ UNCHANGED <<const, idx, id, futures, got, status,
                   pc, colours, verdict, out, future>>

Mpc(from, to) ==
    /\ mpc = from
    /\ mpc' = to
    /\ UNCHANGED <<const, next, idx, id, futures, status, pc, colours,
                   verdict, out, value, set>>

EndOfLoop ==
    /\ next > N
    /\ Mpc("loop", "get")
    /\ UNCHANGED <<got, lock>>

Uncollected == Len(got) < Len(futures)

\* What the loop over running_tests does with the value of a future.
Collect ==
    /\ got' = Append(got, value[Current])
    /\ IF value[Current] = None
       THEN mpc' = "exited" /\ status' = 1      \* None['passed']
       ELSE mpc' = "get" /\ UNCHANGED status
    /\ UNCHANGED <<const, next, idx, id, futures, pc, colours,
                   verdict, out, value, set>>

\* Future.get, first without the lock.
GetFast ==
    /\ mpc = "get" /\ Uncollected
    /\ set[Current]
    /\ Collect
    /\ UNCHANGED lock

GetSlow ==
    /\ mpc = "get" /\ Uncollected
    /\ ~set[Current]
    /\ Mpc("get", "acquire")
    /\ UNCHANGED <<got, lock>>

\* Mistake: the flag is not tested again under the lock.
GetAcquireNoCheck ==
    /\ mpc \in {"acquire", "woken"}
    /\ lock[Current] = "free"
    /\ lock' = [lock EXCEPT ![Current] = IF mpc = "woken" THEN "main" ELSE "free"]
    /\ Mpc(mpc, IF mpc = "woken" THEN "check" ELSE "wait")
    /\ UNCHANGED got

GetAcquire ==
    /\ mpc \in {"acquire", "woken"}
    /\ lock[Current] = "free"
    /\ lock' = [lock EXCEPT ![Current] = "main"]
    /\ Mpc(mpc, "check")
    /\ UNCHANGED got

GetWait ==
    /\ mpc = "check"
    /\ ~set[Current]
    /\ lock' = [lock EXCEPT ![Current] = "free"]
    /\ Mpc("check", "wait")
    /\ UNCHANGED got

GetLocked ==
    /\ mpc = "check"
    /\ set[Current]
    /\ lock' = [lock EXCEPT ![Current] = "free"]
    /\ Collect

Counted(S) == Cardinality({i \in DOMAIN got : got[i] = "failed" /\ futures[i] \in S})

\* Mistake: a test known to fail that passes makes up for another failure.
KnownFailCountsPasses == Cardinality({i \in DOMAIN got : futures[i] \in known})

tests_failed == Counted(Tests)
tests_known_fail == Counted(known)

Finish ==
    /\ mpc = "get" /\ ~Uncollected
    /\ mpc' = "exited"
    /\ status' = IF tests_failed <= tests_known_fail THEN 0 ELSE 255
    /\ UNCHANGED <<const, next, idx, id, futures, got,
                   pc, colours, verdict, out, future>>

Main ==
    \/ RunTestcase \/ Unhandled \/ OpenFails \/ Return \/ EndOfLoop
    \/ GetFast \/ GetSlow \/ GetAcquire \/ GetWait \/ GetLocked \/ Finish

Next == Main \/ \E t \in Tests : Helper(t)

\* Python switches between the threads, and every test command ends.
Fairness == WF_vars(Main) /\ \A t \in Tests : WF_vars(Helper(t))

Spec == Init /\ [][Next]_vars
FairSpec == Spec /\ Fairness

-----------------------------------------------------------------------------
(* Properties. *)

TypeOK ==
    /\ handled \subseteq Tests /\ known \subseteq handled
    /\ mpc \in MainPcs /\ next \in 1 .. N + 1
    /\ pc \in [Tests -> Pcs]
    /\ colours \in BOOLEAN
    /\ idx \in Nat
    /\ id \in [Tests -> Nat]
    /\ verdict \in [Tests -> {None, "passed", "failed"}]
    /\ out \in Seq([status : {"ok", "not ok"}, id : Nat, test : Tests])
    /\ value \in [Tests -> {None, "passed", "failed"}]
    /\ set \in [Tests -> BOOLEAN]
    /\ lock \in [Tests -> {"free", "helper", "main"}]
    /\ futures \in Seq(Tests)
    /\ got \in Seq({None, "passed", "failed"})
    /\ status \in {None, 0, 1, 2, 255}

\* Delivered: Future.get reads the flag without the lock and returns the value: it is
\* always the verdict of the test the future belongs to, never None.
Delivered ==
    \A i \in DOMAIN got : got[i] # None /\ got[i] = verdict[futures[i]]

\* Verdict: the exit status is 0 exactly when every test case with a check-name was
\* run and those that failed are known to fail (run_test_suite's counts).
Verdict ==
    status \in {0, 255} =>
        /\ \A t \in handled : verdict[t] # None
        /\ (status = 0) <=> \A t \in handled : verdict[t] = "failed" => t \in known

\* TapAgrees: in the end the TAP lines are numbered 1 to the plan, once each, in
\* whatever order the threads wrote them, and agree with the exit status but for one
\* case: a test known to fail that passes is "not ok" and does not change it.
TapAgrees ==
    /\ status \in {0, 255} => /\ Len(out) = Len(futures)
                              /\ {out[i].id : i \in DOMAIN out} = 1 .. Len(futures)
    /\ status = 255 => \E i \in DOMAIN out : /\ out[i].status = "not ok"
                                             /\ verdict[out[i].test] = "failed"
    /\ status = 0 => \A i \in DOMAIN out :
          out[i].status = "not ok" <=> /\ out[i].test \in known
                                       /\ verdict[out[i].test] = "passed"

\* EndsUnlessRaised: the runner ends, unless a helper raised an exception: no wake-up is lost
\* between Future.get and Future.set.
EndsUnlessRaised == <>(mpc = "exited" \/ \E t \in Tests : pc[t] = "dead")

\* Ends: the runner ends and reports, whatever the threads do.
Ends == <>(mpc = "exited")
=============================================================================
