-------------------------- MODULE TestRunnerProofs --------------------------
(***************************************************************************)
(* Proofs about test/run-tests, for any number of test cases and threads:  *)
(* the main thread collects from every future the verdict of its own test, *)
(* and in the end the exit status and the TAP lines tell the verdicts.     *)
(***************************************************************************)
EXTENDS TestRunner, FiniteSetTheorems, TLAPS

TypeInv ==
    /\ mpc \in MainPcs
    /\ next \in Nat \ {0}
    /\ handled \subseteq Tests
    /\ pc \in [Tests -> Pcs]
    /\ verdict \in [Tests -> {None, "passed", "failed"}]
    /\ value \in [Tests -> {None, "passed", "failed"}]
    /\ set \in [Tests -> BOOLEAN]
    /\ futures \in Seq(Tests)
    /\ got \in Seq({None, "passed", "failed"})

\* No helper has begun before its turn in the loop.
FreshInv ==
    \A t \in Tests :
        (t > next \/ (t = next /\ mpc = "loop")) => pc[t] = "idle"

\* The value of a future whose flag is set is there to stay.
FutureInv ==
    \A t \in Tests :
        /\ pc[t] \in {"report", "acquire", "value", "flag", "notify", "release"}
              => verdict[t] # None
        /\ pc[t] \in {"flag", "notify", "release"} => value[t] = verdict[t]
        /\ set[t] => /\ pc[t] \in {"notify", "release", "done"}
                     /\ verdict[t] # None
                     /\ value[t] = verdict[t]

\* Main collects in the order of futures, those whose flag is set.
CollectInv ==
    /\ Len(got) <= Len(futures)
    /\ mpc \in {"acquire", "woken", "check", "wait"} => Len(got) < Len(futures)
    /\ \A i \in 1 .. Len(got) : set[futures[i]] /\ got[i] = verdict[futures[i]]

IInv == TypeInv /\ FreshInv /\ FutureInv /\ CollectInv

LEMMA RunnerInit == Init => IInv
  <1> SUFFICES ASSUME Init PROVE IInv OBVIOUS
  <1>1. TypeInv BY DEF Init, TypeInv, MainPcs, Pcs
  <1>2. FreshInv /\ FutureInv BY DEF Init, FreshInv, FutureInv
  <1>3. CollectInv BY DEF Init, CollectInv
  <1> QED BY <1>1, <1>2, <1>3 DEF IInv

\* The steps of a helper leave what main has collected alone.
LEMMA RunnerHelper ==
  ASSUME IInv, NEW t \in Tests, Helper(t)
  PROVE  IInv'
  <1> USE DEF IInv, vars, main, const, future
  <1>0. /\ futures' = futures /\ got' = got /\ next' = next /\ handled' = handled
        /\ mpc' \in {mpc, "exited", "woken"} 
        /\ mpc' = "woken" => mpc \in {"wait", "woken"}
        /\ pc[t] \notin {"idle", "done", "dead"}
        /\ \E l \in Pcs \ {"idle"} : pc' = [pc EXCEPT ![t] = l]
    BY DEF Helper, Format, Load, Call, Work, WorkRaises, Report, SetAcquire,
           SetValue, SetFlag, SetNotify, SetRelease, Raise, Goto, AfterFormat,
           Pcs
  <1>1. TypeInv'
    <2>1. (/\ mpc \in MainPcs /\ pc \in [Tests -> Pcs])'
      BY <1>0 DEF TypeInv, MainPcs
    <2>2. (/\ verdict \in [Tests -> {None, "passed", "failed"}]
           /\ value \in [Tests -> {None, "passed", "failed"}]
           /\ set \in [Tests -> BOOLEAN])'
      BY DEF TypeInv, Helper, Format, Load, Call, Work, WorkRaises, Report,
             SetAcquire, SetValue, SetFlag, SetNotify, SetRelease
    <2> QED BY <1>0, <2>1, <2>2 DEF TypeInv
  <1>2. FreshInv'
    BY <1>0 DEF FreshInv, TypeInv, Tests
  <1>3. /\ FutureInv'
        /\ \A u \in Tests : set[u] => set'[u] /\ verdict'[u] = verdict[u]
    <2> USE DEF FutureInv, TypeInv
    <2>1. CASE Format(t) BY <2>1 DEF Format, Goto, AfterFormat
    <2>2. CASE Load(t) BY <2>2 DEF Load, Goto, Raise
    <2>3. CASE Call(t) BY <2>3 DEF Call, Goto, AfterFormat
    <2>4. CASE Work(t) BY <2>4, ThreadsAssumption DEF Work, Goto
    <2>5. CASE WorkRaises(t) BY <2>5 DEF WorkRaises, Raise
    <2>6. CASE Report(t) BY <2>6 DEF Report, Goto
    <2>7. CASE SetAcquire(t) BY <2>7 DEF SetAcquire, Goto
    <2>8. CASE SetValue(t) BY <2>8 DEF SetValue, Goto
    <2>9. CASE SetFlag(t) BY <2>9 DEF SetFlag, Goto
    <2>10. CASE SetNotify(t) BY <2>10 DEF SetNotify, Goto
    <2>11. CASE SetRelease(t) BY <2>11 DEF SetRelease, Goto
    <2> QED BY <2>1, <2>2, <2>3, <2>4, <2>5, <2>6, <2>7, <2>8, <2>9, <2>10,
               <2>11 DEF Helper
  <1>4. CollectInv'
    <2>1. ASSUME NEW i \in 1 .. Len(got) PROVE futures[i] \in Tests
      BY <2>1 DEF CollectInv, TypeInv
    <2> QED BY <1>0, <1>3, <2>1 DEF CollectInv
  <1> QED BY <1>1, <1>2, <1>3, <1>4

\* Main appends to what it collects only from a future whose flag is set.
LEMMA RunnerCollect ==
  ASSUME IInv, Collect, Uncollected, set[Current]
  PROVE  IInv'
  <1> USE DEF IInv, const
  <1>1. Current \in Tests /\ Len(got) \in Nat /\ Len(futures) \in Nat
    BY DEF TypeInv, Uncollected, Current
  <1>2. TypeInv'
    BY <1>1 DEF Collect, TypeInv, MainPcs
  <1>3. FreshInv' /\ FutureInv'
    BY <1>1 DEF Collect, FreshInv, FutureInv
  <1>4. value[Current] = verdict[Current]
    BY <1>1 DEF FutureInv
  <1>5. /\ Len(got') = Len(got) + 1
        /\ \A i \in 1 .. Len(got) : got'[i] = got[i]
        /\ got'[Len(got) + 1] = value[Current]
    BY <1>1 DEF Collect, TypeInv
  <1>6. CollectInv'
    BY <1>1, <1>4, <1>5 DEF Collect, CollectInv, Uncollected, Current
  <1> QED BY <1>2, <1>3, <1>6

LEMMA RunnerMain == IInv /\ Main => IInv'
  <1> SUFFICES ASSUME IInv, Main PROVE IInv' OBVIOUS
  <1> USE DEF IInv, vars, main, const, future
  <1>0. Len(got) \in Nat /\ Len(futures) \in Nat BY DEF TypeInv
  <1>1. CASE RunTestcase
    <2>1. next \in Tests /\ pc[next] = "idle"
      BY <1>1 DEF RunTestcase, FreshInv, TypeInv
    <2>2. futures' \in Seq(Tests)
          /\ Len(futures') = Len(futures) + 1
          /\ \A i \in 1 .. Len(futures) : futures'[i] = futures[i]
      BY <1>1, <2>1 DEF RunTestcase, TypeInv
    <2>3. mpc' \in {"inline", "loop"} /\ next' \in {next, next + 1}
          /\ (next' = next => mpc' = "inline")
      BY <1>1, <2>1 DEF RunTestcase, Tests
    <2>4. TypeInv'
      BY <1>1, <2>1, <2>2, <2>3 DEF RunTestcase, Goto, TypeInv, MainPcs, Pcs
    <2>5. FreshInv'
      BY <1>1, <2>1, <2>3 DEF RunTestcase, Goto, FreshInv, TypeInv, Tests
    <2>6. FutureInv'
      BY <1>1, <2>1 DEF RunTestcase, Goto, FutureInv, TypeInv
    <2>7. CollectInv'
      BY <1>0, <1>1, <2>2, <2>3 DEF RunTestcase, CollectInv
    <2> QED BY <2>4, <2>5, <2>6, <2>7
  <1>2. CASE Unhandled
    <2>1. next \in Tests /\ pc[next] = "idle"
      BY <1>2 DEF Unhandled, FreshInv, TypeInv
    <2>4. TypeInv'
      BY <1>2, <2>1 DEF Unhandled, Goto, TypeInv, MainPcs, Pcs
    <2>5. FreshInv'
      BY <1>2, <2>1 DEF Unhandled, Goto, FreshInv, TypeInv, Tests
    <2>6. FutureInv'
      BY <1>2, <2>1 DEF Unhandled, Goto, FutureInv, TypeInv
    <2>7. CollectInv'
      BY <1>2 DEF Unhandled, CollectInv
    <2> QED BY <2>4, <2>5, <2>6, <2>7
  <1>3. CASE OpenFails
    BY <1>3 DEF OpenFails, TypeInv, MainPcs, FreshInv, FutureInv, CollectInv
  <1>4. CASE Return
    <2>1. TypeInv' BY <1>4 DEF Return, TypeInv, MainPcs
    <2>2. FreshInv' BY <1>4 DEF Return, FreshInv, TypeInv, Tests
    <2>3. FutureInv' /\ CollectInv' BY <1>4 DEF Return, FutureInv, CollectInv
    <2> QED BY <2>1, <2>2, <2>3
  <1>5. CASE EndOfLoop \/ GetSlow \/ GetAcquire \/ GetWait
    <2>1. /\ UNCHANGED <<handled, next, futures, pc, verdict, value, set, got>>
          /\ mpc' \in {"get", "acquire", "check", "wait"}
          /\ mpc' \in {"acquire", "check", "wait"} => Len(got) < Len(futures)
      BY <1>5 DEF EndOfLoop, GetSlow, GetAcquire, GetWait, Mpc, Uncollected,
                  CollectInv
    <2>2. TypeInv' BY <2>1 DEF TypeInv, MainPcs
    <2>3. FreshInv' BY <2>1 DEF FreshInv
    <2>4. FutureInv' BY <2>1 DEF FutureInv
    <2>5. CollectInv' BY <2>1 DEF CollectInv
    <2> QED BY <2>2, <2>3, <2>4, <2>5
  <1>6. CASE GetFast
    BY <1>6, RunnerCollect DEF GetFast
  <1>7. CASE GetLocked
    BY <1>7, RunnerCollect DEF GetLocked, Uncollected, CollectInv
  <1>8. CASE Finish
    BY <1>8 DEF Finish, TypeInv, MainPcs, FreshInv, FutureInv, CollectInv
  <1> QED BY <1>1, <1>2, <1>3, <1>4, <1>5, <1>6, <1>7, <1>8 DEF Main

LEMMA RunnerStep == IInv /\ [Next]_vars => IInv'
  <1> SUFFICES ASSUME IInv, [Next]_vars PROVE IInv' OBVIOUS
  <1>1. CASE Main BY <1>1, RunnerMain
  <1>2. CASE \E t \in Tests : Helper(t) BY <1>2, RunnerHelper
  <1>3. CASE UNCHANGED vars
    BY <1>3 DEF vars, main, const, future, IInv, TypeInv, FreshInv, FutureInv,
                CollectInv
  <1> QED BY <1>1, <1>2, <1>3 DEF Next

LEMMA RunnerImplies == IInv => Delivered
  <1> SUFFICES ASSUME IInv, NEW i \in DOMAIN got
               PROVE  got[i] # None /\ got[i] = verdict[futures[i]]
    BY DEF Delivered
  <1>1. i \in 1 .. Len(got) /\ futures[i] \in Tests
    BY DEF IInv, TypeInv, CollectInv
  <1> QED BY <1>1 DEF IInv, CollectInv, FutureInv

\* Whatever the threads do, what Future.get hands to the main thread is the
\* verdict of the future's own test and never None, although it reads flag
\* and value without the lock.
THEOREM TestRunnerDelivered == Spec => []Delivered
  <1>1. Spec => []IInv
    BY RunnerInit, RunnerStep, PTL DEF Spec
  <1> QED BY <1>1, RunnerImplies, PTL

-----------------------------------------------------------------------------
(* The TAP lines and the exit status.                                      *)

TapType ==
    /\ known \subseteq handled
    /\ idx \in Nat /\ id \in [Tests -> Nat]
    /\ out \in Seq([status : {"ok", "not ok"}, id : Nat, test : Tests])

\* The futures are numbered by the ids of their tests, and no test is left out.
FuturesInv ==
    /\ idx = Len(futures) + 1
    /\ \A i \in 1 .. Len(futures) :
          /\ futures[i] \in handled /\ id[futures[i]] = i
          /\ futures[i] <= next /\ (mpc = "loop" => futures[i] # next)
    /\ \A t \in handled : t < next => \E i \in 1 .. Len(futures) : futures[i] = t
    /\ mpc = "inline" => \E i \in 1 .. Len(futures) : futures[i] = next
    /\ mpc = "warn" => next \notin handled
    /\ mpc \in {"get", "acquire", "woken", "check", "wait"} => next > N

\* The tests whose line has been written.
Written == {t \in handled : pc[t] \in {"acquire", "value", "flag", "notify", "release", "done"}}

\* Every line is about a test of its own and says what is known of that test.
LinesInv ==
    /\ \A t \in Tests \ handled : pc[t] \in {"idle", "format", "load", "call", "done", "dead"}
    /\ \A i \in 1 .. Len(out) : /\ out[i].test \in Written /\ out[i].id = id[out[i].test]
                                /\ out[i].status = TapStatus(out[i].test)
    /\ \A t \in Written : \E i \in 1 .. Len(out) : out[i].test = t
    /\ \A i, j \in 1 .. Len(out) : out[i].test = out[j].test => i = j

\* When the suite has ended all results have been counted.
ExitInv ==
    status \in {0, 255} =>
        /\ mpc = "exited" /\ next > N /\ Len(got) = Len(futures)
        /\ status = 0 <=> tests_failed <= tests_known_fail

TapInv == IInv /\ TapType /\ FuturesInv /\ LinesInv /\ ExitInv

\* Lines are kept when no test gets to report and no verdict that was written
\* changes.
LEMMA LinesKept ==
  ASSUME LinesInv, handled' = handled, known' = known, out' = out, Written' = Written,
         \A t \in Written : verdict'[t] = verdict[t] /\ id'[t] = id[t],
         \A t \in Tests \ handled : pc'[t] \in {"idle", "format", "load", "call", "done", "dead"}
  PROVE  LinesInv'
  <1>1. \A t \in Written : TapStatus(t)' = TapStatus(t)
    BY DEF TapStatus
  <1>2. \A i \in 1 .. Len(out) : /\ out[i].test \in Written
                                 /\ out[i].id = id[out[i].test]
                                 /\ out[i].status = TapStatus(out[i].test)
    BY DEF LinesInv
  <1>3. \A i \in 1 .. Len(out') : /\ out'[i].test \in Written'
                                  /\ out'[i].id = id'[out'[i].test]
    BY <1>2
  <1>4. \A i \in 1 .. Len(out') : out'[i].status = TapStatus(out[i].test)'
    BY <1>1, <1>2
  <1>5. /\ \A t \in Written' : \E i \in 1 .. Len(out') : out'[i].test = t
        /\ \A i, j \in 1 .. Len(out') : out'[i].test = out'[j].test => i = j
    BY DEF LinesInv
  <1> QED BY <1>3, <1>4, <1>5 DEF LinesInv

\* A test reports.
LEMMA LinesReport ==
  ASSUME IInv, TapType, LinesInv, NEW t \in Tests, Report(t)
  PROVE  LinesInv' /\ TapType'
  <1> DEFINE line == [status |-> TapStatus(t), id |-> id[t], test |-> t]
             L == [status : {"ok", "not ok"}, id : Nat, test : Tests]
             n == Len(out)
  <1>1. /\ line \in L /\ out \in Seq(L)
        /\ line.test = t /\ line.id = id[t] /\ line.status = TapStatus(t)
    BY DEF TapType, TapStatus
  <1>2. out' = Append(out, line) /\ UNCHANGED <<handled, known, verdict, id, idx>>
        /\ pc' = [pc EXCEPT ![t] = "acquire"] /\ pc[t] = "report"
    BY DEF Report, const, main, Goto
  <1> HIDE DEF line
  <1>3. t \in handled
    BY <1>2 DEF LinesInv
  <1>4. Written' = Written \cup {t} /\ t \notin Written
    BY <1>2, <1>3 DEF Written, IInv, TypeInv
  <1>5. /\ out' \in Seq(L)
        /\ n \in Nat /\ Len(out') = n + 1
        /\ \A i \in 1 .. n : out'[i] = out[i]
        /\ out'[n + 1] = line
    <2> HIDE DEF L
    <2> QED BY <1>1, <1>2
  <1>6. TapType'
    BY <1>2, <1>5 DEF TapType
  <1>7. /\ \A i \in 1 .. Len(out') : i \in 1 .. n \/ i = n + 1
        /\ \A i \in 1 .. n : i \in 1 .. Len(out')
        /\ n + 1 \in 1 .. Len(out')
    <2>1. n \in Nat /\ Len(out') = n + 1
      BY <1>5
    <2> HIDE DEF n, L
    <2> QED BY <2>1
  <1>8. /\ \A i \in 1 .. n : /\ out[i].test \in Written /\ out[i].id = id[out[i].test]
                             /\ out[i].status = TapStatus(out[i].test)
        /\ \A u \in Written : \E i \in 1 .. n : out[i].test = u
        /\ \A i, j \in 1 .. n : out[i].test = out[j].test => i = j
    BY DEF LinesInv
  <1> HIDE DEF n, L
  <1>9. ASSUME NEW i \in 1 .. Len(out')
        PROVE  /\ out'[i].test \in Written' /\ out'[i].id = id'[out'[i].test]
               /\ out'[i].status = TapStatus(out'[i].test)
    <2>1. CASE i \in 1 .. n
      BY <1>2, <1>4, <1>5, <1>8, <2>1
    <2>2. CASE i = n + 1
      BY <1>1, <1>2, <1>4, <1>5, <2>2
    <2> QED BY <1>7, <2>1, <2>2
  <1>10. ASSUME NEW u \in Written' PROVE \E i \in 1 .. Len(out') : out'[i].test = u
    <2>1. CASE u \in Written
      <3>1. PICK i \in 1 .. n : out[i].test = u
        BY <1>8, <2>1
      <3>2. i \in 1 .. Len(out') /\ out'[i] = out[i]
        BY <1>5, <1>7, <3>1
      <3> QED BY <3>1, <3>2
    <2>2. CASE u = t
      <3>1. n + 1 \in 1 .. Len(out') /\ out'[n + 1].test = t
        BY <1>1, <1>5, <1>7
      <3> QED BY <2>2, <3>1
    <2> QED BY <1>4, <1>10, <2>1, <2>2
  <1>11. ASSUME NEW i \in 1 .. Len(out'), NEW j \in 1 .. Len(out'), out'[i].test = out'[j].test
         PROVE  i = j
    <2>1. CASE i \in 1 .. n /\ j \in 1 .. n
      <3>1. out'[i] = out[i] /\ out'[j] = out[j]
        BY <1>5, <2>1
      <3> QED BY <1>8, <1>11, <2>1, <3>1
    <2>2. \A k \in 1 .. n : out'[k].test # t
      BY <1>4, <1>5, <1>8
    <2>3. out'[n + 1].test = t
      BY <1>1, <1>5
    <2> QED BY <1>7, <1>11, <2>1, <2>2, <2>3
  <1>12. \A u \in Tests \ handled' : pc'[u] \in {"idle", "format", "load", "call", "done", "dead"}
    BY <1>2, <1>3 DEF LinesInv, IInv, TypeInv
  <1>13. \A i \in 1 .. Len(out') : out'[i].status = TapStatus(out[i].test)'
    BY <1>2, <1>9 DEF TapStatus
  <1> QED BY <1>6, <1>9, <1>10, <1>11, <1>12, <1>13 DEF LinesInv

LEMMA TapHelper ==
  ASSUME TapInv, NEW t \in Tests, Helper(t)
  PROVE  TapType' /\ FuturesInv' /\ LinesInv' /\ ExitInv'
  <1> USE DEF TapInv, main, const, future
  <1>1. /\ UNCHANGED <<handled, known, futures, got, next, id, idx>>
        /\ mpc' \in {mpc, "exited", "woken"}
        /\ mpc' = "woken" => mpc \in {"wait", "woken"}
    BY DEF Helper, Format, Load, Call, Work, WorkRaises, Report, SetAcquire,
           SetValue, SetFlag, SetNotify, SetRelease, Raise
  <1>2. FuturesInv'
    BY <1>1 DEF FuturesInv
  <1>3. ExitInv'
    <2>1. CASE status' = status /\ (mpc = "exited" => mpc' = "exited")
      BY <1>1, <2>1 DEF ExitInv, tests_failed, tests_known_fail, Counted, Tests
    <2>2. CASE ~(status' = status /\ (mpc = "exited" => mpc' = "exited"))
      <3>1. status' = 1
        BY <1>1, <2>2 DEF Helper, Format, Load, Call, Work, WorkRaises, Report, SetAcquire,
             SetValue, SetFlag, SetNotify, SetRelease, Raise
      <3> QED BY <3>1 DEF ExitInv
    <2> QED BY <2>1, <2>2
  <1>5. CASE Report(t)
    BY <1>2, <1>3, <1>5, LinesReport
  <1>6. CASE ~Report(t)
    <2>1. out' = out
      BY <1>6 DEF Helper, Format, Load, Call, Work, WorkRaises, SetAcquire,
           SetValue, SetFlag, SetNotify, SetRelease, Raise
    <2>2. TapType'
      BY <1>1, <2>1 DEF TapType
    <2>3. /\ \A u \in Tests : u # t => pc'[u] = pc[u] /\ verdict'[u] = verdict[u]
          /\ t \in Written <=> t \in Written'
          /\ t \in Written => verdict'[t] = verdict[t]
          /\ t \notin handled => pc'[t] \in {"idle", "format", "load", "call", "done", "dead"}
      <3> USE <1>1 DEF Written, IInv, TypeInv, LinesInv
      <3>1. CASE Format(t) BY <3>1 DEF Format, Goto, AfterFormat
      <3>2. CASE Load(t)
        <4>1. pc[t] = "load" /\ verdict' = verdict
          BY <3>2 DEF Load, const
        <4>2. handled' = handled
          BY <3>2 DEF Load, const
        <4>3. \E l \in {"call", "dead"} : pc' = [pc EXCEPT ![t] = l]
          BY <3>2 DEF Load, Goto, Raise
        <4> QED BY <4>1, <4>2, <4>3
      <3>3. CASE Call(t) BY <3>3 DEF Call, Goto, AfterFormat
      <3>4. CASE Work(t)
        <4>1. pc[t] = "work" /\ pc' = [pc EXCEPT ![t] = "report"]
          BY <3>4 DEF Work, Goto
        <4>2. PICK v \in {"passed", "failed"} : verdict' = [verdict EXCEPT ![t] = v]
          BY <3>4 DEF Work
        <4>3. t \in handled /\ t \notin Written
          BY <4>1
        <4>4. pc'[t] = "report" /\ t \notin Written'
          BY <4>1
        <4>5. \A u \in Tests : u # t => pc'[u] = pc[u] /\ verdict'[u] = verdict[u]
          BY <4>1, <4>2
        <4> QED BY <4>3, <4>4, <4>5
      <3>5. CASE WorkRaises(t) BY <3>5 DEF WorkRaises, Raise
      <3>6. CASE SetAcquire(t) BY <3>6 DEF SetAcquire, Goto
      <3>7. CASE SetValue(t) BY <3>7 DEF SetValue, Goto
      <3>8. CASE SetFlag(t) BY <3>8 DEF SetFlag, Goto
      <3>9. CASE SetNotify(t) BY <3>9 DEF SetNotify, Goto
      <3>10. CASE SetRelease(t) BY <3>10 DEF SetRelease, Goto
      <3> QED BY <1>6, <3>1, <3>2, <3>3, <3>4, <3>5, <3>6, <3>7, <3>8, <3>9, <3>10 DEF Helper
    <2>4. Written' = Written
      BY <1>1, <2>3 DEF Written, IInv, TypeInv
    <2>5. \A u \in Written : verdict'[u] = verdict[u] /\ id'[u] = id[u]
      BY <1>1, <2>3 DEF Written, IInv, TypeInv
    <2>6. \A u \in Tests \ handled : pc'[u] \in {"idle", "format", "load", "call", "done", "dead"}
      BY <2>3 DEF LinesInv
    <2>7. LinesInv'
      BY <1>1, <2>1, <2>4, <2>5, <2>6, LinesKept
    <2> QED BY <1>2, <1>3, <2>2, <2>7
  <1> QED BY <1>5, <1>6

LEMMA TapMain ==
  ASSUME TapInv, Main
  PROVE  TapType' /\ FuturesInv' /\ LinesInv' /\ ExitInv'
  <1> USE DEF TapInv, main, const, future
  <1>0. next \in Nat /\ N \in Nat /\ Len(futures) \in Nat /\ handled \subseteq Tests
    BY ThreadsAssumption DEF IInv, TypeInv
  <1>1. CASE RunTestcase
    <2>1. next \in Tests /\ next \in handled /\ pc[next] = "idle" /\ next \notin Written
      BY <1>1 DEF RunTestcase, IInv, FreshInv, TypeInv, Written
    <2>2. /\ futures' \in Seq(Tests) /\ Len(futures') = Len(futures) + 1
          /\ \A i \in 1 .. Len(futures) : futures'[i] = futures[i]
          /\ futures'[Len(futures) + 1] = next
      BY <1>1, <2>1 DEF RunTestcase, IInv, TypeInv
    <2>3. /\ UNCHANGED <<handled, known, out, verdict, status>> /\ idx' = idx + 1 /\ mpc = "loop"
          /\ pc' = [pc EXCEPT ![next] = "format"] /\ id' = [id EXCEPT ![next] = idx]
          /\ (mpc' = "inline" /\ next' = next) \/ (mpc' = "loop" /\ next' = next + 1)
      BY <1>1 DEF RunTestcase, Goto
    <2>4. TapType'
      <3>1. idx \in Nat /\ id \in [Tests -> Nat]
        BY DEF TapType
      <3>2. idx' = idx + 1 /\ id' = [id EXCEPT ![next] = idx]
        BY <2>3
      <3>3. idx' \in Nat
        BY <3>1, <3>2
      <3>4. id' \in [Tests -> Nat]
        BY <3>1, <3>2
      <3> QED BY <2>3, <3>3, <3>4 DEF TapType
    <2>5. \A t \in Tests : t # next => pc'[t] = pc[t] /\ id'[t] = id[t]
      BY <2>3 DEF IInv, TypeInv, TapType
    <2>6. LinesInv'
      <3>1. Written' = Written
        BY <1>0, <2>1, <2>3, <2>5 DEF Written, IInv, TypeInv
      <3>2. \A t \in Written : verdict'[t] = verdict[t] /\ id'[t] = id[t]
        BY <1>0, <2>1, <2>3, <2>5 DEF Written
      <3>3. \A t \in Tests \ handled : pc'[t] \in {"idle", "format", "load", "call", "done", "dead"}
        BY <2>1, <2>5 DEF LinesInv
      <3> QED BY <2>3, <3>1, <3>2, <3>3, LinesKept
    <2>7. FuturesInv'
      <3> DEFINE n == Len(futures)
      <3>1. idx' = Len(futures') + 1 /\ idx = n + 1 /\ id'[next] = n + 1
        BY <1>0, <2>1, <2>2, <2>3 DEF FuturesInv, TapType
      <3>2. \A i \in 1 .. Len(futures') : i \in 1 .. n \/ i = n + 1
        BY <1>0, <2>2
      <3>3. \A t \in Tests : t \in Nat
        BY DEF Tests
      <3>4. ASSUME NEW i \in 1 .. Len(futures')
            PROVE  /\ futures'[i] \in handled /\ id'[futures'[i]] = i
                   /\ futures'[i] <= next' /\ (mpc' = "loop" => futures'[i] # next')
        <4>1. CASE i \in 1 .. n
          <5>1. /\ futures[i] \in handled /\ id[futures[i]] = i
                /\ futures[i] <= next /\ futures[i] # next /\ futures[i] \in Nat
            BY <1>0, <2>3, <3>3, <4>1 DEF FuturesInv
          <5> QED BY <1>0, <2>2, <2>3, <2>5, <4>1, <5>1
        <4>2. CASE i = n + 1
          BY <1>0, <2>1, <2>2, <2>3, <3>1, <4>2
        <4> QED BY <3>2, <4>1, <4>2
      <3>5. ASSUME NEW t \in handled, t <= next PROVE \E i \in 1 .. Len(futures') : futures'[i] = t
        <4>1. CASE t = next
          BY <1>0, <2>2, <4>1
        <4>2. CASE t < next
          <5>1. PICK i \in 1 .. n : futures[i] = t
            BY <4>2 DEF FuturesInv
          <5>2. i \in 1 .. Len(futures') /\ futures'[i] = t
            BY <1>0, <2>2, <5>1
          <5> QED BY <5>2
        <4>3. t \in Nat
          BY <1>0, <3>3
        <4> QED BY <1>0, <3>5, <4>1, <4>2, <4>3
      <3>6. \A t \in handled : t < next' => t <= next
        BY <1>0, <2>3, <3>3
      <3>7. next <= next
        BY <1>0
      <3> QED BY <2>1, <2>3, <3>1, <3>4, <3>5, <3>6, <3>7 DEF FuturesInv
    <2>8. ExitInv'
      BY <2>3 DEF ExitInv
    <2> QED BY <2>4, <2>6, <2>7, <2>8
  <1>2. CASE Unhandled
    <2>1. next \in Tests \ handled /\ mpc = "loop" /\ mpc' = "warn"
          /\ UNCHANGED <<handled, known, next, idx, id, futures, got, status, verdict, out>>
          /\ pc' = [pc EXCEPT ![next] = "format"]
      BY <1>2 DEF Unhandled, Goto
    <2>2. Written' = Written
      BY <1>0, <2>1 DEF Written, IInv, TypeInv
    <2>3. \A t \in Tests \ handled : pc'[t] \in {"idle", "format", "load", "call", "done", "dead"}
      BY <2>1 DEF LinesInv, IInv, TypeInv
    <2>4. LinesInv'
      BY <2>1, <2>2, <2>3, LinesKept
    <2> QED BY <2>1, <2>4 DEF TapType, FuturesInv, ExitInv
  <1>3. ASSUME UNCHANGED <<handled, known, idx, id, futures, pc, verdict, out>> PROVE TapType' /\ LinesInv'
    <2>1. Written' = Written
      BY <1>3 DEF Written
    <2>2. LinesInv'
      BY <1>3, <2>1, LinesKept DEF LinesInv
    <2> QED BY <1>3, <2>2 DEF TapType
  <1>4. CASE OpenFails
    BY <1>3, <1>4 DEF OpenFails, FuturesInv, ExitInv
  <1>5. CASE Return
    <2>1. \A t \in handled : t < next + 1 => t < next \/ t = next
      BY <1>0 DEF Tests
    <2>2. \A i \in 1 .. Len(futures) : futures[i] <= next => futures[i] <= next + 1 /\ futures[i] # next + 1
      <3>1. \A i \in 1 .. Len(futures) : futures[i] \in Nat
        <4>1. \A t \in Tests : t \in Nat
          BY DEF Tests
        <4> QED BY <1>0, <4>1 DEF FuturesInv
      <3> QED BY <1>0, <3>1
    <2>3. FuturesInv'
      BY <1>5, <2>1, <2>2 DEF Return, FuturesInv
    <2> QED BY <1>3, <1>5, <2>3 DEF Return, ExitInv
  <1>6. CASE EndOfLoop \/ GetSlow \/ GetAcquire \/ GetWait
    <2>1. /\ UNCHANGED <<handled, known, idx, id, futures, pc, verdict, out, next, status>>
          /\ mpc' \in {"get", "acquire", "check", "wait"} /\ mpc # "exited" /\ next > N
      BY <1>6 DEF EndOfLoop, GetSlow, GetAcquire, GetWait, Mpc, FuturesInv
    <2> QED BY <1>3, <2>1 DEF FuturesInv, ExitInv
  <1>7. CASE GetFast \/ GetLocked
    <2>1. /\ UNCHANGED <<handled, known, idx, id, futures, pc, verdict, out, next>>
          /\ mpc' \in {"get", "exited"} /\ mpc \in {"get", "check"} /\ next > N
          /\ status' \in {status, 1}
      BY <1>7 DEF GetFast, GetLocked, Collect, FuturesInv
    <2> QED BY <1>3, <2>1 DEF FuturesInv, ExitInv
  <1>8. CASE Finish
    <2>1. /\ UNCHANGED <<handled, known, idx, id, futures, pc, verdict, out, next, got>>
          /\ mpc' = "exited" /\ mpc = "get" /\ next > N /\ ~Uncollected
          /\ status' = IF tests_failed <= tests_known_fail THEN 0 ELSE 255
      BY <1>8 DEF Finish, FuturesInv
    <2>2. Len(got) = Len(futures)
      BY <1>0, <2>1 DEF Uncollected, IInv, CollectInv, TypeInv
    <2>3. tests_failed' = tests_failed /\ tests_known_fail' = tests_known_fail
      BY <2>1 DEF tests_failed, tests_known_fail, Counted, Tests
    <2>4. ExitInv'
      BY <2>1, <2>2, <2>3 DEF ExitInv
    <2> QED BY <1>3, <2>1, <2>4 DEF FuturesInv
  <1> QED BY <1>1, <1>2, <1>4, <1>5, <1>6, <1>7, <1>8 DEF Main

LEMMA TapHolds == Spec => []TapInv
  <1>1. Init => TapInv
    <2> SUFFICES ASSUME Init PROVE TapInv OBVIOUS
    <2>1. IInv BY RunnerInit
    <2>2. TapType
      BY DEF Init, TapType
    <2>3. FuturesInv
      BY DEF Init, FuturesInv, Tests
    <2>4. ExitInv
      BY ThreadsAssumption DEF Init, ExitInv
    <2>5. LinesInv
      BY DEF Init, LinesInv, Written
    <2> QED BY <2>1, <2>2, <2>3, <2>4, <2>5 DEF TapInv
  <1>2. TapInv /\ [Next]_vars => TapInv'
    <2> SUFFICES ASSUME TapInv, [Next]_vars PROVE TapInv' OBVIOUS
    <2>1. IInv' BY RunnerStep DEF TapInv
    <2>2. CASE UNCHANGED vars
      <3>1. UNCHANGED <<handled, known, mpc, next, pc, idx, id, verdict, out, futures, got, status>>
        BY <2>2 DEF vars, main, const
      <3>2. TapType' /\ FuturesInv'
        BY <3>1 DEF TapInv, TapType, FuturesInv
      <3>3. Written' = Written
        BY <3>1 DEF Written
      <3>4. LinesInv'
        BY <3>1, <3>3, LinesKept DEF TapInv, LinesInv
      <3>5. ExitInv'
        BY <3>1 DEF TapInv, ExitInv, tests_failed, tests_known_fail, Counted, Tests
      <3> QED BY <2>1, <3>2, <3>4, <3>5 DEF TapInv
    <2> QED BY <2>1, <2>2, TapHelper, TapMain DEF Next, TapInv
  <1> QED BY <1>1, <1>2, PTL DEF Spec

\* In the end all futures are there, set and collected.
LEMMA AllCollected ==
  ASSUME TapInv, status \in {0, 255}
  PROVE  /\ Len(futures) \in Nat /\ DOMAIN got = 1 .. Len(futures)
         /\ \A i \in 1 .. Len(futures) :
               /\ futures[i] \in handled /\ futures[i] \in Written /\ id[futures[i]] = i
               /\ got[i] = verdict[futures[i]] /\ verdict[futures[i]] # None
         /\ \A t \in handled : \E i \in 1 .. Len(futures) : futures[i] = t
  <1> USE DEF TapInv, IInv
  <1>1. next > N /\ Len(got) = Len(futures) /\ next \in Nat /\ N \in Nat
        /\ Len(futures) \in Nat /\ DOMAIN got = 1 .. Len(got)
    BY ThreadsAssumption DEF ExitInv, TypeInv
  <1>2. \A t \in Tests : t < next
    BY <1>1 DEF Tests
  <1>3. ASSUME NEW i \in 1 .. Len(futures)
        PROVE  /\ futures[i] \in handled /\ futures[i] \in Written /\ id[futures[i]] = i
               /\ got[i] = verdict[futures[i]] /\ verdict[futures[i]] # None
    <2>1. futures[i] \in handled /\ id[futures[i]] = i /\ futures[i] \in Tests
      BY DEF FuturesInv, TypeInv
    <2>2. set[futures[i]] /\ got[i] = verdict[futures[i]]
      BY <1>1 DEF CollectInv
    <2> QED BY <2>1, <2>2 DEF FutureInv, Written
  <1>4. \A t \in handled : \E i \in 1 .. Len(futures) : futures[i] = t
    BY <1>2 DEF FuturesInv, TypeInv
  <1> QED BY <1>1, <1>3, <1>4

LEMMA VerdictHolds ==
  ASSUME TapInv
  PROVE  Verdict
  <1> SUFFICES ASSUME status \in {0, 255}
               PROVE  /\ \A t \in handled : verdict[t] # None
                      /\ (status = 0) <=> \A t \in handled : verdict[t] = "failed" => t \in known
    BY DEF Verdict
  <1> DEFINE n == Len(futures)
             A == {i \in DOMAIN got : got[i] = "failed" /\ futures[i] \in Tests}
             K == {i \in DOMAIN got : got[i] = "failed" /\ futures[i] \in known}
  <1>1. /\ n \in Nat /\ DOMAIN got = 1 .. n
        /\ \A i \in 1 .. n : /\ futures[i] \in handled
                             /\ got[i] = verdict[futures[i]] /\ verdict[futures[i]] # None
        /\ \A t \in handled : \E i \in 1 .. n : futures[i] = t
        /\ known \subseteq handled /\ handled \subseteq Tests
    BY AllCollected DEF TapInv, TapType, IInv, TypeInv
  <1>2. tests_failed = Cardinality(A) /\ tests_known_fail = Cardinality(K)
    BY DEF tests_failed, tests_known_fail, Counted
  <1>3. K \subseteq A /\ A \subseteq 1 .. n
    BY <1>1
  <1>4. IsFiniteSet(A)
    <2> HIDE DEF n, A
    <2>1. IsFiniteSet(1 .. n)
      BY <1>1, FS_Interval
    <2> QED BY <1>3, <2>1, FS_Subset
  <1>5. Cardinality(A) <= Cardinality(K) <=> A = K
    <2>1. /\ IsFiniteSet(K) /\ Cardinality(K) \in Nat /\ Cardinality(A) \in Nat
          /\ Cardinality(K) <= Cardinality(A)
          /\ Cardinality(K) = Cardinality(A) => K = A
      BY <1>3, <1>4, FS_Subset, FS_CardinalityType
    <2> HIDE DEF A, K
    <2> QED BY <2>1
  <1>6. status = 0 <=> A = K
    BY <1>2, <1>5 DEF TapInv, ExitInv
  <1>7. A = K <=> \A t \in handled : verdict[t] = "failed" => t \in known
    <2>1. ASSUME A = K, NEW t \in handled, verdict[t] = "failed" PROVE t \in known
      BY <1>1, <2>1
    <2>2. ASSUME \A t \in handled : verdict[t] = "failed" => t \in known PROVE A \subseteq K
      BY <1>1, <2>2
    <2> QED BY <1>3, <2>1, <2>2
  <1> QED BY <1>1, <1>6, <1>7

LEMMA TapAgreesHolds ==
  ASSUME TapInv
  PROVE  TapAgrees
  <1> SUFFICES ASSUME status \in {0, 255}
               PROVE  TapAgrees
    BY DEF TapAgrees
  <1> DEFINE n == Len(futures)
             m == Len(out)
             f == [i \in 1 .. m |-> out[i].id]
  <1>1. /\ n \in Nat
        /\ \A i \in 1 .. n : futures[i] \in Written /\ id[futures[i]] = i
        /\ \A t \in handled : \E i \in 1 .. n : futures[i] = t
    BY AllCollected
  <1>2. /\ m \in Nat /\ DOMAIN out = 1 .. m
        /\ \A i \in 1 .. m : /\ out[i].test \in Written /\ out[i].id = id[out[i].test]
                             /\ out[i].status = TapStatus(out[i].test)
        /\ \A t \in Written : \E i \in 1 .. m : out[i].test = t
        /\ \A i, j \in 1 .. m : out[i].test = out[j].test => i = j
    <2> DEFINE L == [status : {"ok", "not ok"}, id : Nat, test : Tests]
    <2>0. out \in Seq(L)
      BY DEF TapInv, TapType
    <2>1. m \in Nat /\ DOMAIN out = 1 .. m
      <3> HIDE DEF L
      <3> QED BY <2>0
    <2> QED BY <2>1 DEF TapInv, LinesInv
  <1>3. Written \subseteq handled
    BY DEF Written
  <1>4. ASSUME NEW t \in Written PROVE id[t] \in 1 .. n /\ futures[id[t]] = t
    <2>1. PICK i \in 1 .. n : futures[i] = t
      BY <1>1, <1>3
    <2> QED BY <1>1, <2>1
  <1> HIDE DEF n, m
  <1>5. f \in Bijection(1 .. m, 1 .. n)
    <2>1. ASSUME NEW i \in 1 .. m PROVE f[i] \in 1 .. n /\ futures[f[i]] = out[i].test
      BY <1>2, <1>4
    <2>2. f \in [1 .. m -> 1 .. n]
      BY <2>1
    <2>3. \A i, j \in 1 .. m : f[i] = f[j] => i = j
      BY <1>2, <2>1
    <2>4. ASSUME NEW k \in 1 .. n PROVE \E i \in 1 .. m : f[i] = k
      <3>1. PICK i \in 1 .. m : out[i].test = futures[k]
        BY <1>1, <1>2
      <3> QED BY <1>1, <1>2, <3>1
    <2> HIDE DEF f
    <2> QED BY <2>2, <2>3, <2>4 DEF Bijection, Injection, Surjection, IsInjective
  <1>6. m = n
    <2>1. IsFiniteSet(1 .. m) /\ Cardinality(1 .. m) = m /\ Cardinality(1 .. n) = n
      BY <1>1, <1>2, FS_Interval
    <2> HIDE DEF f
    <2>2. IsFiniteSet(1 .. m) /\ f \in Bijection(1 .. m, 1 .. n)
      BY <1>5, <2>1
    <2>3. Cardinality(1 .. n) = Cardinality(1 .. m)
      BY <2>2, FS_Bijection DEF ExistsBijection
    <2> QED BY <2>1, <2>3
  <1>7. {out[i].id : i \in DOMAIN out} = 1 .. n
    <2>1. \A i \in 1 .. m : out[i].id \in 1 .. n
      BY <1>2, <1>4
    <2>2. \A k \in 1 .. n : \E i \in 1 .. m : out[i].id = k
      BY <1>1, <1>2
    <2> QED BY <1>2, <2>1, <2>2
  <1>8. /\ \A t \in handled : verdict[t] \in {"passed", "failed"}
        /\ status = 0 <=> \A t \in handled : verdict[t] = "failed" => t \in known
    BY VerdictHolds DEF Verdict, TapInv, IInv, TypeInv
  <1>9. status = 255 => \E i \in DOMAIN out : /\ out[i].status = "not ok"
                                             /\ verdict[out[i].test] = "failed"
    <2> SUFFICES ASSUME status = 255
                 PROVE  \E i \in DOMAIN out : /\ out[i].status = "not ok"
                                              /\ verdict[out[i].test] = "failed"
      OBVIOUS
    <2>1. PICK t \in handled : verdict[t] = "failed" /\ t \notin known
      BY <1>8
    <2>2. TapStatus(t) = "not ok"
      BY <2>1 DEF TapStatus
    <2>3. t \in Written
      BY <1>1
    <2>4. PICK i \in 1 .. m : out[i].test = t
      BY <1>2, <2>3
    <2> QED BY <1>2, <2>1, <2>2, <2>4
  <1>10. status = 0 => \A i \in DOMAIN out :
            out[i].status = "not ok" <=> /\ out[i].test \in known
                                         /\ verdict[out[i].test] = "passed"
    <2> SUFFICES ASSUME status = 0, NEW i \in DOMAIN out
                 PROVE  out[i].status = "not ok" <=> /\ out[i].test \in known
                                                     /\ verdict[out[i].test] = "passed"
      OBVIOUS
    <2> DEFINE t == out[i].test
    <2>1. t \in handled /\ out[i].status = TapStatus(t)
      BY <1>2, <1>3
    <2>2. verdict[t] \in {"passed", "failed"} /\ (verdict[t] = "failed" => t \in known)
      BY <1>8, <2>1
    <2>3. TapStatus(t) = "not ok" <=> t \in known /\ verdict[t] = "passed"
      <3> HIDE DEF t
      <3> QED BY <2>2 DEF TapStatus
    <2> QED BY <2>1, <2>3
  <1> QED BY <1>6, <1>7, <1>9, <1>10 DEF TapAgrees, n, m

\* The exit status of run_test_suite is that of the tests: 0 exactly when
\* every test case with a check-name got a verdict and the failed ones are
\* known to fail, although the code only compares two counts.
THEOREM TestRunnerVerdict == Spec => []Verdict
  BY TapHolds, VerdictHolds, PTL

\* However the helpers interleave, in the end the TAP lines carry the numbers
\* of the plan, once each, and agree with the exit status but for a test known
\* to fail that passes.
THEOREM TestRunnerTapAgrees == Spec => []TapAgrees
  BY TapHolds, TapAgreesHolds, PTL
=============================================================================
