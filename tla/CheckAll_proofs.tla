--------------------------- MODULE CheckAll_proofs ---------------------------
(***************************************************************************)
(* Proofs about CheckAll for every number of declarations and threads: the *)
(* inductive invariant IInv, the safety properties that follow from it,    *)
(* and the implementation of Verdict.                                      *)
(***************************************************************************)
EXTENDS CheckAll, TLAPS

USE NumDeclarsAssumption, NumThreadsAssumption

\* The initial states satisfy the inductive invariant.
LEMMA InitInv == Init => IInv
  BY DEF Init, IInv, TypeOK, DriverInv, OutcomeInv, CounterInv, MainInv, SerialInv,
         NoDeclarLost, NoDeclarTwice, InFlight, Held, Declars, Threads, Outcomes,
         MainStates, WorkerStates, Parallel

\* Every step keeps the inductive invariant.
LEMMA StepInv == IInv /\ [Next]_vars => IInv'
  <1> SUFFICES ASSUME IInv, [Next]_vars PROVE IInv'
    OBVIOUS
  <1> USE DEF IInv
  <1>1. CASE ChooseDriver
    <2>1. TypeOK' BY <1>1 DEF ChooseDriver, TypeOK, MainStates, WorkerStates, Finished, Threads, Declars, workerVars
    <2>2. DriverInv' BY <1>1 DEF ChooseDriver, DriverInv, TypeOK, Parallel, Threads, workerVars
    <2>3. OutcomeInv' BY <1>1 DEF ChooseDriver, OutcomeInv, TypeOK, CounterInv, Declars, workerVars
    <2>4. CounterInv' BY <1>1 DEF ChooseDriver, CounterInv, TypeOK, DriverInv, Parallel, Declars, MainInv, Threads, workerVars
    <2>5. MainInv' BY <1>1 DEF ChooseDriver, MainInv, TypeOK, DriverInv, CounterInv, Threads, Finished, Parallel, WorkerStates, workerVars
    <2>6. SerialInv'
      BY <1>1 DEF ChooseDriver, SerialInv, TypeOK, Parallel, Declars, MainInv, workerVars
    <2>7. NoDeclarLost' BY <1>1 DEF ChooseDriver, NoDeclarLost, TypeOK, CounterInv, InFlight, Held, Declars, workerVars
    <2>8. NoDeclarTwice' BY <1>1 DEF ChooseDriver, NoDeclarTwice, TypeOK, CounterInv, InFlight, Held, Declars, workerVars
    <2> QED BY <2>1, <2>2, <2>3, <2>4, <2>5, <2>6, <2>7, <2>8
  <1>2. CASE SerialCheck
    <2>1. TypeOK'
      <3>1. cursor \in Nat /\ cursor + 1 \in Nat
        BY DEF TypeOK
      <3> QED BY <1>2, <3>1 DEF SerialCheck, TypeOK, MainStates, WorkerStates, workerVars
    <2>2. DriverInv' BY <1>2 DEF SerialCheck, DriverInv, TypeOK, Parallel, Threads, workerVars
    <2>3. OutcomeInv' BY <1>2 DEF SerialCheck, OutcomeInv, TypeOK, CounterInv, Declars, workerVars
    <2>4. CounterInv' BY <1>2 DEF SerialCheck, CounterInv, TypeOK, DriverInv, Parallel, Declars, MainInv, Threads, workerVars
    <2>5. MainInv' BY <1>2 DEF SerialCheck, MainInv, TypeOK, DriverInv, CounterInv, Threads, Finished, Parallel, WorkerStates, workerVars
    <2>6. SerialInv'
      <3>1. CASE outcome[cursor] = "ok"
        <4>1. /\ mpc = "serial" /\ mpc' = mpc
              /\ cursor' = cursor + 1
              /\ checked' = checked \cup {cursor}
              /\ failed' = failed
          BY <1>2, <3>1 DEF SerialCheck
        <4>2. cursor \in Nat /\ \A i \in Declars : i < cursor + 1 <=> i < cursor \/ i = cursor
          BY DEF TypeOK, Declars
        <4> QED BY <4>1, <4>2 DEF SerialInv
      <3>2. CASE outcome[cursor] # "ok"
        BY <1>2, <3>2 DEF SerialCheck, SerialInv, workerVars
      <3> QED BY <3>1, <3>2
    <2>7. NoDeclarLost' BY <1>2 DEF SerialCheck, NoDeclarLost, TypeOK, CounterInv, InFlight, Held, Declars, workerVars
    <2>8. NoDeclarTwice'
      <3>1. \A t \in Threads : wpc[t] = "unspawned"
        BY <1>2 DEF SerialCheck, DriverInv
      <3> QED BY <1>2, <3>1 DEF SerialCheck, NoDeclarTwice, InFlight, Held, workerVars
    <2> QED BY <2>1, <2>2, <2>3, <2>4, <2>5, <2>6, <2>7, <2>8
  <1>3. CASE SerialReturn
    <2>1. TypeOK' BY <1>3 DEF SerialReturn, TypeOK, MainStates, WorkerStates, Finished, Threads, Declars, workerVars
    <2>2. DriverInv' BY <1>3 DEF SerialReturn, DriverInv, TypeOK, Parallel, Threads, workerVars
    <2>3. OutcomeInv' BY <1>3 DEF SerialReturn, OutcomeInv, TypeOK, CounterInv, Declars, workerVars
    <2>4. CounterInv' BY <1>3 DEF SerialReturn, CounterInv, TypeOK, DriverInv, Parallel, Declars, MainInv, Threads, workerVars
    <2>5. MainInv' BY <1>3 DEF SerialReturn, MainInv, TypeOK, DriverInv, CounterInv, Threads, Finished, Parallel, WorkerStates, workerVars
    <2>6. SerialInv'
      <3>1. cursor \notin Declars /\ cursor \in Nat => \A i \in Declars : i < cursor
        BY DEF Declars
      <3> QED BY <1>3, <3>1 DEF SerialReturn, SerialInv, TypeOK, workerVars
    <2>7. NoDeclarLost' BY <1>3 DEF SerialReturn, NoDeclarLost, TypeOK, CounterInv, InFlight, Held, Declars, workerVars
    <2>8. NoDeclarTwice' BY <1>3 DEF SerialReturn, NoDeclarTwice, TypeOK, CounterInv, InFlight, Held, Declars, workerVars
    <2> QED BY <2>1, <2>2, <2>3, <2>4, <2>5, <2>6, <2>7, <2>8
  <1>4. CASE Spawn
    <2>1. TypeOK' BY <1>4 DEF Spawn, TypeOK, MainStates, WorkerStates, Finished, Threads, Declars, workerVars
    <2>2. DriverInv' BY <1>4 DEF Spawn, DriverInv, TypeOK, Parallel, Threads, workerVars
    <2>3. OutcomeInv' BY <1>4 DEF Spawn, OutcomeInv, TypeOK, CounterInv, Declars, workerVars
    <2>4. CounterInv' BY <1>4 DEF Spawn, CounterInv, TypeOK, DriverInv, Parallel, Declars, MainInv, Threads, workerVars
    <2>5. MainInv' BY <1>4 DEF Spawn, MainInv, TypeOK, DriverInv, CounterInv, Threads, Finished, Parallel, WorkerStates, workerVars
    <2>6. SerialInv' BY <1>4 DEF Spawn, SerialInv, TypeOK, DriverInv, Parallel, Declars, MainInv, CounterInv, Threads, workerVars
    <2>7. NoDeclarLost'
      <3>1. \A t \in Threads : wpc[t] = "check" => wpc'[t] = "check"
        BY <1>4 DEF Spawn, TypeOK, MainInv
      <3> QED BY <1>4, <3>1 DEF Spawn, NoDeclarLost, InFlight, Held
    <2>8. NoDeclarTwice' BY <1>4 DEF Spawn, NoDeclarTwice, TypeOK, CounterInv, InFlight, Held, Declars, workerVars
    <2> QED BY <2>1, <2>2, <2>3, <2>4, <2>5, <2>6, <2>7, <2>8
  <1>5. CASE SpawnFails
    <2>1. TypeOK' BY <1>5 DEF SpawnFails, TypeOK, MainStates, WorkerStates, Finished, Threads, Declars, workerVars
    <2>2. DriverInv' BY <1>5 DEF SpawnFails, DriverInv, TypeOK, Parallel, Threads, workerVars
    <2>3. OutcomeInv' BY <1>5 DEF SpawnFails, OutcomeInv, TypeOK, CounterInv, Declars, workerVars
    <2>4. CounterInv' BY <1>5 DEF SpawnFails, CounterInv, TypeOK, DriverInv, Parallel, Declars, MainInv, Threads, workerVars
    <2>5. MainInv' BY <1>5 DEF SpawnFails, MainInv, TypeOK, DriverInv, CounterInv, Threads, Finished, Parallel, WorkerStates, workerVars
    <2>6. SerialInv' BY <1>5 DEF SpawnFails, SerialInv, TypeOK, DriverInv, Parallel, Declars, MainInv, CounterInv, Threads, workerVars
    <2>7. NoDeclarLost' BY <1>5 DEF SpawnFails, NoDeclarLost, TypeOK, CounterInv, InFlight, Held, Declars, workerVars
    <2>8. NoDeclarTwice' BY <1>5 DEF SpawnFails, NoDeclarTwice, TypeOK, CounterInv, InFlight, Held, Declars, workerVars
    <2> QED BY <2>1, <2>2, <2>3, <2>4, <2>5, <2>6, <2>7, <2>8
  <1>6. CASE StartJoining
    <2>1. TypeOK' BY <1>6 DEF StartJoining, TypeOK, MainStates, WorkerStates, Finished, Threads, Declars, workerVars
    <2>2. DriverInv' BY <1>6 DEF StartJoining, DriverInv, TypeOK, Parallel, Threads, workerVars
    <2>3. OutcomeInv' BY <1>6 DEF StartJoining, OutcomeInv, TypeOK, CounterInv, Declars, workerVars
    <2>4. CounterInv' BY <1>6 DEF StartJoining, CounterInv, TypeOK, DriverInv, Parallel, Declars, MainInv, Threads, workerVars
    <2>5. MainInv'
      <3>1. \A t \in Threads : wpc[t] # "unspawned"
        BY <1>6 DEF StartJoining, MainInv, TypeOK, Threads
      <3> QED BY <1>6, <3>1 DEF StartJoining, MainInv, TypeOK, Threads, workerVars
    <2>6. SerialInv' BY <1>6 DEF StartJoining, SerialInv, TypeOK, DriverInv, Parallel, Declars, MainInv, CounterInv, Threads, workerVars
    <2>7. NoDeclarLost' BY <1>6 DEF StartJoining, NoDeclarLost, TypeOK, CounterInv, InFlight, Held, Declars, workerVars
    <2>8. NoDeclarTwice' BY <1>6 DEF StartJoining, NoDeclarTwice, TypeOK, CounterInv, InFlight, Held, Declars, workerVars
    <2> QED BY <2>1, <2>2, <2>3, <2>4, <2>5, <2>6, <2>7, <2>8
  <1>7. CASE Join
    <2>1. TypeOK' BY <1>7 DEF Join, TypeOK, MainStates, WorkerStates, Finished, Threads, Declars, workerVars
    <2>2. DriverInv' BY <1>7 DEF Join, DriverInv, TypeOK, Parallel, Threads, workerVars
    <2>3. OutcomeInv' BY <1>7 DEF Join, OutcomeInv, TypeOK, CounterInv, Declars, workerVars
    <2>4. CounterInv' BY <1>7 DEF Join, CounterInv, TypeOK, DriverInv, Parallel, Declars, MainInv, Threads, workerVars
    <2>5. MainInv' BY <1>7 DEF Join, MainInv, TypeOK, DriverInv, CounterInv, Threads, Finished, Parallel, WorkerStates, workerVars
    <2>6. SerialInv' BY <1>7 DEF Join, SerialInv, TypeOK, DriverInv, Parallel, Declars, MainInv, CounterInv, Threads, workerVars
    <2>7. NoDeclarLost' BY <1>7 DEF Join, NoDeclarLost, TypeOK, CounterInv, InFlight, Held, Declars, workerVars
    <2>8. NoDeclarTwice' BY <1>7 DEF Join, NoDeclarTwice, TypeOK, CounterInv, InFlight, Held, Declars, workerVars
    <2> QED BY <2>1, <2>2, <2>3, <2>4, <2>5, <2>6, <2>7, <2>8
  <1>8. CASE ParReturn
    <2>1. TypeOK' BY <1>8 DEF ParReturn, TypeOK, MainStates, WorkerStates, Finished, Threads, Declars, workerVars
    <2>2. DriverInv' BY <1>8 DEF ParReturn, DriverInv, TypeOK, Parallel, Threads, workerVars
    <2>3. OutcomeInv' BY <1>8 DEF ParReturn, OutcomeInv, TypeOK, CounterInv, Declars, workerVars
    <2>4. CounterInv' BY <1>8 DEF ParReturn, CounterInv, TypeOK, DriverInv, Parallel, Declars, MainInv, Threads, workerVars
    <2>5. MainInv'
      <3>1. \A t \in Threads : wpc[t] = "exited"
        BY <1>8 DEF ParReturn, MainInv, TypeOK, Threads
      <3> QED BY <1>8, <3>1 DEF ParReturn, MainInv, workerVars
    <2>6. SerialInv' BY <1>8 DEF ParReturn, SerialInv, TypeOK, DriverInv, Parallel, Declars, MainInv, CounterInv, Threads, workerVars
    <2>7. NoDeclarLost' BY <1>8 DEF ParReturn, NoDeclarLost, TypeOK, CounterInv, InFlight, Held, Declars, workerVars
    <2>8. NoDeclarTwice' BY <1>8 DEF ParReturn, NoDeclarTwice, TypeOK, CounterInv, InFlight, Held, Declars, workerVars
    <2> QED BY <2>1, <2>2, <2>3, <2>4, <2>5, <2>6, <2>7, <2>8
  <1>9. CASE Unwound
    <2>1. TypeOK' BY <1>9 DEF Unwound, TypeOK, MainStates, WorkerStates, Finished, Threads, Declars, workerVars
    <2>2. DriverInv' BY <1>9 DEF Unwound, DriverInv, TypeOK, Parallel, Threads, workerVars
    <2>3. OutcomeInv' BY <1>9 DEF Unwound, OutcomeInv, TypeOK, CounterInv, Declars, workerVars
    <2>4. CounterInv' BY <1>9 DEF Unwound, CounterInv, TypeOK, DriverInv, Parallel, Declars, MainInv, Threads, workerVars
    <2>5. MainInv' BY <1>9 DEF Unwound, MainInv, TypeOK, DriverInv, CounterInv, Threads, Finished, Parallel, WorkerStates, workerVars
    <2>6. SerialInv' BY <1>9 DEF Unwound, SerialInv, TypeOK, DriverInv, Parallel, Declars, MainInv, CounterInv, Threads, workerVars
    <2>7. NoDeclarLost' BY <1>9 DEF Unwound, NoDeclarLost, TypeOK, CounterInv, InFlight, Held, Declars, workerVars
    <2>8. NoDeclarTwice' BY <1>9 DEF Unwound, NoDeclarTwice, TypeOK, CounterInv, InFlight, Held, Declars, workerVars
    <2> QED BY <2>1, <2>2, <2>3, <2>4, <2>5, <2>6, <2>7, <2>8
  <1>10. ASSUME NEW t \in Threads, Fetch(t) PROVE IInv'
    <2>1. TypeOK' BY <1>10 DEF Fetch, TypeOK, MainStates, WorkerStates, Finished, Threads, Declars, workerVars
    <2>2. DriverInv' BY <1>10 DEF Fetch, DriverInv, TypeOK, Parallel, Threads, workerVars
    <2>3. OutcomeInv' BY <1>10 DEF Fetch, OutcomeInv, TypeOK, CounterInv, Declars, workerVars
    <2>4. CounterInv' BY <1>10 DEF Fetch, CounterInv, TypeOK, DriverInv, Parallel, Declars, MainInv, Threads, workerVars
    <2>5. MainInv' BY <1>10 DEF Fetch, MainInv, TypeOK, DriverInv, CounterInv, Threads, Finished, Parallel, WorkerStates, workerVars
    <2>6. SerialInv' BY <1>10 DEF Fetch, SerialInv, TypeOK, DriverInv, Parallel, Declars, MainInv, CounterInv, Threads, workerVars
    <2>7. NoDeclarLost' BY <1>10 DEF Fetch, NoDeclarLost, TypeOK, CounterInv, InFlight, Held, Declars, workerVars
    <2>8. NoDeclarTwice'
      <3>1. Parallel
        BY <1>10 DEF Fetch, DriverInv
      <3>2. \A s \in Threads \ {t} : wpc'[s] = wpc[s] /\ idx'[s] = idx[s]
        BY <1>10 DEF Fetch, TypeOK
      <3>3. wpc'[t] = "check" => idx'[t] = task_num
        BY <1>10 DEF Fetch, TypeOK
      <3>4. \A s \in Threads : wpc[s] = "check" => idx[s] < task_num
        BY DEF CounterInv
      <3>5. \A i \in checked \cup failed : i < task_num
        BY <3>1 DEF CounterInv
      <3>6. task_num \in Nat /\ idx \in [Threads -> Nat]
        BY DEF TypeOK
      <3>7. (\A r, s \in Threads :
               r # s /\ wpc[r] = "check" /\ wpc[s] = "check" => idx[r] # idx[s])'
        BY <3>2, <3>3, <3>4, <3>6 DEF NoDeclarTwice
      <3>8. task_num \notin checked \cup failed
        BY <3>5, <3>6
      <3>9. \A s \in Threads : wpc'[s] = "check" => idx'[s] \notin checked \cup failed
        <4>1. \A s \in Threads : wpc[s] = "check" => idx[s] \notin checked \cup failed
          BY DEF NoDeclarTwice, InFlight, Held, CounterInv
        <4> QED BY <4>1, <3>2, <3>3, <3>8
      <3>10. checked' = checked /\ failed' = failed
        BY <1>10 DEF Fetch
      <3> QED BY <3>7, <3>9, <3>10 DEF NoDeclarTwice, InFlight, Held
    <2> QED BY <2>1, <2>2, <2>3, <2>4, <2>5, <2>6, <2>7, <2>8
  <1>11. ASSUME NEW t \in Threads, CheckDeclar(t) PROVE IInv'
    <2>1. TypeOK' BY <1>11 DEF CheckDeclar, CounterInv, TypeOK, MainStates, WorkerStates, Finished, Threads, Declars, workerVars
    <2>2. DriverInv' BY <1>11 DEF CheckDeclar, DriverInv, TypeOK, Parallel, Threads, workerVars
    <2>3. OutcomeInv' BY <1>11 DEF CheckDeclar, OutcomeInv, TypeOK, CounterInv, Declars, workerVars
    <2>4. CounterInv' BY <1>11 DEF CheckDeclar, CounterInv, TypeOK, DriverInv, Parallel, Declars, MainInv, Threads, workerVars
    <2>5. MainInv' BY <1>11 DEF CheckDeclar, MainInv, TypeOK, DriverInv, CounterInv, Threads, Finished, Parallel, WorkerStates, workerVars
    <2>6. SerialInv' BY <1>11 DEF CheckDeclar, SerialInv, TypeOK, DriverInv, Parallel, Declars, MainInv, CounterInv, Threads, workerVars
    <2>7. NoDeclarLost' BY <1>11 DEF CheckDeclar, NoDeclarLost, TypeOK, CounterInv, InFlight, Held, Declars, workerVars
    <2>8. NoDeclarTwice' BY <1>11 DEF CheckDeclar, NoDeclarTwice, TypeOK, CounterInv, InFlight, Held, Declars, workerVars
    <2> QED BY <2>1, <2>2, <2>3, <2>4, <2>5, <2>6, <2>7, <2>8
  <1>12. CASE UNCHANGED vars
    BY <1>12 DEF vars, TypeOK, DriverInv, OutcomeInv, CounterInv, MainInv, SerialInv, NoDeclarLost, NoDeclarTwice, InFlight, Held
  <1> QED BY <1>1, <1>2, <1>3, <1>4, <1>5, <1>6, <1>7, <1>8, <1>9, <1>10, <1>11, <1>12 DEF Next, Main, Worker, Done

-----------------------------------------------------------------------------
\* The inductive invariant holds in every reachable state, for every number
\* of declarations and threads and every assignment of check results.
THEOREM Invariance == Spec => []IInv
  BY InitInv, StepInv, PTL DEF Spec

\* Type correctness of the drivers' state.
THEOREM TypeCorrect == Spec => []TypeOK
  <1>1. IInv => TypeOK
    BY DEF IInv
  <1> QED BY <1>1, Invariance, PTL

\* Every index taken from the shared counter is accounted for: the atomic
\* fetch_add loop of check_all_declars_par skips no declaration.
THEOREM NothingLost == Spec => []NoDeclarLost
  <1>1. IInv => NoDeclarLost
    BY DEF IInv
  <1> QED BY <1>1, Invariance, PTL

\* No declaration is checked by two workers, nor a second time.
THEOREM NothingTwice == Spec => []NoDeclarTwice
  <1>1. IInv => NoDeclarTwice
    BY DEF IInv
  <1> QED BY <1>1, Invariance, PTL

\* In an accepting state every declaration has been checked.
LEMMA AcceptedCovers == IInv /\ mpc = "accepted" => checked = Declars /\ failed = {}
  <1> SUFFICES ASSUME IInv, mpc = "accepted" PROVE checked = Declars /\ failed = {}
    OBVIOUS
  <1>1. CASE ~Parallel
    BY <1>1 DEF IInv, SerialInv
  <1>2. CASE Parallel
    <2>1. \A t \in Threads : wpc[t] = "exited"
      BY <1>2 DEF IInv, MainInv
    <2>2. failed = {}
      BY <1>2, <2>1 DEF IInv, CounterInv, TypeOK
    <2>3. 1 \in Threads
      BY <1>2 DEF Parallel, Threads
    <2>4. task_num >= NumDeclars
      BY <2>1, <2>3 DEF IInv, CounterInv
    <2>5. \A i \in Declars : i < task_num
      BY <2>4 DEF Declars, IInv, TypeOK
    <2>6. InFlight = {}
      BY <2>1 DEF InFlight, Held
    <2>7. Declars \subseteq checked
      BY <2>2, <2>5, <2>6 DEF IInv, NoDeclarLost
    <2> QED BY <2>2, <2>7 DEF IInv, TypeOK
  <1> QED BY <1>1, <1>2

\* check_all_declars returns normally only if every declaration was checked
\* without a panic, for any number of threads.
THEOREM AcceptanceIsSound == Spec => []AcceptedMeansAllChecked
  <1>1. IInv => AcceptedMeansAllChecked
    BY AcceptedCovers DEF IInv, OutcomeInv, MainInv, AcceptedMeansAllChecked
  <1> QED BY <1>1, Invariance, PTL

\* A worker's panic leaves no declaration behind when another worker came to
\* the end of the queue, for any number of threads.
THEOREM SurvivorDrainsTheQueue == Spec => []OneSurvivorDrainsTheQueue
  <1>1. IInv => OneSurvivorDrainsTheQueue
    <2> SUFFICES ASSUME IInv, mpc \in {"rejected", "no_thread"},
                        NEW t \in Threads, wpc[t] = "exited"
                 PROVE  checked \cup failed = Declars
      BY DEF OneSurvivorDrainsTheQueue
    <2>1. \A i \in Declars : i < task_num
      <3>1. task_num >= NumDeclars BY DEF IInv, CounterInv
      <3> QED BY <3>1 DEF Declars, IInv, TypeOK
    <2>2. InFlight = {}
      BY DEF IInv, MainInv, InFlight, Held
    <2>3. Declars \subseteq checked \cup failed
      BY <2>1, <2>2 DEF IInv, NoDeclarLost
    <2> QED BY <2>3 DEF IInv, TypeOK
  <1> QED BY <1>1, Invariance, PTL

-----------------------------------------------------------------------------
(* The drivers implement Verdict: initial states map to initial states, and *)
(* every step maps to a step of Verdict or leaves its variables unchanged.  *)

\* A worker's check is a check of the declaration whose index it holds.
LEMMA WorkerRefines ==
  ASSUME NEW t \in Threads, IInv, CheckDeclar(t)
  PROVE  V!Check(idx[t])
  <1>1. idx[t] \in Declars /\ wpc[t] = "check"
    BY DEF IInv, CounterInv, CheckDeclar
  <1>2. mpc \notin Terminal
    BY <1>1 DEF IInv, MainInv, CheckDeclar, Terminal
  <1>3. idx[t] \notin checked \cup failed
    BY <1>1 DEF IInv, NoDeclarTwice, InFlight, Held
  <1> QED BY <1>1, <1>2, <1>3
          DEF CheckDeclar, V!Check, V!Untouched, AbstractVerdict, Terminal

\* Every step of main maps to a step of Verdict or to a stutter.
LEMMA MainRefines == IInv /\ Main => [V!Next]_V!vars
  <1> SUFFICES ASSUME IInv, Main PROVE [V!Next]_V!vars
    OBVIOUS
  <1> USE DEF AbstractVerdict, Terminal
  <1>1. CASE ChooseDriver \/ Spawn \/ SpawnFails \/ StartJoining \/ Join
    BY <1>1 DEF ChooseDriver, Spawn, SpawnFails, StartJoining, Join, V!vars
  <1>2. CASE SerialCheck
    <2>1. cursor \in Declars /\ cursor \notin checked \cup failed
      BY <1>2 DEF SerialCheck, IInv, DriverInv, SerialInv, TypeOK, Declars
    <2>2. V!Check(cursor)
      BY <1>2, <2>1 DEF SerialCheck, V!Check, V!Untouched
    <2> QED BY <2>1, <2>2 DEF V!Next, V!Declars, Declars
  <1>3. CASE SerialReturn \/ ParReturn
    <2>1. IInv'
      BY <1>3, StepInv DEF Next, Main
    <2>2. mpc' = "accepted" /\ checked' = checked /\ failed' = failed /\ outcome' = outcome
      BY <1>3 DEF SerialReturn, ParReturn
    <2>3. checked = Declars
      <3>1. (IInv /\ mpc = "accepted" => checked = Declars)'
        BY AcceptedCovers, PTL
      <3> QED BY <2>1, <2>2, <3>1 DEF Declars
    <2>4. mpc \notin Terminal
      BY <1>3 DEF SerialReturn, ParReturn
    <2> QED BY <2>2, <2>3, <2>4 DEF V!Next, V!Accept, V!Declars, Declars
  <1>4. CASE Unwound
    BY <1>4 DEF Unwound, V!Next, V!Reject, V!ResourceFailure
  <1> QED BY <1>1, <1>2, <1>3, <1>4 DEF Main

\* check_all_declars implements the abstract verdict, for every number of
\* declarations and threads.
THEOREM DriversImplementVerdict == Spec => ImplementsVerdict
  <1>1. Init => V!Init
    BY DEF Init, V!Init, V!Declars, V!Outcomes, Declars, Outcomes, AbstractVerdict, Terminal
  <1>2. IInv /\ [Next]_vars => [V!Next]_V!vars
    <2> SUFFICES ASSUME IInv, [Next]_vars PROVE [V!Next]_V!vars
      OBVIOUS
    <2>1. CASE Main
      BY <2>1, MainRefines
    <2>2. ASSUME NEW t \in Threads, Fetch(t) PROVE [V!Next]_V!vars
      BY <2>2 DEF Fetch, V!vars, AbstractVerdict
    <2>3. ASSUME NEW t \in Threads, CheckDeclar(t) PROVE [V!Next]_V!vars
      <3>1. idx[t] \in Declars
        BY <2>3 DEF IInv, CounterInv, CheckDeclar
      <3> QED BY <2>3, <3>1, WorkerRefines DEF V!Next, V!Declars, Declars
    <2>4. CASE UNCHANGED vars
      BY <2>4 DEF vars, V!vars, AbstractVerdict
    <2> QED BY <2>1, <2>2, <2>3, <2>4 DEF Next, Worker, Done
  <1> QED BY <1>1, <1>2, Invariance, PTL DEF Spec, ImplementsVerdict, V!Spec
=============================================================================
