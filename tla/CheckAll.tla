------------------------------ MODULE CheckAll ------------------------------
(***************************************************************************)
(* The two drivers that check every declaration of an export file,         *)
(* ExportFile::check_all_declars and its serial and parallel variants      *)
(* (src/src/tc.rs), with main's handling of a panic (src/src/main.rs).     *)
(*                                                                         *)
(* The parallel driver spawns num_threads scoped threads.  They share one  *)
(* atomic counter, task_num: each thread repeatedly takes the next index   *)
(* with fetch_add and checks the declaration at that index, until the      *)
(* index is past the end.  The main thread then joins them in spawn order; *)
(* joining a thread that panicked panics the main thread, and the scope it *)
(* leaves waits for every thread that is still running.                    *)
(*                                                                         *)
(* The check of a declaration is a function of the (immutable) export file *)
(* alone: ExportFile::check_declar builds a fresh LeanDag, TcCtx and       *)
(* TypeChecker for every declaration.  Its result is the rigid variable    *)
(* outcome, so that one run of TLC covers every assignment of results.     *)
(***************************************************************************)
EXTENDS Naturals

CONSTANTS
    NumDeclars,   \* declars.len()
    NumThreads    \* config.num_threads

ASSUME NumDeclarsAssumption == NumDeclars \in Nat
ASSUME NumThreadsAssumption == NumThreads \in Nat

Declars == 0 .. NumDeclars - 1
Threads == 1 .. NumThreads
Outcomes == {"ok", "panic", "abort"}

VARIABLES
    outcome,    \* outcome[d]: how check_declar(d) ends; rigid
    task_num,   \* the shared AtomicUsize
    wpc,        \* wpc[t]: where worker t is
    idx,        \* idx[t]: the index worker t took last
    mpc,        \* where the main thread is
    cursor,     \* main: next declaration (serial), next thread (spawn, join)
    checked,    \* history: declarations whose check returned
    failed      \* history: declarations whose check panicked

vars == <<outcome, task_num, wpc, idx, mpc, cursor, checked, failed>>
workerVars == <<task_num, wpc, idx>>

\* "unwinding" is thread::scope's wait after its closure panicked.
MainStates == {"start", "serial", "spawn", "join", "unwinding",
               "accepted", "rejected", "no_thread", "aborted"}
WorkerStates == {"unspawned", "fetch", "check", "exited", "panicked"}

Finished == {"exited", "panicked"}
Terminal == {"accepted", "rejected", "no_thread", "aborted"}

TypeOK ==
    /\ outcome \in [Declars -> Outcomes]
    /\ task_num \in Nat
    /\ wpc \in [Threads -> WorkerStates]
    /\ idx \in [Threads -> Nat]
    /\ mpc \in MainStates
    /\ cursor \in Nat
    /\ checked \subseteq Declars
    /\ failed \subseteq Declars

Init ==
    /\ outcome \in [Declars -> Outcomes]
    /\ task_num = 0
    /\ wpc = [t \in Threads |-> "unspawned"]
    /\ idx = [t \in Threads |-> 0]
    /\ mpc = "start"
    /\ cursor = 0
    /\ checked = {}
    /\ failed = {}

-----------------------------------------------------------------------------
(* check_all_declars: one thread (or none configured) means the serial     *)
(* driver on the calling thread.                                           *)
ChooseDriver ==
    /\ mpc = "start"
    /\ IF NumThreads > 1
          THEN mpc' = "spawn" /\ cursor' = 1
          ELSE mpc' = "serial" /\ cursor' = 0
    /\ UNCHANGED <<outcome, workerVars, checked, failed>>

(* check_all_declars_serial: the first declaration that panics ends it.    *)
SerialCheck ==
    /\ mpc = "serial"
    /\ cursor \in Declars
    /\ \/ /\ outcome[cursor] = "ok"
          /\ checked' = checked \cup {cursor}
          /\ cursor' = cursor + 1
          /\ UNCHANGED <<failed, mpc>>
       \/ /\ outcome[cursor] = "panic"
          /\ failed' = failed \cup {cursor}
          /\ mpc' = "unwinding"
          /\ UNCHANGED <<cursor, checked>>
       \/ /\ outcome[cursor] = "abort"
          /\ mpc' = "aborted"
          /\ UNCHANGED <<cursor, checked, failed>>
    /\ UNCHANGED <<outcome, workerVars>>

SerialReturn ==
    /\ mpc = "serial"
    /\ cursor \notin Declars
    /\ mpc' = "accepted"
    /\ UNCHANGED <<outcome, workerVars, cursor, checked, failed>>

-----------------------------------------------------------------------------
(* check_all_declars_par, the main thread.                                 *)

\* A spawned worker may run before the next one is spawned.
Spawn ==
    /\ mpc = "spawn"
    /\ cursor \in Threads
    /\ wpc' = [wpc EXCEPT ![cursor] = "fetch"]
    /\ cursor' = cursor + 1
    /\ UNCHANGED <<outcome, task_num, idx, mpc, checked, failed>>

\* spawn_scoped(..).unwrap(): the panic leaves the scope's closure before any
\* thread is joined; the scope still waits for those that were started.
SpawnFails ==
    /\ mpc = "spawn"
    /\ cursor \in Threads
    /\ mpc' = "unwinding"
    /\ UNCHANGED <<outcome, workerVars, cursor, checked, failed>>

StartJoining ==
    /\ mpc = "spawn"
    /\ cursor \notin Threads
    /\ mpc' = "join"
    /\ cursor' = 1
    /\ UNCHANGED <<outcome, workerVars, checked, failed>>

\* Mutant of Join: the join's result is dropped (let _ = t.join()).
JoinIgnoringPanics ==
    /\ mpc = "join"
    /\ cursor \in Threads
    /\ wpc[cursor] \in Finished
    /\ cursor' = cursor + 1
    /\ UNCHANGED <<outcome, workerVars, mpc, checked, failed>>

\* t.join().expect(..): blocks until thread cursor has finished.
Join ==
    /\ mpc = "join"
    /\ cursor \in Threads
    /\ wpc[cursor] \in Finished
    /\ IF wpc[cursor] = "panicked"
          THEN mpc' = "unwinding" /\ UNCHANGED cursor
          ELSE cursor' = cursor + 1 /\ UNCHANGED mpc
    /\ UNCHANGED <<outcome, workerVars, checked, failed>>

ParReturn ==
    /\ mpc = "join"
    /\ cursor \notin Threads
    /\ mpc' = "accepted"
    /\ UNCHANGED <<outcome, workerVars, cursor, checked, failed>>

\* Mutant of Unwound: the panic leaves the scope without waiting.
UnwoundWithoutWaiting ==
    /\ mpc = "unwinding"
    /\ mpc' = IF failed # {} THEN "rejected" ELSE "no_thread"
    /\ UNCHANGED <<outcome, workerVars, cursor, checked, failed>>

\* thread::scope lets the panic out once every thread it started is done;
\* main's own join then fails with "the checker thread panicked".
Unwound ==
    /\ mpc = "unwinding"
    /\ \A t \in Threads : wpc[t] \in Finished \cup {"unspawned"}
    /\ mpc' = IF failed # {} THEN "rejected" ELSE "no_thread"
    /\ UNCHANGED <<outcome, workerVars, cursor, checked, failed>>

-----------------------------------------------------------------------------
(* check_all_declars_par, worker t.                                        *)

\* Mutant of Fetch: a load followed by a store loses an update when another
\* worker is at the same point.
FetchLoadStore(t) ==
    /\ mpc # "aborted"
    /\ wpc[t] = "fetch"
    /\ idx' = [idx EXCEPT ![t] = task_num]
    /\ task_num' = IF \E s \in Threads \ {t} : wpc[s] = "fetch" THEN task_num ELSE task_num + 1
    /\ wpc' = [wpc EXCEPT ![t] = IF task_num \in Declars THEN "check" ELSE "exited"]
    /\ UNCHANGED <<outcome, mpc, cursor, checked, failed>>

\* Mutant of Fetch: the bound is tested on the incremented counter.
FetchOffByOne(t) ==
    /\ mpc # "aborted"
    /\ wpc[t] = "fetch"
    /\ idx' = [idx EXCEPT ![t] = task_num]
    /\ task_num' = task_num + 1
    /\ wpc' = [wpc EXCEPT ![t] = IF task_num + 1 \in Declars THEN "check" ELSE "exited"]
    /\ UNCHANGED <<outcome, mpc, cursor, checked, failed>>

\* let idx = task_num.fetch_add(1, Relaxed), then declars.get_index(idx):
\* the map is immutable, so the lookup takes no step of its own.
Fetch(t) ==
    /\ mpc # "aborted"
    /\ wpc[t] = "fetch"
    /\ idx' = [idx EXCEPT ![t] = task_num]
    /\ task_num' = task_num + 1
    /\ wpc' = [wpc EXCEPT ![t] = IF task_num \in Declars THEN "check" ELSE "exited"]
    /\ UNCHANGED <<outcome, mpc, cursor, checked, failed>>

\* Mutant of CheckDeclar: a panic is caught in the loop and the worker goes
\* on to the next declaration.
CheckDeclarCatchingPanics(t) ==
    /\ mpc # "aborted"
    /\ wpc[t] = "check"
    /\ \/ /\ outcome[idx[t]] \in {"ok", "panic"}
          /\ checked' = IF outcome[idx[t]] = "ok" THEN checked \cup {idx[t]} ELSE checked
          /\ failed' = IF outcome[idx[t]] = "ok" THEN failed ELSE failed \cup {idx[t]}
          /\ wpc' = [wpc EXCEPT ![t] = "fetch"]
          /\ UNCHANGED mpc
       \/ /\ outcome[idx[t]] = "abort"
          /\ mpc' = "aborted"
          /\ UNCHANGED <<wpc, checked, failed>>
    /\ UNCHANGED <<outcome, task_num, idx, cursor>>

\* self.check_declar(declar)
CheckDeclar(t) ==
    /\ mpc # "aborted"
    /\ wpc[t] = "check"
    /\ \/ /\ outcome[idx[t]] = "ok"
          /\ checked' = checked \cup {idx[t]}
          /\ wpc' = [wpc EXCEPT ![t] = "fetch"]
          /\ UNCHANGED <<failed, mpc>>
       \/ /\ outcome[idx[t]] = "panic"
          /\ failed' = failed \cup {idx[t]}
          /\ wpc' = [wpc EXCEPT ![t] = "panicked"]
          /\ UNCHANGED <<checked, mpc>>
       \/ /\ outcome[idx[t]] = "abort"
          /\ mpc' = "aborted"
          /\ UNCHANGED <<wpc, checked, failed>>
    /\ UNCHANGED <<outcome, task_num, idx, cursor>>

\* The process is over; nothing runs any more.
Done ==
    /\ mpc \in Terminal
    /\ UNCHANGED vars

Main == \/ ChooseDriver \/ SerialCheck \/ SerialReturn
        \/ Spawn \/ SpawnFails \/ StartJoining \/ Join \/ ParReturn \/ Unwound

Worker(t) == Fetch(t) \/ CheckDeclar(t)

Next == Main \/ (\E t \in Threads : Worker(t)) \/ Done

Spec == Init /\ [][Next]_vars

\* The operating system schedules every runnable thread, and a check that
\* neither panics nor overflows the stack returns.
FairSpec == Spec /\ WF_vars(Main) /\ \A t \in Threads : WF_vars(Worker(t))

-----------------------------------------------------------------------------
(* Properties.                                                             *)

\* Indices are handed out without gaps and without repetition: whatever has
\* been taken from the counter was checked, failed, or is in the hands of
\* exactly one worker.
Held(t) == {idx[t]} \cap {i \in Declars : wpc[t] = "check"}

InFlight == UNION {Held(t) : t \in Threads}

\* Every index below the counter is accounted for: no declaration is skipped
\* between two workers' fetch_add, however they interleave.
NoDeclarLost ==
    \A i \in Declars : i < task_num => i \in checked \cup failed \cup InFlight

\* No declaration is handed to two workers or checked a second time.
NoDeclarTwice ==
    /\ \A s, t \in Threads :
          s # t /\ wpc[s] = "check" /\ wpc[t] = "check" => idx[s] # idx[t]
    /\ InFlight \cap (checked \cup failed) = {}

\* check_all_declars returns to use_config only when every declaration was
\* checked and none failed; by then no worker is still checking.
AcceptedMeansAllChecked ==
    mpc = "accepted" =>
        /\ checked = Declars
        /\ \A d \in Declars : outcome[d] = "ok"
        /\ \A t \in Threads : wpc[t] \notin {"fetch", "check"}

\* A worker that panics does not take work from the others: as long as one
\* worker leaves the loop in the normal way, every declaration is attempted
\* before the run is rejected.
OneSurvivorDrainsTheQueue ==
    mpc \in {"rejected", "no_thread"} /\ (\E t \in Threads : wpc[t] = "exited")
        => checked \cup failed = Declars

\* The inductive invariant behind the safety properties.  The two drivers are
\* told apart by the constant that selects them.
Parallel == NumThreads > 1

DriverInv ==
    IF Parallel THEN mpc # "serial"
    ELSE mpc \notin {"spawn", "join"} /\ \A t \in Threads : wpc[t] = "unspawned"

\* Results are booked under the declaration they belong to.
OutcomeInv ==
    /\ \A i \in checked : outcome[i] = "ok"
    /\ \A i \in failed : outcome[i] = "panic"

\* The counter is ahead of everything handed out.
CounterInv ==
    /\ \A i \in checked \cup failed : Parallel => i < task_num
    /\ \A t \in Threads : wpc[t] = "check" => idx[t] \in Declars /\ idx[t] < task_num
    /\ \A t \in Threads : wpc[t] = "exited" => task_num >= NumDeclars
    /\ Parallel => \A i \in failed : \E t \in Threads : wpc[t] = "panicked"

\* How far main has come bounds what the workers can be doing.
MainInv ==
    /\ mpc = "start" => (\A t \in Threads : wpc[t] = "unspawned") /\ checked = {} /\ failed = {}
    /\ mpc \in {"spawn", "join"} => cursor >= 1
    /\ mpc = "spawn" => \A t \in Threads : wpc[t] = "unspawned" <=> t >= cursor
    /\ mpc = "join" => \A t \in Threads : /\ wpc[t] # "unspawned"
                                          /\ t < cursor => wpc[t] = "exited"
    /\ mpc = "accepted" /\ Parallel => \A t \in Threads : wpc[t] = "exited"
    /\ mpc \in {"accepted", "rejected", "no_thread"} =>
          \A t \in Threads : wpc[t] \notin {"fetch", "check"}

SerialInv ==
    ~Parallel =>
        /\ mpc = "serial" => failed = {} /\ \A i \in Declars : i < cursor <=> i \in checked
        /\ mpc = "accepted" => failed = {} /\ checked = Declars

IInv == /\ TypeOK
        /\ DriverInv
        /\ OutcomeInv
        /\ CounterInv
        /\ MainInv
        /\ SerialInv
        /\ NoDeclarLost
        /\ NoDeclarTwice

\* The run ends, and its verdict is the file's: a file without a bad
\* declaration is accepted and a file with one is not, whatever the schedule
\* and whichever driver ran.  Only a refused thread can spoil it.
VerdictIsTheFiles ==
    /\ (\A d \in Declars : outcome[d] = "ok") => <>(mpc \in {"accepted", "no_thread"})
    /\ (\E d \in Declars : outcome[d] # "ok") => <>(mpc \in Terminal \ {"accepted"})

\* What a caller of check_all_declars can see of where the run stands.
AbstractVerdict ==
    IF mpc \in Terminal THEN mpc ELSE "running"

V == INSTANCE Verdict WITH verdict <- AbstractVerdict

\* Every behaviour of the drivers is a behaviour of Verdict: a declaration is
\* checked at most once, acceptance needs every one of them and rejection a
\* reason.
ImplementsVerdict == V!Spec
=============================================================================
