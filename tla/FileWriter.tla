----------------------------- MODULE FileWriter -----------------------------
(***************************************************************************)
(* examples/c/fs-hsm.c: a file is written and synced by a worker thread,   *)
(* which wakes the loop with ev_async_send; the loop thread drives a state *)
(* machine (engine hsm.c) and kicks the worker through worker_busy, under  *)
(* a mutex and a condition variable.  One action is one critical section   *)
(* or one access to shared memory of one of the two threads.               *)
(***************************************************************************)
EXTENDS Naturals, Sequences

CONSTANTS
  FW_CHUNKS,
  CANFAIL      \* whether write and fsync may fail

ASSUME FwAssumption == FW_CHUNKS \in Nat \ {0}

VARIABLES
  current,     \* fw->hsm.current
  result, worker_busy, worker_phase, quit,
  done_sent,   \* done_async has been sent and not yet been delivered
  file,        \* the chunks in the file, and how many of them are synced
  worker, main \* program counters: worker_main; main with its callbacks

fw_vars ==
  <<current, result, worker_busy, worker_phase, quit, done_sent, file, worker, main>>

FwTree ==
  [TOP |-> "NULL", IDLE |-> "TOP", BUSY |-> "TOP", WRITING |-> "BUSY",
   SYNCING |-> "BUSY", DONE |-> "IDLE", FAILED |-> "IDLE"]

FwHsm == INSTANCE HsmOps WITH States <- DOMAIN FwTree, parent <- FwTree, NULL <- "NULL"

FwTable(s) ==
  CASE s = "IDLE"    -> <<FwHsm!Trans("WRITE_REQ", "WRITING", "none", "start_write", "external")>>
    [] s = "BUSY"    -> <<FwHsm!Trans("WORKER_FAIL", "FAILED", "none", "none", "external")>>
    [] s = "WRITING" -> <<FwHsm!Trans("WRITE_DONE", "SYNCING", "none", "none", "external")>>
    [] s = "SYNCING" -> <<FwHsm!Trans("SYNC_DONE", "DONE", "none", "none", "external")>>
    [] OTHER         -> <<>>

\* Where hsm_dispatch leaves the machine: no state has an entry or exit action.
After(event) ==
  LET found == FwHsm!Handler([s \in DOMAIN FwTree |-> FwTable(s)], current, event, {})
  IN  IF found = <<>> THEN current ELSE Head(found).target

FwInit ==
  /\ current = "IDLE"
  /\ result = 0 /\ worker_busy = FALSE /\ worker_phase = FALSE /\ quit = FALSE
  /\ done_sent = FALSE
  /\ file = [written |-> 0, synced |-> 0]
  /\ worker = "test" /\ main = "loop"

-----------------------------------------------------------------------------
\* The worker holds the lock and tests its flags; pthread_cond_wait releases it.
WorkerTests ==
  /\ worker = "test"
  /\ \/ quit /\ worker' = "end"
     \/ ~quit /\ ~worker_busy /\ worker' = "waiting"
     \/ ~quit /\ worker_busy /\ worker' = IF worker_phase THEN "sync" ELSE "write"
  /\ UNCHANGED <<current, result, worker_busy, worker_phase, quit, done_sent, file, main>>

\* POSIX lets pthread_cond_wait return without a signal.
SpuriousWakeup ==
  /\ worker = "waiting"
  /\ worker' = "test"
  /\ UNCHANGED <<current, result, worker_busy, worker_phase, quit, done_sent, file, main>>

\* One turn of the chunk loop; a short write ends it, and no fsync follows.
WorkerWrites ==
  /\ worker = "write"
  /\ \/ /\ file' = [file EXCEPT !.written = @ + 1]
        /\ worker' = IF file'.written % FW_CHUNKS = 0 THEN "sync" ELSE "write"
        /\ UNCHANGED result
     \/ /\ CANFAIL
        /\ result' = 1
        /\ worker' = "send"
        /\ UNCHANGED file
  /\ UNCHANGED <<current, worker_busy, worker_phase, quit, done_sent, main>>

\* fsync; the result of the writes, 0, is overwritten.
WorkerSyncs ==
  /\ worker = "sync"
  /\ \/ result' = 0 /\ file' = [file EXCEPT !.synced = file.written]
     \/ CANFAIL /\ result' = 1 /\ UNCHANGED file
  /\ worker' = "send"
  /\ UNCHANGED <<current, worker_busy, worker_phase, quit, done_sent, main>>

WorkerSends ==
  /\ worker = "send"
  /\ done_sent' = TRUE
  /\ worker' = "release"
  /\ UNCHANGED <<current, result, worker_busy, worker_phase, quit, file, main>>

\* The critical section that marks the worker idle, whatever was asked since.
WorkerReleases ==
  /\ worker = "release"
  /\ worker_busy' = FALSE
  /\ worker' = "test"
  /\ UNCHANGED <<current, result, worker_phase, quit, done_sent, file, main>>

Worker ==
  WorkerTests \/ WorkerWrites \/ WorkerSyncs \/ WorkerSends \/ WorkerReleases

-----------------------------------------------------------------------------
Signalled == IF worker = "waiting" THEN "test" ELSE worker

\* Bug: the kick for the fsync does not say that it is one.
KickForWrite(phase) ==
  worker_busy' = TRUE /\ worker_phase' = FALSE /\ worker' = Signalled

\* The critical section that asks the worker for something.
Kick(phase) ==
  worker_busy' = TRUE /\ worker_phase' = phase /\ worker' = Signalled

\* step_cb, once: hsm_dispatch runs act_start_write, then changes the state.
step_cb ==
  /\ main = "loop" /\ current = "IDLE"
  /\ Kick(FALSE)
  /\ current' = After("WRITE_REQ")
  /\ UNCHANGED <<result, quit, done_sent, file, main>>

\* What done_async_cb makes of the worker's answer
Event ==
  IF result # 0 THEN "WORKER_FAIL"
  ELSE IF FwHsm!IsIn(current, "WRITING") THEN "WRITE_DONE" ELSE "SYNC_DONE"

\* done_async_cb: dispatch, then kick the worker or break the loop.
done_async_cb ==
  /\ main = "loop" /\ done_sent
  /\ done_sent' = FALSE
  /\ current' = After(Event)
  /\ main' = IF Event = "WRITE_DONE" THEN "kick" ELSE "broken"
  /\ UNCHANGED <<result, worker_busy, worker_phase, quit, file, worker>>

done_async_kick ==
  /\ main = "kick"
  /\ Kick(TRUE)
  /\ main' = "loop"
  /\ UNCHANGED <<current, result, quit, done_sent, file>>

\* Bug: the worker is not woken to see that it has to quit.
QuitUnsignalled ==
  /\ main = "broken"
  /\ quit' = TRUE
  /\ main' = "join"
  /\ UNCHANGED <<current, result, worker_busy, worker_phase, done_sent, file, worker>>

\* main after ev_run: the critical section that tells the worker to quit
MainQuits ==
  /\ main = "broken"
  /\ quit' = TRUE /\ worker' = Signalled
  /\ main' = "join"
  /\ UNCHANGED <<current, result, worker_busy, worker_phase, done_sent, file>>

\* pthread_join, after which main closes the file
MainJoins ==
  /\ main = "join" /\ worker = "end"
  /\ main' = "end"
  /\ UNCHANGED <<current, result, worker_busy, worker_phase, quit, done_sent, file, worker>>

Main == step_cb \/ done_async_cb \/ done_async_kick \/ MainQuits \/ MainJoins

FwNext == Worker \/ SpuriousWakeup \/ Main

FwSpec == FwInit /\ [][FwNext]_fw_vars

\* Each thread is scheduled; a wakeup without a reason need not happen.
FwFairness == WF_fw_vars(Worker) /\ WF_fw_vars(Main)

-----------------------------------------------------------------------------
(***************************************************************************)
(* DONE says what the self-check of main tests: the file has exactly the   *)
(* chunks of one request, and the fsync came after the last of them.       *)
(***************************************************************************)
DoneIsDurable ==
  current = "DONE" => file = [written |-> FW_CHUNKS, synced |-> FW_CHUNKS]

(***************************************************************************)
(* fw->result has no lock: the worker must not be able to write it from    *)
(* the moment it has sent its wakeup until the callback has read it.       *)
(***************************************************************************)
ResultHandedOver == done_sent => worker \notin {"write", "sync", "send"}

(***************************************************************************)
(* The loop and the worker agree about the file and the result             *)
(* (DoneIsDurable and ResultHandedOver).                                   *)
(***************************************************************************)
FileConsistent == DoneIsDurable /\ ResultHandedOver

\* The callback's kick for the fsync came before the worker's critical section
\* after its answer, which will set worker_busy to false and so undo it.
KickLost == main = "loop" /\ current = "SYNCING" /\ worker = "release" /\ ~done_sent

(***************************************************************************)
(* A request that was made ends: the program leaves the loop and waits for *)
(* the worker, which is not left in pthread_cond_wait by a kick or by the  *)
(* quit flag, wherever it was when they were made.  The one exception is   *)
(* the kick for the fsync that comes too early (KickLost), after which the *)
(* program stays in SYNCING.                                               *)
(***************************************************************************)
EndsUnlessKickLost == current = "WRITING" ~> main = "end" \/ KickLost

(***************************************************************************)
(* The header (fs-hsm.c:11) gives the path of a request as IDLE, WRITING,  *)
(* SYNCING, then DONE or FAILED, which a lost kick interrupts.             *)
(***************************************************************************)
RequestEnds == current = "WRITING" ~> current \in {"DONE", "FAILED"}

=============================================================================
