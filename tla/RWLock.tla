------------------------------- MODULE RWLock -------------------------------
(***************************************************************************)
(* The readers-writer lock of aio_rwlock.py, whose instance                *)
(* model_update_lock keeps weight updates and requests apart.              *)
(*                                                                         *)
(* Coroutines of one event loop use it.  No method awaits anything but     *)
(* _cond.wait() while it holds _lock, so each method is one step up to     *)
(* that wait and another one after it; `sleeping' holds the coroutines in  *)
(* _cond.wait() that no notify_all has woken.                              *)
(***************************************************************************)
EXTENDS Integers

VARIABLES
    readers,          \* _readers
    writer_active,    \* _writer_active
    waiting_writers,  \* _waiting_writers
    sleeping          \* coroutines waiting on _cond, not notified

lock == <<readers, writer_active, waiting_writers, sleeping>>

LockInit ==
    /\ readers = 0
    /\ writer_active = FALSE
    /\ waiting_writers = 0
    /\ sleeping = {}

\* The condition of acquire_reader's wait loop, negated.
MayRead == ~writer_active /\ waiting_writers = 0

\* acquire_reader finds the lock open, or waits.
ReaderEnters ==
    /\ MayRead
    /\ readers' = readers + 1
    /\ UNCHANGED <<writer_active, waiting_writers, sleeping>>

ReaderSleeps(c) ==
    /\ ~MayRead
    /\ sleeping' = sleeping \cup {c}
    /\ UNCHANGED <<readers, writer_active, waiting_writers>>

\* Mutant of Woken: release_reader notifies nobody.
WokenNone(n) == sleeping

\* Who still sleeps after release_reader leaves n readers: the last reader
\* notifies all.
Woken(n) == IF n = 0 THEN {} ELSE sleeping

release_reader ==
    /\ readers' = readers - 1
    /\ sleeping' = Woken(readers - 1)
    /\ UNCHANGED <<writer_active, waiting_writers>>

\* Mutant of MayWrite: a writer does not wait for readers.
MayWriteAmongReaders == ~writer_active

\* The condition of acquire_writer's wait loop, negated.
MayWrite == ~writer_active /\ readers = 0

\* Mutant of WriterEnters: a writer that never waited is uncounted as well.
WriterEntersUncounted(queued) ==
    /\ MayWrite
    /\ writer_active' = TRUE
    /\ waiting_writers' = waiting_writers - 1
    /\ UNCHANGED <<readers, sleeping>>

\* acquire_writer finds the lock free, or waits: queued is 1 for a caller that
\* has waited, which _waiting_writers counts already, and 0 on the call.
WriterEnters(queued) ==
    /\ MayWrite
    /\ writer_active' = TRUE
    /\ waiting_writers' = waiting_writers - queued
    /\ UNCHANGED <<readers, sleeping>>

WriterSleeps(c, queued) ==
    /\ ~MayWrite
    /\ waiting_writers' = waiting_writers + 1 - queued
    /\ sleeping' = sleeping \cup {c}
    /\ UNCHANGED <<readers, writer_active>>

release_writer ==
    /\ writer_active' = FALSE
    /\ sleeping' = {}
    /\ UNCHANGED <<readers, waiting_writers>>

is_locked == writer_active \/ readers > 0
=============================================================================
