----------------------------- MODULE SqliteLock -----------------------------
(***************************************************************************)
(* The read-write lock of dbd_sqlite.c: many readers or one writer, made   *)
(* of a mutex and one condition variable.  Every function of the driver    *)
(* takes it once, for reading or for writing, around its statement.  The   *)
(* body of sqlite_lock's loop and all of sqlite_unlock run under the       *)
(* mutex, so each is one step; pthread_cond_wait may return without cause. *)
(***************************************************************************)
EXTENDS Integers, FiniteSets

CONSTANTS Threads,      \* threads that call the driver
          NullThread    \* null_thread

ASSUME LockAssumption == IsFiniteSet(Threads) /\ NullThread \notin Threads

VARIABLES read_threads, write_level, write_thread,
          at,           \* Threads -> where the thread is
          asleep        \* the threads in pthread_cond_wait
lockVars == <<read_threads, write_level, write_thread, at, asleep>>

Places == {"out", "wants read", "wants write", "reads", "writes"}
Free == write_thread = NullThread

LockTypeOK == /\ read_threads \in Nat /\ write_level \in Nat
              /\ write_thread \in Threads \cup {NullThread}
              /\ at \in [Threads -> Places] /\ asleep \subseteq Threads

LockInit == /\ read_threads = 0 /\ write_level = 0 /\ write_thread = NullThread
            /\ at = [t \in Threads |-> "out"] /\ asleep = {}

\* A thread calls a function of the driver.
Enter(t, write) == /\ at[t] = "out"
                   /\ at' = [at EXCEPT ![t] = IF write THEN "wants write" ELSE "wants read"]
                   /\ UNCHANGED <<read_threads, write_level, write_thread, asleep>>

\* sqlite_lock(1): one turn of the loop.
CanWrite(t) == (Free /\ read_threads < 1) \/ write_thread = t
sqlite_lock_write(t) ==
  /\ at[t] = "wants write" /\ t \notin asleep
  /\ IF CanWrite(t)
       THEN /\ write_level' = write_level + 1 /\ write_thread' = t
            /\ at' = [at EXCEPT ![t] = "writes"] /\ asleep' = asleep
       ELSE asleep' = asleep \cup {t} /\ UNCHANGED <<write_level, write_thread, at>>
  /\ read_threads' = read_threads

\* sqlite_lock(0): one turn of the loop.
CanRead(t) == Free \/ write_thread = t
sqlite_lock_read(t) ==
  /\ at[t] = "wants read" /\ t \notin asleep
  /\ IF CanRead(t)
       THEN /\ read_threads' = read_threads + 1
            /\ at' = [at EXCEPT ![t] = "reads"] /\ asleep' = asleep
       ELSE asleep' = asleep \cup {t} /\ UNCHANGED <<read_threads, at>>
  /\ UNCHANGED <<write_level, write_thread>>

sqlite_unlock_write(t) ==
  /\ at[t] = "writes" /\ at' = [at EXCEPT ![t] = "out"]
  /\ write_level' = write_level - 1
  /\ IF write_level' = 0 THEN write_thread' = NullThread /\ asleep' = {}
                         ELSE UNCHANGED <<write_thread, asleep>>
  /\ read_threads' = read_threads
\* Mutant: the last reader does not broadcast.
sqlite_unlock_read_quiet(t) ==
  /\ at[t] = "reads" /\ at' = [at EXCEPT ![t] = "out"]
  /\ read_threads' = read_threads - 1
  /\ UNCHANGED <<write_level, write_thread, asleep>>
sqlite_unlock_read(t) ==
  /\ at[t] = "reads" /\ at' = [at EXCEPT ![t] = "out"]
  /\ read_threads' = read_threads - 1
  /\ asleep' = IF read_threads' = 0 THEN {} ELSE asleep
  /\ UNCHANGED <<write_level, write_thread>>

SpuriousWakeup(t) == /\ t \in asleep /\ asleep' = asleep \ {t}
                     /\ UNCHANGED <<read_threads, write_level, write_thread, at>>

LockStep(t) == \/ sqlite_lock_write(t) \/ sqlite_lock_read(t)
               \/ sqlite_unlock_write(t) \/ sqlite_unlock_read(t)
LockNext == \E t \in Threads : LockStep(t) \/ SpuriousWakeup(t) \/ Enter(t, TRUE) \/ Enter(t, FALSE)
LockSpec == LockInit /\ [][LockNext]_lockVars
\* Every thread is scheduled; a condition variable promises no more than that.
LockFairness == \A t \in Threads : WF_lockVars(LockStep(t))
FairLockSpec == LockSpec /\ LockFairness
-----------------------------------------------------------------------------
In(place) == {t \in Threads : at[t] = place}

\* A thread that writes is alone in the database: no other writes or reads.
OneWriter == \A t, u \in Threads : t # u /\ at[t] = "writes" => at[u] \notin {"reads", "writes"}

\* Nobody sleeps on a lock that is free for it: a sleeping writer waits for
\* somebody inside, a sleeping reader for a writer.
NoLostWakeup == \A t \in asleep : \/ at[t] = "wants write" /\ In("reads") \cup In("writes") # {}
                                  \/ at[t] = "wants read" /\ In("writes") # {}

\* The counters count the threads inside.
Counted == /\ read_threads = Cardinality(In("reads"))
           /\ write_level = Cardinality(In("writes"))

\* Where the writer is, and that it is the one the lock names.
WriterNamed == \A t \in Threads : at[t] = "writes" <=> write_thread = t
LockInv == LockTypeOK /\ Counted /\ WriterNamed /\ OneWriter /\ NoLostWakeup

\* A reader that sleeps is woken by the end of the write it waits for, whatever
\* other threads do; a writer may sleep for ever while readers overlap.
SleepingReaderWakes == \A t \in Threads : (t \in asleep /\ at[t] = "wants read") ~> t \notin asleep

(* The lock does what the driver needs of it: a writer is alone, and nobody   *)
(* waits for what nobody holds (sqlite_lock, sqlite_unlock of dbd_sqlite.c).  *)
LockSound == OneWriter /\ NoLostWakeup
=============================================================================
