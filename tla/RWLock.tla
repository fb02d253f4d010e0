------------------------------- MODULE RWLock -------------------------------
(***************************************************************************)
(* base::lock::RWLock (src/src/base/lock/rwlock.hpp, rwlock_impl.hpp): a   *)
(* spinning readers-writer lock on two atomic counters and a plain thread  *)
(* id.  One action per atomic access; a spinning loop takes a step only    *)
(* when it leaves the loop or has to load again.                           *)
(*                                                                         *)
(* m_write_thread_id is not atomic, but a thread only ever compares it     *)
(* with its own id: another thread's write of it, seen early or late,      *)
(* compares unequal before and after.                                      *)
(*                                                                         *)
(* Threads take and release the lock in the manner of the raii guards: the *)
(* last section entered is the first one left.                             *)
(***************************************************************************)
EXTENDS Integers, Sequences, FiniteSets

CONSTANTS
    Threads,
    WriteFirst,     \* WRITE_FIRST
    NestedReads,    \* threads enter sections inside their read sections and
                    \* read sections inside their write sections
    NestedWrites,   \* threads enter a write section inside their write section
    MaxDepth        \* bound: sections of a thread inside one another

ASSUME LockAssumption ==
    /\ IsFiniteSet(Threads)
    /\ {WriteFirst, NestedReads, NestedWrites} \subseteq BOOLEAN
    /\ MaxDepth \in Nat

VARIABLES
    lockCount,  \* m_lockCount: -1 written, 0 free, n > 0 read by n sections
    waitCount,  \* m_writeWaitCount
    owner,      \* m_write_thread_id, {} if null
    at,         \* where thread t is in a lock operation, "out" if in none
    count,       \* the local count of readLock
    sections,   \* the sections t is in, outermost first: "read" counted in
                \* m_lockCount, "own" a read inside its own write, or "write"
    failed      \* writeUnlock has thrown or its assert has failed

lockVars == <<lockCount, waitCount, owner, at, count, sections, failed>>

Sections == {"read", "own", "write"}

Holds(t, s) == \E k \in DOMAIN sections[t] : sections[t][k] = s
Innermost(t) == sections[t][Len(sections[t])]

LockInit ==
    /\ lockCount = 0 /\ waitCount = 0 /\ owner = {}
    /\ at = [t \in Threads |-> "out"]
    /\ count = [t \in Threads |-> 0]
    /\ sections = [t \in Threads |-> <<>>]
    /\ failed = FALSE

Enter(t, s) == sections' = [sections EXCEPT ![t] = Append(@, s)]
Leave(t) == sections' = [sections EXCEPT ![t] = SubSeq(@, 1, Len(@) - 1)]
Goto(t, l) == at' = [at EXCEPT ![t] = l]

-----------------------------------------------------------------------------
(* readLock: nothing to do for the thread that writes, else load the count *)
(* until it is not -1 (and, in write-first mode, no writer waits), and     *)
(* increment it by compare-exchange.                                       *)

ReadLock(t) ==
    /\ at[t] = "out"
    /\ Len(sections[t]) < MaxDepth
    /\ sections[t] = <<>> \/ NestedReads
    /\ IF owner = {t}
         THEN Enter(t, "own") /\ UNCHANGED at
         ELSE Goto(t, "r_load") /\ UNCHANGED sections
    /\ UNCHANGED <<lockCount, waitCount, owner, count, failed>>

(* Mutant of ReadLoad: a written lock is not waited for.                   *)
ReadLoadAnyway(t) ==
    /\ at[t] = "r_load"
    /\ count' = [count EXCEPT ![t] = lockCount]
    /\ Goto(t, IF WriteFirst THEN "r_wait" ELSE "r_cas")
    /\ UNCHANGED <<lockCount, waitCount, owner, sections, failed>>

ReadLoad(t) ==
    /\ at[t] = "r_load"
    /\ lockCount # -1
    /\ count' = [count EXCEPT ![t] = lockCount]
    /\ Goto(t, IF WriteFirst THEN "r_wait" ELSE "r_cas")
    /\ UNCHANGED <<lockCount, waitCount, owner, sections, failed>>

(* Mutant of ReadWait: waiting writers are not looked at.                  *)
ReadWaitNot(t) ==
    /\ at[t] = "r_wait"
    /\ Goto(t, "r_cas")
    /\ UNCHANGED <<lockCount, waitCount, owner, count, sections, failed>>

ReadWait(t) ==
    /\ at[t] = "r_wait"
    /\ Goto(t, IF waitCount > 0 THEN "r_load" ELSE "r_cas")
    /\ UNCHANGED <<lockCount, waitCount, owner, count, sections, failed>>

ReadCas(t) ==
    /\ at[t] = "r_cas"
    /\ lockCount = count[t]
    /\ lockCount' = lockCount + 1
    /\ Enter(t, "read")
    /\ Goto(t, "out")
    /\ UNCHANGED <<waitCount, owner, count, failed>>

(* compare_exchange_weak may also fail when the values agree.              *)
ReadCasFails(t) ==
    /\ at[t] = "r_cas"
    /\ Goto(t, "r_load")
    /\ UNCHANGED <<lockCount, waitCount, owner, count, sections, failed>>

ReadUnlock(t) ==
    /\ at[t] = "out"
    /\ sections[t] # <<>> /\ Innermost(t) \in {"read", "own"}
    /\ lockCount' = IF owner # {t} THEN lockCount - 1 ELSE lockCount
    /\ Leave(t)
    /\ UNCHANGED <<waitCount, owner, at, count, failed>>

-----------------------------------------------------------------------------
(* writeLock: nothing to do for the thread that writes already, else       *)
(* announce the wait, turn the count from 0 to -1, take the announcement   *)
(* back and note the thread's id.  In its own read section the thread      *)
(* waits for itself: the count stays above 0.                              *)

WriteLock(t) ==
    /\ at[t] = "out"
    /\ Len(sections[t]) < MaxDepth
    /\ Holds(t, "write") => NestedWrites
    /\ Holds(t, "read") => NestedReads
    /\ IF owner = {t}
         THEN Enter(t, "write") /\ UNCHANGED at
         ELSE Goto(t, "w_add") /\ UNCHANGED sections
    /\ UNCHANGED <<lockCount, waitCount, owner, count, failed>>

WriteAdd(t) ==
    /\ at[t] = "w_add"
    /\ waitCount' = waitCount + 1
    /\ Goto(t, "w_cas")
    /\ UNCHANGED <<lockCount, owner, count, sections, failed>>

(* Mutant of WriteCas: only another writer is waited for.                  *)
WriteCasOverReaders(t) ==
    /\ at[t] = "w_cas"
    /\ lockCount # -1
    /\ lockCount' = -1
    /\ Goto(t, "w_sub")
    /\ UNCHANGED <<waitCount, owner, count, sections, failed>>

WriteCas(t) ==
    /\ at[t] = "w_cas"
    /\ lockCount = 0
    /\ lockCount' = -1
    /\ Goto(t, "w_sub")
    /\ UNCHANGED <<waitCount, owner, count, sections, failed>>

WriteSub(t) ==
    /\ at[t] = "w_sub"
    /\ waitCount' = waitCount - 1
    /\ Goto(t, "w_own")
    /\ UNCHANGED <<lockCount, owner, count, sections, failed>>

WriteOwn(t) ==
    /\ at[t] = "w_own"
    /\ owner' = {t}
    /\ Enter(t, "write")
    /\ Goto(t, "out")
    /\ UNCHANGED <<lockCount, waitCount, count, failed>>

(* writeUnlock throws if the thread is not the one that writes and asserts *)
(* that the count is -1; called from a guard's destructor, either ends the *)
(* process.  The section is over when the call begins.                     *)
WriteUnlock(t) ==
    /\ at[t] = "out"
    /\ sections[t] # <<>> /\ Innermost(t) = "write"
    /\ Leave(t)
    /\ IF owner = {t} /\ lockCount = -1
         THEN owner' = {} /\ Goto(t, "u_store") /\ UNCHANGED failed
         ELSE failed' = TRUE /\ UNCHANGED <<owner, at>>
    /\ UNCHANGED <<lockCount, waitCount, count>>

WriteStore(t) ==
    /\ at[t] = "u_store"
    /\ lockCount' = 0
    /\ Goto(t, "out")
    /\ UNCHANGED <<waitCount, owner, count, sections, failed>>

-----------------------------------------------------------------------------
ReadStep(t) ==
    ReadLock(t) \/ ReadLoad(t) \/ ReadWait(t) \/ ReadCas(t) \/ ReadCasFails(t)
                \/ ReadUnlock(t)

WriteStep(t) ==
    WriteLock(t) \/ WriteAdd(t) \/ WriteCas(t) \/ WriteSub(t) \/ WriteOwn(t)
                 \/ WriteUnlock(t) \/ WriteStore(t)

LockNext == ~failed /\ \E t \in Threads : ReadStep(t) \/ WriteStep(t)

LockSpec == LockInit /\ [][LockNext]_lockVars

(* A thread inside an operation runs on, and one in a section leaves it.   *)
(* Nobody has to ask for the lock.  Compare-exchange does not fail         *)
(* forever while the values agree.                                         *)
LockFairness == \A t \in Threads :
    /\ WF_lockVars(~failed /\ (ReadLoad(t) \/ ReadWait(t)))
    /\ SF_lockVars(~failed /\ ReadCas(t))
    /\ WF_lockVars(~failed /\ ReadUnlock(t))
    /\ WF_lockVars(~failed /\ (WriteAdd(t) \/ WriteCas(t) \/ WriteSub(t) \/ WriteOwn(t)
                              \/ WriteUnlock(t) \/ WriteStore(t)))

LockFairSpec == LockSpec /\ LockFairness
-----------------------------------------------------------------------------
(* The types of the lock: the count is never below -1 and the waiting      *)
(* count, unsigned in the code, never below 0 (rwlock.hpp:29-33).          *)
LockTypeOK ==
    /\ lockCount \in Nat \cup {-1}
    /\ waitCount \in Nat
    /\ owner \in {{}} \cup {{t} : t \in Threads}
    /\ at \in [Threads -> {"out", "r_load", "r_wait", "r_cas", "w_add", "w_cas",
                           "w_sub", "w_own", "u_store"}]
    /\ count \in [Threads -> Nat]
    /\ sections \in [Threads -> Seq(Sections)]
    /\ failed \in BOOLEAN

Reading == {t \in Threads : Holds(t, "read") \/ Holds(t, "own")}
Writing == {t \in Threads : Holds(t, "write")}

(* "Exclusive write, shared read" (rwlock.hpp:14): while a thread is in a  *)
(* write section no other thread is in any.                                *)
ExclusiveWrite ==
    \A t \in Writing : Writing = {t} /\ Reading \subseteq {t}

(* writeUnlock never finds the lock in a state it does not expect          *)
(* (rwlock_impl.hpp:54-57).                                                *)
UnlockMatches == ~failed

(* The read sections that are counted.                                     *)
ReadSections ==
    {s \in Threads \X (1..MaxDepth) :
        s[2] <= Len(sections[s[1]]) /\ sections[s[1]][s[2]] = "read"}

(* A thread past the compare-exchange of writeLock or not yet through      *)
(* writeUnlock.                                                            *)
Writers == {t \in Threads : at[t] \in {"w_sub", "w_own", "u_store"} \/ Holds(t, "write")}

(* m_lockCount counts the read sections or is -1 for the one thread that   *)
(* writes, and m_write_thread_id is the thread in a write section.         *)
LockCount ==
    /\ Writers = {} => lockCount = Cardinality(ReadSections)
    /\ Writers # {} =>
         /\ lockCount = -1
         /\ ReadSections = {}
         /\ \E w \in Threads : Writers = {w}
    /\ owner = Writing

(* m_writeWaitCount counts the threads that wait to write.                 *)
WaitCount ==
    waitCount = Cardinality({t \in Threads : at[t] \in {"w_cas", "w_sub"}})

(* A thread is in read sections only, or in a write section and in reads   *)
(* inside it; and what it can be in while it is in a lock operation.       *)
OnlyReads(t) == \A k \in 1..Len(sections[t]) : sections[t][k] = "read"

OwnReads(t) ==
    /\ sections[t] # <<>>
    /\ sections[t][1] = "write"
    /\ \A k \in 2..Len(sections[t]) : sections[t][k] = "own"

Nesting == \A t \in Threads :
    /\ Len(sections[t]) <= MaxDepth
    /\ OnlyReads(t) \/ OwnReads(t)
    /\ at[t] \in {"r_load", "r_wait", "r_cas", "w_add", "w_cas"} =>
          OnlyReads(t) /\ Len(sections[t]) < MaxDepth
    /\ at[t] \in {"w_sub", "w_own"} => sections[t] = <<>> /\ MaxDepth > 0
    /\ at[t] = "u_store" => sections[t] = <<>>

(* The inductive invariant: the counters and the owner agree with what     *)
(* every thread is in and where it is in the lock's operations.            *)
LockInv == LockTypeOK /\ Nesting /\ LockCount /\ WaitCount /\ UnlockMatches

(* The promised lock, of which this is an implementation.                  *)
Promised == INSTANCE ReadersWriters WITH reading <- Reading, writing <- Writing

(* Seen as who reads and who writes, every behaviour of the lock is one of *)
(* the lock that the comment over the class promises (rwlock.hpp:13-20),   *)
(* as long as no thread writes inside its own write section                *)
(* (~NestedWrites): the inner writeUnlock gives the lock away, although    *)
(* "nested locking is allowed" (rwlock.hpp:16).                            *)
PromisedLock == Promised!Spec

(* A thread that asks to read, or waits to write, in its own read section. *)
ReadsAgain(t)      == at[t] \in {"r_load", "r_wait", "r_cas"} /\ Holds(t, "read")
WritesInItsRead(t) == at[t] = "w_cas" /\ Holds(t, "read")

(* "Write-first mode lets the writing thread take the lock first"          *)
(* (rwlock.hpp:15): when threads wait to write, one of them gets to,       *)
(* although readers keep coming.  Nested sections may keep it out for      *)
(* ever, although "nested locking is allowed" (rwlock.hpp:16): a thread    *)
(* that reads again inside its read section waits for the writer, which    *)
(* waits for it (rwlock_impl.hpp:20-22), and one that writes inside its    *)
(* read section waits for itself (rwlock_impl.hpp:43-45).  Nothing keeps a *)
(* particular writer from losing every compare-exchange to the others.     *)
WriterGetsIn ==
    (\E t \in Threads : at[t] = "w_cas")
        ~> (Writing # {} \/ [](\E t \in Threads : ReadsAgain(t) \/ WritesInItsRead(t)))
=============================================================================
