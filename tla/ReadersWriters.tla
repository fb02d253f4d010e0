--------------------------- MODULE ReadersWriters ---------------------------
(***************************************************************************)
(* What the comment over RWLock (src/src/base/lock/rwlock.hpp:14-20)       *)
(* promises: exclusive writing, shared reading, and reading nested in the  *)
(* thread's own writing.                                                   *)
(***************************************************************************)
CONSTANT Threads

VARIABLES
    reading,    \* the threads inside a read section
    writing     \* the threads inside a write section

Init == reading = {} /\ writing = {}

StartRead(t) ==
    /\ writing \subseteq {t}
    /\ reading' = reading \cup {t}
    /\ UNCHANGED writing

EndRead(t) ==
    /\ t \in reading
    /\ reading' = reading \ {t}
    /\ UNCHANGED writing

StartWrite(t) ==
    /\ reading = {} /\ writing = {}
    /\ writing' = {t}
    /\ UNCHANGED reading

EndWrite(t) ==
    /\ writing = {t}
    /\ t \notin reading
    /\ writing' = {}
    /\ UNCHANGED reading

Next == \E t \in Threads :
    StartRead(t) \/ EndRead(t) \/ StartWrite(t) \/ EndWrite(t)

Spec == Init /\ [][Next]_<<reading, writing>>
=============================================================================
