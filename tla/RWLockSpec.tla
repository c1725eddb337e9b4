----------------------------- MODULE RWLockSpec -----------------------------
(***************************************************************************)
(* What a readers-writer lock promises: any number of clients share it for *)
(* reading, or one client has it alone for writing.                        *)
(***************************************************************************)
EXTENDS FiniteSets

CONSTANTS Client

VARIABLES
  readers,   \* the clients that hold the lock for reading
  writers    \* the clients that hold it for writing

vars == <<readers, writers>>

Init == readers = {} /\ writers = {}

Read(c) ==
  /\ c \notin readers
  /\ writers = {}
  /\ readers' = readers \cup {c}
  /\ UNCHANGED writers

Write(c) ==
  /\ readers = {} /\ writers = {}
  /\ writers' = {c}
  /\ UNCHANGED readers

Release(c) ==
  \/ c \in readers /\ readers' = readers \ {c} /\ UNCHANGED writers
  \/ c \in writers /\ writers' = writers \ {c} /\ UNCHANGED readers

Next == \E c \in Client : Read(c) \/ Write(c) \/ Release(c)

Spec == Init /\ [][Next]_vars
=============================================================================
