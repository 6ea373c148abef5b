---------------------------- MODULE BuildNumbers ----------------------------
(***************************************************************************)
(* What the version ledger promises, without branches, blobs or releases:  *)
(* numbers are issued once and in increasing order, the floor moves only   *)
(* upwards and only to issued numbers, and only what the floor has reached *)
(* can be public.  release_state.py and the publishers implement this with *)
(* a file they read and write from concurrent processes that can stop at   *)
(* any call (module ReleaseLedger).                                        *)
(***************************************************************************)
EXTENDS Integers

CONSTANTS
  Runs,     \* the runs that ask for a number
  Numbers   \* the numbers that can be issued

VARIABLES
  issued,   \* the number each run holds, 0 for none
  floor,    \* the newest number whose publication has begun
  public    \* the numbers of everything that was ever public

vars == <<issued, floor, public>>

Issued == {issued[r] : r \in Runs} \ {0}

Init ==
  /\ issued = [r \in Runs |-> 0]
  /\ floor = 0
  /\ public = {}

\* A run receives its one number, larger than every number before it.
Issue(r) ==
  /\ issued[r] = 0
  /\ \E n \in Numbers :
       /\ \A m \in Issued : m < n
       /\ issued' = [issued EXCEPT ![r] = n]
  /\ UNCHANGED <<floor, public>>

\* Publication of an issued number begins.
Consume(n) ==
  /\ n >= floor
  /\ floor' = n
  /\ UNCHANGED <<issued, public>>

\* Something with a consumed number goes public.
Ship(n) ==
  /\ n <= floor
  /\ public' = public \cup {n}
  /\ UNCHANGED <<issued, floor>>

Next ==
  \/ \E r \in Runs : Issue(r)
  \/ \E n \in Issued : Consume(n) \/ Ship(n)

Spec == Init /\ [][Next]_vars
=============================================================================
