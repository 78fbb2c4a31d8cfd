---------------------------- MODULE OneShotTimer ----------------------------
(***************************************************************************)
(* A timer that is set once and fires once: not before its delay is over,  *)
(* and it is not set again while it runs.                                  *)
(***************************************************************************)
EXTENDS Integers

CONSTANT MaxDelay       \* the longest delay it is set to

VARIABLES
    remaining,  \* time left
    state       \* "idle", "armed" or "fired"

osVars == <<remaining, state>>

OsInit == remaining = 0 /\ state = "idle"

Set ==
    /\ state # "armed"
    /\ remaining' \in 0 .. MaxDelay
    /\ state' = "armed"

Pass ==
    /\ remaining > 0
    /\ remaining' = remaining - 1
    /\ UNCHANGED state

Fire ==
    /\ state = "armed" /\ remaining = 0
    /\ state' = "fired"
    /\ UNCHANGED remaining

OsNext == Set \/ Pass \/ Fire

OsSpec == OsInit /\ [][OsNext]_osVars
=============================================================================
