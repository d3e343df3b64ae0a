------------------------------ MODULE UsbDriver ------------------------------
(***************************************************************************)
(* What lib/Runtime/UsbDriver.h promises of a platform driver: within one  *)
(* session the bytes of the IN stream are handed over once and in order,   *)
(* by read until the session stops and by drain after; drain ends only     *)
(* when every byte received was handed over and none can follow, or after  *)
(* an error; an error lasts until close.                                   *)
(*                                                                         *)
(* Bytes are numbered in the order the bus delivers them, so the stream of *)
(* a session is 1, 2, 3, ... and its length says all there is to say.      *)
(***************************************************************************)
EXTENDS Naturals, Sequences

VARIABLES
    session,   \* "closed", "open", or "stopping" once cancelled
    received,  \* how many bytes the session received from the bus
    taken,     \* the bytes handed to the caller
    failed,    \* an error was reported and is not closed yet
    drained    \* drain returned for the last time

streamVars == <<session, received, taken, failed, drained>>

Stream(n) == [i \in 1..n |-> i]

StreamInit ==
    /\ session = "closed"
    /\ received = 0 /\ taken = <<>>
    /\ failed = FALSE /\ drained = FALSE

Start ==
    /\ session = "closed"
    /\ session' = "open"
    /\ UNCHANGED <<received, taken, failed, drained>>

Receive ==
    /\ session # "closed"
    /\ drained => failed
    /\ received' \in Nat /\ received' > received
    /\ UNCHANGED <<session, taken, failed, drained>>

HandOver ==
    /\ session # "closed" /\ ~drained
    /\ \E n \in Len(taken) + 1..received : taken' = Stream(n)
    /\ UNCHANGED <<session, received, failed, drained>>

Fail ==
    /\ session # "closed"
    /\ failed' = TRUE
    /\ UNCHANGED <<session, received, taken, drained>>

Stop ==
    /\ session = "open"
    /\ session' = "stopping"
    /\ failed => failed'
    /\ UNCHANGED <<received, taken, drained>>

Drain ==
    /\ session = "stopping"
    /\ failed => failed'
    /\ failed' \/ taken = Stream(received)
    /\ drained' = TRUE
    /\ UNCHANGED <<session, received, taken>>

\* A driver that is destroyed or reopened closes without a drain.
Close ==
    /\ session # "closed"
    /\ session' = "closed"
    /\ received' = 0 /\ taken' = <<>>
    /\ failed' = FALSE /\ drained' = FALSE

StreamNext ==
    Start \/ Receive \/ HandOver \/ Fail \/ Stop \/ Drain \/ Close

StreamSpec == StreamInit /\ [][StreamNext]_streamVars
=============================================================================
