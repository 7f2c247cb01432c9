-------------------------- MODULE BarrierSpurious --------------------------
(***************************************************************************)
(* Barrier with the one thing POSIX allows and BarrierClient does not      *)
(* provide for: pthread_cond_wait may return although nobody signalled.    *)
(* BarrierClient waits in no loop that tests a condition.                  *)
(***************************************************************************)
EXTENDS Barrier

WakeSpuriously(c) ==
    /\ pc[c] = "waiting"
    /\ pc' = [pc EXCEPT ![c] = "woken"]
    /\ UNCHANGED <<threads, groupStart, startTime, clock>>

SpuriousNext == BarrierNext \/ (\E c \in Clients : WakeSpuriously(c))

SpuriousSpec == BarrierInit /\ [][SpuriousNext]_barrierVars
=============================================================================
