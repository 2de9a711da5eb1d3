----------------------------- MODULE TxLifecycle -----------------------------
(***************************************************************************)
(* What the handler promises each uuid it executes (spec section 8: "for   *)
(* every UUID that enters the TxCtx table, exactly one terminal frame is   *)
(* delivered on its ResponseChan"), as an abstract state machine.  A uuid  *)
(* is idle until its transaction context is created, open while the       *)
(* context waits for its terminal frame, answered once that frame is on    *)
(* the notifier, and closed when the context is gone.  A uuid may also be *)
(* closed without ever being opened (the caller gave up before creating    *)
(* the context), or before it is answered (the caller timed out).          *)
(***************************************************************************)
EXTENDS Naturals

CONSTANT Uuids

VARIABLES
    phase,    \* uuid -> "idle" | "open" | "answered" | "closed"
    answers   \* uuid -> number of frames delivered on its notifier

lifeVars == <<phase, answers>>

Init ==
    /\ phase = [u \in Uuids |-> "idle"]
    /\ answers = [u \in Uuids |-> 0]

\* The context of u is created.
Open(u) ==
    /\ phase[u] = "idle"
    /\ phase' = [phase EXCEPT ![u] = "open"]
    /\ UNCHANGED answers

\* The terminal frame of u is delivered: once, and only to an open context.
Answer(u) ==
    /\ phase[u] = "open"
    /\ phase' = [phase EXCEPT ![u] = "answered"]
    /\ answers' = [answers EXCEPT ![u] = @ + 1]

\* The caller is done with u and its context is gone.
Close(u) ==
    /\ phase[u] # "closed"
    /\ phase' = [phase EXCEPT ![u] = "closed"]
    /\ UNCHANGED answers

Next == \E u \in Uuids : Open(u) \/ Answer(u) \/ Close(u)

Spec == Init /\ [][Next]_lifeVars

=============================================================================
