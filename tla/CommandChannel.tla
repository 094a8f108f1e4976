--------------------------- MODULE CommandChannel ---------------------------
(***************************************************************************)
(* What the host-to-chip command layer promises to the rest of the driver, *)
(* without queues, completions, credits or work items: one user of the     *)
(* channel at a time; a command ends with the answer to that very command, *)
(* or with a timeout after which the chip is declared frozen; a frozen     *)
(* chip is never asked again by a user who sees it frozen.                 *)
(*                                                                         *)
(* HifCmd implements this module (HifCmd!Refinement).                      *)
(***************************************************************************)
CONSTANTS Procs        \* the threads that use the channel

VARIABLES
    phase,      \* what each thread is doing with the channel
    outcome,    \* how the last use of the channel by each thread ended
    frozen      \* the chip has been declared dead

vars == <<phase, outcome, frozen>>

Phases   == {"away", "queueing", "serving"}
Outcomes == {"none", "answered", "timedOut", "unconfirmed"}

Init ==
    /\ phase = [p \in Procs |-> "away"]
    /\ outcome = [p \in Procs |-> "none"]
    /\ frozen = FALSE

\* The thread starts something new: its previous outcome is forgotten.
Forget(p) ==
    /\ phase[p] = "away"
    /\ outcome' = [outcome EXCEPT ![p] = "none"]
    /\ UNCHANGED <<phase, frozen>>

\* A thread that finds the chip alive gets in line.
Queue(p) ==
    /\ phase[p] = "away"
    /\ ~frozen
    /\ phase' = [phase EXCEPT ![p] = "queueing"]
    /\ UNCHANGED <<outcome, frozen>>

\* A thread that finds the chip frozen is turned away.
Refuse(p) ==
    /\ phase[p] = "away"
    /\ frozen
    /\ outcome' = [outcome EXCEPT ![p] = "timedOut"]
    /\ UNCHANGED <<phase, frozen>>

Serve(p) ==
    /\ phase[p] = "queueing"
    /\ \A q \in Procs : phase[q] # "serving"
    /\ phase' = [phase EXCEPT ![p] = "serving"]
    /\ UNCHANGED <<outcome, frozen>>

\* The command is answered, or needs no answer.
Conclude(p) ==
    /\ phase[p] = "serving"
    /\ outcome[p] = "none"
    /\ \E o \in {"answered", "unconfirmed"} :
          outcome' = [outcome EXCEPT ![p] = o]
    /\ UNCHANGED <<phase, frozen>>

\* The command is given up: from now on the chip is frozen.
GiveUp(p) ==
    /\ phase[p] = "serving"
    /\ outcome[p] = "none"
    /\ outcome' \in {outcome, [outcome EXCEPT ![p] = "timedOut"]}
    /\ frozen' = TRUE
    /\ UNCHANGED phase

Leave(p) ==
    /\ phase[p] = "serving"
    /\ phase' = [phase EXCEPT ![p] = "away"]
    /\ UNCHANGED <<outcome, frozen>>

\* The chip itself reports that it is dead.
Die ==
    /\ frozen' = TRUE
    /\ UNCHANGED <<phase, outcome>>

Next ==
    \/ Die
    \/ \E p \in Procs :
          Forget(p) \/ Queue(p) \/ Refuse(p) \/ Serve(p)
            \/ Conclude(p) \/ GiveUp(p) \/ Leave(p)

Spec == Init /\ [][Next]_vars
=============================================================================
