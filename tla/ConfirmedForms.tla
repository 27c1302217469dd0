---------------------------- MODULE ConfirmedForms -----------------------------
(***************************************************************************)
(* What the panel's screens promise whoever confirms a form, without       *)
(* saying how: it is carried out once, on the row that was shown.          *)
(*                                                                         *)
(* PanelScreens.tla keeps this promise.                                    *)
(***************************************************************************)
EXTENDS Naturals, Sequences

VARIABLES
    tasks,   \* tasks of the machine: kind, request key and state
    effects  \* history: what the forms that must act once have done

\* What a person confirmed is done to the row that was on the screen and is done
\* once: whatever another tab, the node or a release changes under the open form,
\* and although a form whose call failed is sent again while the call may still
\* arrive; a request key makes one task.
DoneOnceAsConfirmed ==
    /\ \A i \in 1..Len(effects) : effects[i].seen = effects[i].found
    /\ \A i, j \in 1..Len(effects) : effects[i].form = effects[j].form => i = j
    /\ \A t1, t2 \in tasks : t1.key = t2.key => t1 = t2
================================================================================
