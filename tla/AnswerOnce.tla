----------------------------- MODULE AnswerOnce -----------------------------
(***************************************************************************)
(* What the interactions of the local runtime promise a client that        *)
(* answers one: an interaction gets one verdict, which stays, and a client *)
(* is told that its answer was taken only when it is the verdict.          *)
(***************************************************************************)
CONSTANTS Interactions, Verdicts, Calls, Undecided

VARIABLES verdict,  \* interaction -> its verdict, or Undecided
          told      \* call -> its state, and the interaction and answer it is about
vars == <<verdict, told>>

Init ==
  /\ verdict = [i \in Interactions |-> Undecided]
  /\ \A c \in Calls : told[c].state = "unsent"

Decide(i) == verdict'[i] # verdict[i] => verdict[i] = Undecided /\ verdict'[i] \in Verdicts

Tell(c) ==
  \/ told'[c] = told[c]
  \/ told[c].state = "unsent" /\ told'[c].state \in {"waiting", "refused"}
  \/ /\ told[c].state \in {"unsent", "waiting"} /\ told'[c].state = "taken"
     /\ verdict'[told'[c].interaction] = told'[c].answer
  \/ told[c].state = "waiting" /\ told'[c] = [told[c] EXCEPT !.state = "refused"]

Next ==
  /\ \A i \in Interactions : Decide(i)
  /\ \A c \in Calls : Tell(c)

Spec == Init /\ [][Next]_vars
=============================================================================
