---------------------------- MODULE AllOrNothing ----------------------------
(***************************************************************************)
(* What a publication of several files promises its caller.  The files are *)
(* replaced one after the other and may be seen in between, but a call     *)
(* that returns success has replaced them all, one that returns an         *)
(* ordinary failure has replaced none, and everything else is reported as  *)
(* in need of attention, or cannot be reported because the process died.   *)
(***************************************************************************)
VARIABLES state,  \* the files, compared with those the call found
          report  \* what the caller was told

States == {"before", "between", "after"}

Init == state = "before" /\ report = "none"

Replace == report = "none" /\ state' \in States /\ UNCHANGED report
Succeed == report = "none" /\ state = "after" /\ report' = "ok" /\ UNCHANGED state
Fail == report = "none" /\ state = "before" /\ report' = "failed" /\ UNCHANGED state
GiveUp == report = "none" /\ report' \in {"attention", "killed"} /\ UNCHANGED state
Again == report # "none" /\ report' = "none" /\ state' = "before"

Next == Replace \/ Succeed \/ Fail \/ GiveUp \/ Again

Spec == Init /\ [][Next]_<<state, report>>
=============================================================================
