------------------------------ MODULE Session -------------------------------
(***************************************************************************)
(* What the supervisor promises about the sessions it runs, without the    *)
(* commands, processes and interfaces it uses to keep the promise:         *)
(*  - frames are bridged only by a session whose worker announced itself;  *)
(*  - fallback routing is checked once for every session that was built,   *)
(*    after its interfaces were removed and before the next session;       *)
(*  - a session that was never built touches no route;                     *)
(*  - a run ends well only when it was asked to stop;                      *)
(*  - every session that ends is taken down completely.                    *)
(***************************************************************************)
CONSTANT Repeat   \* TRUE for `daemon`, FALSE for `connect`

VARIABLES phase, stop, outcome

vars == <<phase, stop, outcome>>

Phases == {"waiting", "building", "serving", "bridging",
           "removing", "recovering", "discarding", "returned"}

Init == phase = "waiting" /\ stop = FALSE /\ outcome = "ok"

Move(from, to) == phase \in from /\ phase' = to /\ UNCHANGED stop

Begin == Move({"waiting"}, "building") /\ UNCHANGED outcome

Built == Move({"building"}, "serving") /\ UNCHANGED outcome

Announced == Move({"serving"}, "bridging") /\ UNCHANGED outcome

\* A session that was built ends on request or by a failure.
End == /\ Move({"serving", "bridging"}, "removing")
       /\ outcome' \in {"error"} \cup {r \in {"ok"} : stop}

\* A session that could not be built.
Abandon == Move({"building"}, "discarding") /\ outcome' = "error"

Removed == Move({"removing"}, "recovering") /\ UNCHANGED outcome

Recovered == Move({"recovering"}, "discarding") /\ UNCHANGED outcome

Discarded ==
    /\ Move({"discarding"}, IF Repeat THEN "waiting" ELSE "returned")
    /\ UNCHANGED outcome

Return == /\ Move({"waiting"}, "returned")
          /\ \/ outcome' = "ok" /\ stop
             \/ outcome' = "error" /\ ~Repeat

Request == /\ ~stop /\ stop' = TRUE
           /\ UNCHANGED <<phase, outcome>>

\* The process dies and is started again.
Crash == /\ Repeat /\ phase # "returned"
         /\ phase' = "waiting" /\ stop' = FALSE /\ outcome' = "ok"

TakeDown == Removed \/ Recovered \/ Discarded

Next == \/ Begin \/ Built \/ Announced \/ End \/ Abandon \/ TakeDown
        \/ Return \/ Request \/ Crash

Safety == Init /\ [][Next]_vars

Spec == Safety /\ WF_vars(TakeDown)
=============================================================================
