----------------------------- MODULE SharedService -----------------------------
(***************************************************************************)
(* What the strategies of one process are promised of the price service    *)
(* they share, for a reader who does not care how it is managed: it is     *)
(* started for somebody who uses it, when no other is up; once it is known *)
(* to be up it is told to stop only when nobody uses it any more; and it   *)
(* may fail. There are no locks, counters, ports, joins or clean-ups here. *)
(* One excuse: a start that takes too long is given up, whoever uses it.   *)
(* CcxtProxy implements this.                                              *)
(***************************************************************************)
CONSTANTS
    Users,
    Services

VARIABLES
    using,  \* the users
    stage   \* of each service: "failing" ends by itself, "asked" was told to

shared == <<using, stage>>

-----------------------------------------------------------------------------

IsUp(s) == stage[s] \in {"starting", "up"}

Becomes(s, new) == stage' = [stage EXCEPT ![s] = new] /\ UNCHANGED using

Init ==
    /\ using = {}
    /\ stage = [s \in Services |-> "off"]

Join(u) == u \notin using /\ using' = using \cup {u} /\ UNCHANGED stage

Leave(u) == u \in using /\ using' = using \ {u} /\ UNCHANGED stage

Start(s) ==
    /\ using # {} /\ stage[s] = "off"
    /\ \A r \in Services : ~IsUp(r)
    /\ Becomes(s, "starting")

Confirm(s) == stage[s] = "starting" /\ Becomes(s, "up")

GiveUp(s) == stage[s] = "starting" /\ Becomes(s, "asked")

Retire(s) == stage[s] = "up" /\ using = {} /\ Becomes(s, "asked")

Fail(s) == IsUp(s) /\ Becomes(s, "failing")

\* A service that is failing may be told to stop as well.
Hurry(s) == stage[s] = "failing" /\ Becomes(s, "asked")

End(s) == stage[s] \in {"failing", "asked"} /\ Becomes(s, "off")

ServiceStep(s) ==
    Start(s) \/ Confirm(s) \/ GiveUp(s) \/ Retire(s) \/ Fail(s) \/ Hurry(s) \/ End(s)

Next ==
    \/ \E u \in Users : Join(u) \/ Leave(u)
    \/ \E s \in Services : ServiceStep(s)

Spec == Init /\ [][Next]_shared
=============================================================================
