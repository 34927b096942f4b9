------------------------------ MODULE IdealBucket ------------------------------
(***************************************************************************)
(* What a rate limiter promises of one key: a vessel that fills by Flow    *)
(* units a tick up to Capacity, and every call that is let through takes a *)
(* whole token of Unit units out of it.                                    *)
(***************************************************************************)
EXTENDS Naturals

CONSTANTS Capacity, Start, Flow, Unit
VARIABLES level, last
vars == <<level, last>>

Init == level = Start /\ last = "reset"

Fill == last' = "tick" /\ level' <= level + Flow /\ level' <= Capacity
Grant == last' = "granted" /\ level' + Unit <= level
Refuse == last' = "refused" /\ level' <= level
Reset == last' = "reset" /\ level' <= Start

Next == Fill \/ Grant \/ Refuse \/ Reset

Spec == Init /\ [][Next]_vars
=================================================================================
