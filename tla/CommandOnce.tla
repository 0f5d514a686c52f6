------------------------------ MODULE CommandOnce ------------------------------
(***************************************************************************)
(* What an Idempotency-Key promises (D-215): for 24 hours the command sent *)
(* with it takes effect once, and every answer tells the outcome of that   *)
(* effect, or that there is none to tell.                                  *)
(***************************************************************************)
EXTENDS Naturals, Sequences

CONSTANTS Keys, Bodies, Times, Lifetime

VARIABLES
  effects,   \* of each key, in the order they were committed: body, arrival
  answers    \* outcomes told: key, body, and which effect

Init ==
  /\ effects = [k \in Keys |-> <<>>]
  /\ answers = {}

\* The window runs from the arrival of the request that took effect.
Fresh(k, at) ==
  \A i \in 1..Len(effects[k]) : effects[k][i].at + Lifetime <= at

TakeEffect(k, body, at) ==
  /\ Fresh(k, at)
  /\ effects' = [effects EXCEPT ![k] = Append(@, [body |-> body, at |-> at])]
  /\ UNCHANGED answers

Tell(k, body, i) ==
  /\ effects[k][i].body = body
  /\ answers' = answers \cup {[key |-> k, body |-> body, effect |-> i]}
  /\ UNCHANGED effects

Next ==
  \E k \in Keys, body \in Bodies :
    \/ \E at \in Times : TakeEffect(k, body, at)
    \/ \E i \in 1..Len(effects[k]) : Tell(k, body, i)

Spec == Init /\ [][Next]_<<effects, answers>>
=============================================================================
