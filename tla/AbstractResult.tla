--------------------------- MODULE AbstractResult ---------------------------
(***************************************************************************)
(* What oe::result<T> promises: a variable that holds a value or an error. *)
(* A constructor that throws has done nothing.                             *)
(***************************************************************************)
EXTENDS Integers

CONSTANTS Results, Values, Errors, Gone

VARIABLES alive, holds, call, ret

Init == alive = {} /\ holds = [r \in Results |-> "ok"]

Ok(r) == holds[r] \in Values \cup {Gone}

Spent(v) == IF v \in Values THEN Gone ELSE v

\* r holds v from now on, and o, which v was moved from, what is left of it.
Put(r, v)      == holds' = [holds EXCEPT ![r] = v]
Move(r, o)     == holds' = [holds EXCEPT ![o] = Spent(holds[o]), ![r] = holds[o]]
Give(r, moved) == IF moved THEN Put(r, Spent(holds[r])) ELSE UNCHANGED holds

New(c) ==
  /\ c[2] \notin alive
  /\ alive' = alive \cup {c[2]}
  /\ \/ c[1] \in {"success", "failure"} /\ Put(c[2], c[3])
     \/ c[1] = "copy" /\ Put(c[2], holds[c[3]])
     \/ c[1] = "move" /\ Move(c[2], c[3])

Use(c) ==
  /\ c[2] \in alive /\ UNCHANGED alive
  /\ \/ c[1] = "copy_assign" /\ Put(c[2], holds[c[3]])
     \/ c[1] = "move_assign" /\ IF c[2] = c[3] THEN UNCHANGED holds ELSE Move(c[2], c[3])
     \/ c[1] = "code" /\ ret' = (IF Ok(c[2]) THEN "ok" ELSE holds[c[2]]) /\ UNCHANGED holds
     \/ c[1] = "value" /\ ret' = holds[c[2]] /\ Give(c[2], c[3])
     \/ /\ c[1] = "value_or" /\ Give(c[2], c[4])
        /\ ret' = IF Ok(c[2]) THEN holds[c[2]] ELSE c[3]

Drop(c) == c[1] = "destroy" /\ alive' = alive \ {c[2]} /\ Put(c[2], "ok")

Throw == ret' = "thrown" /\ UNCHANGED <<alive, holds>>

Next == New(call') \/ Use(call') \/ Drop(call') \/ Throw

Spec == Init /\ [][Next]_<<alive, holds, call, ret>>
=============================================================================
