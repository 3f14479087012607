------------------------------- MODULE Result -------------------------------
(***************************************************************************)
(* oe::result<T> (include/onedge/result.h): a flag has_value_, raw storage *)
(* in which a T is constructed and destroyed by hand, and an error.  The   *)
(* lifetime of that T, through copies, moves and a T whose copy or move    *)
(* constructor throws, is what this module is about.                       *)
(***************************************************************************)
EXTENDS Integers

CONSTANTS
  Results,  \* the result objects of the program, live or not
  Values,   \* the values of a T
  Errors,   \* the error codes other than ok
  Gone,     \* the value of a T that was moved from
  None      \* no T has been constructed in the storage

ASSUME ResultAssumption ==
  /\ {Gone, None} \cap (Values \cup Errors) = {} /\ Gone # None
  /\ Values \cap Errors = {}

VARIABLES
  alive,  \* the results constructed and not yet destroyed
  res,    \* has_value_, storage_ and err_ of each
  fault,  \* a T was used or destroyed that is not there
  lost,   \* the storage of a T was reused or dropped with the T still there
  torn,   \* history: the results in whose assignment T's constructor has thrown
  call,   \* history: the last call
  ret     \* history: what it returned, or "thrown"

vars == <<alive, res, fault, lost, torn, call, ret>>

\* result().
Default == [has |-> FALSE, held |-> None, err |-> "ok"]

Init ==
  /\ alive = {}
  /\ res = [r \in Results |-> Default]
  /\ fault = FALSE /\ lost = FALSE /\ torn = {}
  /\ call = <<"none">>
  /\ ret = "ok"

Returns(c, v) == call' = c /\ ret' = v

\* Mutant: does not run the destructor.
destroy_value_skips(x) == [x EXCEPT !.has = FALSE]

destroy_value(x) == IF x.has THEN [x EXCEPT !.held = None, !.has = FALSE] ELSE x

\* There should be a T here, and there is none; the other way round.
Missing(x) == x.has /\ x.held = None
Left(x)    == ~x.has /\ x.held # None

construct_value(x, v) == [x EXCEPT !.held = v, !.has = TRUE]

\* Mutant: forgets the error.
assign_from_value_only(x, o) ==
  IF o.has THEN construct_value([x EXCEPT !.has = TRUE], o.held) ELSE [x EXCEPT !.has = FALSE]

\* has_value_ = other.has_value_, then other's T or its error.
assign_from(x, o) ==
  IF o.has THEN construct_value([x EXCEPT !.has = TRUE], o.held)
  ELSE [x EXCEPT !.has = FALSE, !.err = o.err]

\* Mutant: ends the life of the T that was moved from.
moved_from_destroys(o) == [o EXCEPT !.held = None]

\* What a move leaves of the source: its T, moved from, if it had one.
moved_from(o) == IF o.has THEN [o EXCEPT !.held = Gone] ELSE o

\* The constructor of T throws.
Thrown(c) == Returns(c, "thrown")

-----------------------------------------------------------------------------
\* Factories and constructors.  One that throws leaves no result behind.

success(r, v) ==
  /\ r \notin alive
  /\ \/ /\ alive' = alive \cup {r}
        /\ res' = [res EXCEPT ![r] = construct_value(Default, v)]
        /\ Returns(<<"success", r, v>>, "ok")
     \/ Thrown(<<"success", r, v>>) /\ UNCHANGED <<alive, res>>
  /\ UNCHANGED <<fault, lost, torn>>

failure(r, e) ==
  /\ r \notin alive
  /\ alive' = alive \cup {r}
  /\ res' = [res EXCEPT ![r] = [Default EXCEPT !.err = e]]
  /\ Returns(<<"failure", r, e>>, "ok")
  /\ UNCHANGED <<fault, lost, torn>>

CopyConstruct(r, o) ==
  /\ r \notin alive /\ o \in alive
  /\ \/ /\ alive' = alive \cup {r}
        /\ res' = [res EXCEPT ![r] = assign_from(Default, res[o])]
        /\ Returns(<<"copy", r, o>>, "ok")
     \/ res[o].has /\ Thrown(<<"copy", r, o>>) /\ UNCHANGED <<alive, res>>
  /\ fault' = (fault \/ Missing(res[o]))
  /\ UNCHANGED <<lost, torn>>

MoveConstruct(r, o) ==
  /\ r \notin alive /\ o \in alive
  /\ \/ /\ alive' = alive \cup {r}
        /\ res' = [res EXCEPT ![r] = assign_from(Default, res[o]), ![o] = moved_from(res[o])]
        /\ Returns(<<"move", r, o>>, "ok")
     \/ res[o].has /\ Thrown(<<"move", r, o>>) /\ UNCHANGED <<alive, res>>
  /\ fault' = (fault \/ Missing(res[o]))
  /\ UNCHANGED <<lost, torn>>

Destroy(r) ==
  /\ r \in alive
  /\ alive' = alive \ {r}
  /\ res' = [res EXCEPT ![r] = Default]
  /\ Returns(<<"destroy", r>>, "ok")
  /\ fault' = (fault \/ Missing(res[r]))
  /\ lost' = (lost \/ Left(destroy_value(res[r])))
  /\ UNCHANGED torn

-----------------------------------------------------------------------------
\* Assignment.

\* Unless this == &other.  Constructing the T may throw, has_value_ being
\* true by then.
Assign(c, r, o, source) ==
  LET x == destroy_value(res[r])
  IN  /\ r \in alive /\ o \in alive
      /\ \/ r = o /\ Returns(c, "ok") /\ UNCHANGED <<res, fault, lost, torn>>
         \/ /\ r # o
            /\ \/ /\ res' = [res EXCEPT ![r] = assign_from(x, res[o]), ![o] = source]
                  /\ Returns(c, "ok") /\ UNCHANGED torn
               \/ /\ res[o].has /\ Thrown(c)
                  /\ res' = [res EXCEPT ![r] = [x EXCEPT !.has = TRUE]]
                  /\ torn' = torn \cup {r}
            /\ fault' = (fault \/ Missing(res[r]) \/ Missing(res[o]))
            /\ lost' = (lost \/ Left(x))
      /\ UNCHANGED alive

CopyAssign(r, o) == Assign(<<"copy_assign", r, o>>, r, o, res[o])

MoveAssign(r, o) == Assign(<<"move_assign", r, o>>, r, o, moved_from(res[o]))

-----------------------------------------------------------------------------
\* Access.

code(x) == IF x.has THEN "ok" ELSE x.err

Code(r) == r \in alive /\ Returns(<<"code", r>>, code(res[r])) /\ UNCHANGED <<alive, res, fault, lost, torn>>

\* A T is made from value(), by copy or, from an rvalue, by move.  Callers
\* check ok() first.
Value(r, rvalue) ==
  /\ r \in alive /\ res[r].has
  /\ \/ /\ Returns(<<"value", r, rvalue>>, res[r].held)
        /\ res' = [res EXCEPT ![r] = IF rvalue THEN moved_from(res[r]) ELSE res[r]]
     \/ Thrown(<<"value", r, rvalue>>) /\ UNCHANGED res
  /\ fault' = (fault \/ Missing(res[r]))
  /\ UNCHANGED <<alive, lost, torn>>

ValueOr(r, fallback, rvalue) ==
  LET c == <<"value_or", r, fallback, rvalue>>
  IN  /\ r \in alive
      /\ \/ /\ Returns(c, IF res[r].has THEN res[r].held ELSE fallback)
            /\ res' = [res EXCEPT ![r] = IF rvalue THEN moved_from(res[r]) ELSE res[r]]
         \/ Thrown(c) /\ UNCHANGED res
      /\ fault' = (fault \/ Missing(res[r]))
      /\ UNCHANGED <<alive, lost, torn>>

Next ==
  \E r \in Results :
    \/ Destroy(r) \/ Code(r)
    \/ \E v \in Values : success(r, v) \/ \E rvalue \in BOOLEAN : ValueOr(r, v, rvalue)
    \/ \E e \in Errors : failure(r, e)
    \/ \E rvalue \in BOOLEAN : Value(r, rvalue)
    \/ \E o \in Results :
         CopyConstruct(r, o) \/ MoveConstruct(r, o) \/ CopyAssign(r, o) \/ MoveAssign(r, o)

Spec == Init /\ [][Next]_vars

-----------------------------------------------------------------------------
(***************************************************************************)
(* Properties.                                                             *)
(***************************************************************************)

\* "Either a T or an error_info": ok() is true exactly when there is a T in
\* the storage, so that no T is used or destroyed that was never made,
\* whichever copies and moves come before.  The exception is a result in whose
\* assignment T's constructor threw (has_value_ is true by then); until
\* somebody touches that result every other one is as it should be.
EitherOr ==
  IF fault THEN torn # {}
  ELSE \A r \in alive \ torn : res[r].has = (res[r].held # None)

\* Every T that was made is destroyed, also when an assignment throws half-way,
\* for as long as nobody touches a T that is not there (destroy_value).
NoneLost == fault \/ ~lost

Abs == INSTANCE AbstractResult
         WITH holds <- [r \in Results |-> IF res[r].has THEN res[r].held ELSE res[r].err]

\* A result is a variable that holds one value or one error: copies leave the
\* source, moves leave a T moved from, a constructor or value_or that throws
\* changes nothing, and whoever asks gets what was put in last, be it through
\* a chain of results of either kind; until an assignment throws.
Implements == Abs!Init /\ [][torn' # {} \/ Abs!Next]_vars
=============================================================================
