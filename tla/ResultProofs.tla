---------------------------- MODULE ResultProofs ----------------------------
(***************************************************************************)
(* Theorems about Result, for any number of results and any values and     *)
(* errors, T's constructors being free to throw at every call.             *)
(***************************************************************************)
EXTENDS Result, TLAPS

Held == Values \cup {Gone, None}

Shape ==
  /\ alive \subseteq Results /\ torn \subseteq Results
  /\ fault \in BOOLEAN /\ lost \in BOOLEAN
  /\ res \in [Results -> [has : BOOLEAN, held : Held, err : Errors \cup {"ok"}]]

\* EitherOr says nothing of a torn result, but a T must not be left in one
\* either, or the next assignment to it would lose that T.
Clean ==
  /\ ~lost
  /\ \A r \in alive : ~Left(res[r]) /\ (r \notin torn => ~Missing(res[r]))

Inv == Shape /\ (IF fault THEN torn # {} ELSE Clean)

-----------------------------------------------------------------------------
\* The helpers keep the shape of a result and make flag and storage agree.

\* The fields of one result.
Record == [has : BOOLEAN, held : Held, err : Errors \cup {"ok"}]

\* Default, the factories and a copy or move of a sound result are sound.
LEMMA ConstructSound ==
  /\ Default \in Record /\ ~Left(Default) /\ ~Missing(Default)
  /\ \A x \in Record, v \in Values :
       LET y == construct_value(x, v) IN y \in Record /\ ~Left(y) /\ ~Missing(y)
BY ResultAssumption DEF Default, Record, Held, Left, Missing, construct_value

\* destroy_value leaves neither a T nor the claim of one, unless a T was left
\* behind before.
LEMMA DestroySound ==
  ASSUME NEW x \in Record
  PROVE  LET y == destroy_value(x)
         IN  /\ y \in Record /\ ~Missing(y)
             /\ Left(y) = Left(x)
BY DEF Record, Held, Left, Missing, destroy_value

\* What is assigned from a result that is not torn is sound.
LEMMA AssignSound ==
  ASSUME NEW x \in Record, NEW o \in Record, ~Missing(o), ~Left(x)
  PROVE  /\ assign_from(destroy_value(x), o) \in Record
         /\ ~Left(assign_from(destroy_value(x), o))
         /\ ~Missing(assign_from(destroy_value(x), o))
BY DEF Record, Held, Left, Missing, assign_from, construct_value, destroy_value

\* Shape only, whatever the two results are.
LEMMA AssignShape ==
  ASSUME NEW x \in Record, NEW o \in Record
  PROVE  assign_from(x, o) \in Record
BY DEF Record, Held, assign_from, construct_value

\* A T that was moved from is still a T.
LEMMA MovedSound ==
  ASSUME NEW o \in Record
  PROVE  /\ moved_from(o) \in Record
         /\ Left(moved_from(o)) => Left(o)
         /\ Missing(moved_from(o)) => Missing(o)
BY ResultAssumption DEF Record, Held, Left, Missing, moved_from

-----------------------------------------------------------------------------
\* One step.

\* Whoever touches a result that lacks its T touches a torn one.
LEMMA TouchTorn ==
  ASSUME Inv, NEW o \in alive, Missing(res[o])
  PROVE  torn # {}
BY DEF Inv, Clean, Shape

\* A step that makes only sound results, or touches a torn one, keeps Inv.
LEMMA StepInv ==
  ASSUME Inv,
         alive' \subseteq Results, res' \in [Results -> Record],
         torn' \subseteq Results, torn \subseteq torn',
         fault' \in BOOLEAN, lost' \in BOOLEAN, fault => fault',
         fault' /\ ~fault => torn # {},
         ~fault' => ~lost',
         ~fault' => \A r \in alive' : ~Left(res'[r]) /\ (r \notin torn' => ~Missing(res'[r]))
  PROVE  Inv'
<1>1. Shape'
  BY DEF Inv, Shape, Record
<1>2. CASE fault'
  <2>1. torn' # {}
    BY <1>2 DEF Inv
  <2> QED
    BY <1>1, <1>2, <2>1 DEF Inv
<1>3. CASE ~fault'
  BY <1>1, <1>3, Zenon DEF Inv, Clean, Left, Missing
<1> QED
  BY <1>2, <1>3

\* The invariant holds before any result is made.
LEMMA InitInv == Init => Inv
BY ConstructSound DEF Init, Inv, Shape, Clean, Record

\* success.
LEMMA success_Inv ==
  ASSUME Inv, NEW r \in Results, NEW v \in Values, success(r, v)
  PROVE  Inv'
<1> DEFINE y == construct_value(Default, v)
<1>1. y \in Record /\ ~Left(y) /\ ~Missing(y)
  BY ConstructSound
<1>2. CASE alive' = alive \cup {r} /\ res' = [res EXCEPT ![r] = y]
  <2> HIDE DEF y
  <2> QED
    BY <1>1, <1>2, StepInv DEF success, Inv, Shape, Clean, Record
<1>3. CASE UNCHANGED <<alive, res>>
  BY <1>3, StepInv DEF success, Inv, Shape, Clean, Record
<1> QED
  BY <1>2, <1>3 DEF success

\* failure.
LEMMA failure_Inv ==
  ASSUME Inv, NEW r \in Results, NEW e \in Errors, failure(r, e)
  PROVE  Inv'
<1> DEFINE y == [Default EXCEPT !.err = e]
<1>1. y \in Record /\ ~Left(y) /\ ~Missing(y)
  BY DEF Default, Record, Held, Left, Missing
<1>2. alive' = alive \cup {r} /\ res' = [res EXCEPT ![r] = y] /\ UNCHANGED <<fault, lost, torn>>
  BY DEF failure
<1> HIDE DEF y
<1> QED
  BY <1>1, <1>2, StepInv DEF Inv, Shape, Clean, Record

\* A result made from o: nothing but o is touched, and z is what is left of it.
LEMMA FromInv ==
  ASSUME Inv, NEW r \in Results, NEW o \in alive, NEW z \in Record,
         Left(z) => Left(res[o]), Missing(z) => Missing(res[o]),
         \/ alive' = alive \cup {r} /\ res' = [res EXCEPT ![r] = assign_from(Default, res[o]), ![o] = z]
         \/ UNCHANGED <<alive, res>>,
         r # o, fault' = (fault \/ Missing(res[o])), UNCHANGED <<lost, torn>>
  PROVE  Inv'
<1> DEFINE y == assign_from(Default, res[o])
<1>1. res[o] \in Record /\ Default \in Record /\ o \in Results
  BY ConstructSound DEF Inv, Shape, Record
<1>2. y \in Record
  BY <1>1, AssignShape
<1>3. ~Missing(res[o]) => ~Left(y) /\ ~Missing(y)
  <2>1. destroy_value(Default) = Default
    BY DEF destroy_value, Default
  <2> QED
    BY <1>1, <2>1, ConstructSound, AssignSound
<1>4. Missing(res[o]) => torn # {}
  BY TouchTorn
<1>5. fault' \in BOOLEAN
  BY DEF Inv, Shape, Missing, Record
<1>6. CASE alive' = alive \cup {r} /\ res' = [res EXCEPT ![r] = y, ![o] = z]
  <2> HIDE DEF y
  <2>1. res' \in [Results -> Record] /\ alive' \subseteq Results
    BY <1>2, <1>6, <1>1 DEF Inv, Shape, Record
  <2>2. res'[r] = y /\ res'[o] = z /\ \A q \in Results \ {r, o} : res'[q] = res[q]
    BY <1>6, <1>1 DEF Inv, Shape
  <2>3. ASSUME ~fault'
        PROVE  \A q \in alive' : ~Left(res'[q]) /\ (q \notin torn' => ~Missing(res'[q]))
    <3>1. ~fault /\ ~Missing(res[o]) /\ Clean /\ ~Left(y) /\ ~Missing(y)
      BY <2>3, <1>3 DEF Inv
    <3>2. ~Left(z) /\ ~Missing(z)
      BY <3>1 DEF Clean
    <3> QED
      BY <3>1, <3>2, <2>2, <1>6 DEF Clean, Inv, Shape
  <2> QED
    BY <1>4, <1>5, <2>1, <2>3, StepInv DEF Inv, Shape, Clean
<1>7. CASE UNCHANGED <<alive, res>>
  BY <1>4, <1>5, <1>7, StepInv DEF Inv, Shape, Clean, Record
<1> QED
  BY <1>6, <1>7

\* The copy constructor.
LEMMA CopyConstruct_Inv ==
  ASSUME Inv, NEW r \in Results, NEW o \in Results, CopyConstruct(r, o)
  PROVE  Inv'
<1>1. o \in alive /\ r # o /\ res[o] \in Record
  BY DEF CopyConstruct, Inv, Shape, Record
<1>2. [res EXCEPT ![r] = assign_from(Default, res[o])]
        = [res EXCEPT ![r] = assign_from(Default, res[o]), ![o] = res[o]]
  BY <1>1 DEF Inv, Shape
<1> QED
  BY <1>1, <1>2, FromInv DEF CopyConstruct

\* The move constructor.
LEMMA MoveConstruct_Inv ==
  ASSUME Inv, NEW r \in Results, NEW o \in Results, MoveConstruct(r, o)
  PROVE  Inv'
<1>1. o \in alive /\ r # o /\ res[o] \in Record
  BY DEF MoveConstruct, Inv, Shape, Record
<1> QED
  BY <1>1, MovedSound, FromInv DEF MoveConstruct

\* The destructor.
LEMMA Destroy_Inv ==
  ASSUME Inv, NEW r \in Results, Destroy(r)
  PROVE  Inv'
<1>1. r \in alive /\ res[r] \in Record /\ fault' = (fault \/ Missing(res[r]))
  BY DEF Destroy, Inv, Shape, Record
<1>2. Missing(res[r]) => torn # {}
  BY <1>1, TouchTorn
<1>3. lost' = (lost \/ Left(res[r]))
  BY <1>1, DestroySound DEF Destroy
<1>4. fault' \in BOOLEAN /\ lost' \in BOOLEAN
  BY <1>1, <1>3 DEF Inv, Shape, Missing, Left, Record
<1>5. ~fault' => ~lost'
  BY <1>1, <1>3 DEF Inv, Clean
<1>6. res' \in [Results -> Record] /\ \A q \in Results \ {r} : res'[q] = res[q]
  BY ConstructSound DEF Destroy, Inv, Shape, Record
<1> QED
  BY <1>1, <1>2, <1>4, <1>5, <1>6, StepInv DEF Destroy, Inv, Shape, Clean

\* Both assignments.  The one that throws leaves r torn and empty, so that
\* nothing is in it that could be lost.
LEMMA AssignInv ==
  ASSUME Inv, NEW c, NEW r \in Results, NEW o \in Results, NEW z \in Record,
         Left(z) => Left(res[o]), Missing(z) => Missing(res[o]), Assign(c, r, o, z)
  PROVE  Inv'
<1> DEFINE x == destroy_value(res[r])
           y == assign_from(x, res[o])
           w == [x EXCEPT !.has = TRUE]
<1>1. r \in alive /\ o \in alive /\ res[r] \in Record /\ res[o] \in Record
  BY DEF Assign, Inv, Shape, Record
<1>2. x \in Record /\ y \in Record /\ w \in Record /\ ~Left(w)
  <2>1. x \in Record
    BY <1>1, DestroySound
  <2> HIDE DEF x
  <2> QED
    BY <1>1, <2>1, AssignShape DEF Record, Left
<1>3. CASE r = o /\ UNCHANGED <<alive, res, fault, lost, torn>>
  BY <1>3, StepInv DEF Inv, Shape, Clean, Record
<1>4. CASE r # o
  <2>1. fault' = (fault \/ Missing(res[r]) \/ Missing(res[o])) /\ alive' = alive
    BY <1>4 DEF Assign
  <2>2. lost' = (lost \/ Left(res[r]))
    BY <1>1, <1>4, DestroySound DEF Assign
  <2>3. fault' \in BOOLEAN /\ lost' \in BOOLEAN
    BY <1>1, <2>1, <2>2 DEF Inv, Shape, Missing, Left, Record
  <2>4. Missing(res[r]) \/ Missing(res[o]) => torn # {}
    BY <1>1, TouchTorn
  <2>5. ~fault' => ~fault /\ ~lost' /\ Clean /\ ~Missing(res[o])
                     /\ ~Left(y) /\ ~Missing(y) /\ ~Left(z) /\ ~Missing(z)
    BY <1>1, <2>1, <2>2, AssignSound DEF Inv, Clean
  <2>6. \/ res' = [res EXCEPT ![r] = y, ![o] = z] /\ torn' = torn
        \/ res' = [res EXCEPT ![r] = w] /\ torn' = torn \cup {r}
    BY <1>4 DEF Assign
  <2> HIDE DEF x, y, w
  <2>7. CASE res' = [res EXCEPT ![r] = y, ![o] = z] /\ torn' = torn
    <3>1. res' \in [Results -> Record]
      BY <1>2, <2>7 DEF Inv, Shape, Record
    <3>2. res'[r] = y /\ res'[o] = z /\ \A q \in Results \ {r, o} : res'[q] = res[q]
      BY <1>4, <2>7 DEF Inv, Shape
    <3>3. ~fault' => \A q \in alive' : ~Left(res'[q]) /\ (q \notin torn' => ~Missing(res'[q]))
      BY <2>1, <2>5, <2>7, <3>2 DEF Clean, Inv, Shape
    <3> QED
      BY <2>1, <2>3, <2>4, <2>5, <2>7, <3>1, <3>3, StepInv DEF Inv, Shape
  <2>8. CASE res' = [res EXCEPT ![r] = w] /\ torn' = torn \cup {r}
    <3>1. res' \in [Results -> Record]
      BY <1>2, <2>8 DEF Inv, Shape, Record
    <3>2. res'[r] = w /\ \A q \in Results \ {r} : res'[q] = res[q]
      BY <2>8 DEF Inv, Shape
    <3>3. ~fault' => \A q \in alive' : ~Left(res'[q]) /\ (q \notin torn' => ~Missing(res'[q]))
      BY <1>2, <2>1, <2>5, <2>8, <3>2 DEF Clean, Inv, Shape
    <3> QED
      BY <2>1, <2>3, <2>4, <2>5, <2>8, <3>1, <3>3, StepInv DEF Inv, Shape
  <2> QED
    BY <2>6, <2>7, <2>8
<1> QED
  BY <1>3, <1>4 DEF Assign

\* value() and value_or(): r may be moved from.
LEMMA AccessInv ==
  ASSUME Inv, NEW r \in alive, NEW rvalue \in BOOLEAN,
         \/ res' = [res EXCEPT ![r] = IF rvalue THEN moved_from(res[r]) ELSE res[r]]
         \/ UNCHANGED res,
         fault' = (fault \/ Missing(res[r])), UNCHANGED <<alive, lost, torn>>
  PROVE  Inv'
<1> DEFINE z == IF rvalue THEN moved_from(res[r]) ELSE res[r]
<1>1. r \in Results /\ res[r] \in Record
  BY DEF Inv, Shape, Record
<1>2. z \in Record /\ (Left(z) => Left(res[r])) /\ (Missing(z) => Missing(res[r]))
  BY <1>1, MovedSound
<1>3. Missing(res[r]) => torn # {}
  BY TouchTorn
<1>4. fault' \in BOOLEAN
  BY DEF Inv, Shape, Missing, Record
<1>5. CASE res' = [res EXCEPT ![r] = z]
  <2> HIDE DEF z
  <2>1. res' \in [Results -> Record]
    BY <1>2, <1>5 DEF Inv, Shape, Record
  <2>2. res'[r] = z /\ \A q \in Results \ {r} : res'[q] = res[q]
    BY <1>1, <1>5 DEF Inv, Shape
  <2>3. ~fault' => \A q \in alive' : ~Left(res'[q]) /\ (q \notin torn' => ~Missing(res'[q]))
    BY <1>2, <2>2 DEF Clean, Inv, Shape
  <2> QED
    BY <1>3, <1>4, <2>1, <2>3, StepInv DEF Inv, Shape, Clean
<1>6. CASE UNCHANGED res
  BY <1>3, <1>4, <1>6, StepInv DEF Inv, Shape, Clean, Record
<1> QED
  BY <1>5, <1>6

-----------------------------------------------------------------------------
\* The theorems.

\* Every step keeps the invariant.
LEMMA NextInv == Inv /\ [Next]_vars => Inv'
<1> SUFFICES ASSUME Inv, [Next]_vars
             PROVE  Inv'
  OBVIOUS
<1>1. CASE UNCHANGED vars
  BY <1>1 DEF vars, Inv, Shape, Clean, Left, Missing
<1>2. CASE Next
  <2>1. PICK r \in Results :
          \/ Destroy(r) \/ Code(r)
          \/ \E v \in Values : success(r, v) \/ \E rvalue \in BOOLEAN : ValueOr(r, v, rvalue)
          \/ \E e \in Errors : failure(r, e)
          \/ \E rvalue \in BOOLEAN : Value(r, rvalue)
          \/ \E o \in Results :
               CopyConstruct(r, o) \/ MoveConstruct(r, o) \/ CopyAssign(r, o) \/ MoveAssign(r, o)
    BY <1>2 DEF Next
  <2>2. CASE Destroy(r)
    BY <2>2, Destroy_Inv
  <2>3. CASE Code(r)
    BY <2>3 DEF Code, Inv, Shape, Clean, Left, Missing
  <2>4. ASSUME NEW v \in Values, success(r, v)
        PROVE  Inv'
    BY <2>4, success_Inv
  <2>5. ASSUME NEW v \in Values, NEW rvalue \in BOOLEAN, ValueOr(r, v, rvalue)
        PROVE  Inv'
    BY <2>5, AccessInv DEF ValueOr
  <2>6. ASSUME NEW e \in Errors, failure(r, e)
        PROVE  Inv'
    BY <2>6, failure_Inv
  <2>7. ASSUME NEW rvalue \in BOOLEAN, Value(r, rvalue)
        PROVE  Inv'
    BY <2>7, AccessInv DEF Value
  <2>8. ASSUME NEW o \in Results, CopyConstruct(r, o) \/ MoveConstruct(r, o)
        PROVE  Inv'
    BY <2>8, CopyConstruct_Inv, MoveConstruct_Inv
  <2>9. ASSUME NEW o \in Results, CopyAssign(r, o) \/ MoveAssign(r, o)
        PROVE  Inv'
    <3>1. res[o] \in Record
      BY DEF Inv, Shape, Record
    <3> QED
      BY <2>9, <3>1, AssignInv, MovedSound DEF CopyAssign, MoveAssign
  <2> QED
    BY <2>1, <2>2, <2>3, <2>4, <2>5, <2>6, <2>7, <2>8, <2>9
<1> QED
  BY <1>1, <1>2

\* ok() never claims a T that is not there and never hides one, and no T is
\* used or destroyed that was never made, until an assignment throws; after
\* that only the results it was thrown in are in doubt (result.h:65-82).
THEOREM AlwaysEitherOr == Spec => []EitherOr
<1>1. Inv => EitherOr
  BY DEF Inv, Shape, Clean, EitherOr, Left, Missing
<1> QED
  BY <1>1, InitInv, NextInv, PTL DEF Spec

\* Every T that was made is destroyed once, throwing assignments included, as
\* long as no result is touched that lacks its T (result.h:115-120).
THEOREM NeverLost == Spec => []NoneLost
<1>1. Inv => NoneLost
  BY DEF Inv, Clean, NoneLost
<1> QED
  BY <1>1, InitInv, NextInv, PTL DEF Spec

-----------------------------------------------------------------------------
(***************************************************************************)
(* The refinement of AbstractResult.                                       *)
(***************************************************************************)

\* What a result with the fields x stands for.
Stands(x) == IF x.has THEN x.held ELSE x.err

Holds == [r \in Results |-> IF res[r].has THEN res[r].held ELSE res[r].err]

\* A result that says what it holds: a T that is there, or an error that is
\* one; result() alone, before a factory has filled it, has neither.
Settled(x) == x \in Record /\ ~Missing(x) /\ (~x.has => x.err \in Errors)

\* Until an assignment throws, every live result is settled.
Calm == torn = {} => \A r \in alive : Settled(res[r])

\* What the helpers make of a settled result is settled and stands for the same,
\* or for a T that was moved from.
LEMMA HelpersStand ==
  ASSUME NEW x, Settled(x)
  PROVE  /\ \A w \in Record : Settled(assign_from(w, x)) /\ Stands(assign_from(w, x)) = Stands(x)
         /\ Settled(moved_from(x)) /\ Stands(moved_from(x)) = Abs!Spent(Stands(x))
         /\ Stands(x) \in Values \cup {Gone} <=> x.has
<1>1. x \in Record /\ x.has \in BOOLEAN /\ x.held \in Held /\ x.err \in Errors \cup {"ok"}
  BY DEF Settled, Record
<1>2. ASSUME NEW w \in Record
      PROVE  Settled(assign_from(w, x)) /\ Stands(assign_from(w, x)) = Stands(x)
  BY <1>1, <1>2 DEF Settled, Stands, Missing, Record, assign_from, construct_value
<1>3. Settled(moved_from(x)) /\ Stands(moved_from(x)) = Abs!Spent(Stands(x))
  BY <1>1, ResultAssumption DEF Settled, Stands, Missing, Record, Held, moved_from, Abs!Spent
<1>4. Stands(x) \in Values \cup {Gone} <=> x.has
  BY <1>1, ResultAssumption DEF Settled, Stands, Missing, Record, Held
<1> QED BY <1>2, <1>3, <1>4

\* One result gets new fields.
LEMMA PutIs ==
  ASSUME Inv, NEW r \in Results, NEW y, res' = [res EXCEPT ![r] = y], NEW v, v = Stands(y)
  PROVE  Holds' = [Holds EXCEPT ![r] = v]
BY DEF Inv, Shape, Holds, Stands

\* One result gets what another had, of which z is left.
LEMMA MoveIs ==
  ASSUME Inv, NEW r \in Results, NEW o \in Results, r # o, NEW y, NEW z,
         res' = [res EXCEPT ![r] = y, ![o] = z],
         Stands(y) = Stands(res[o]), Stands(z) = Abs!Spent(Stands(res[o]))
  PROVE  Abs!Move(r, o)
<1>1. Holds[o] = Stands(res[o])
  BY DEF Holds, Stands
<1>2. Holds' = [Holds EXCEPT ![o] = Abs!Spent(Holds[o]), ![r] = Holds[o]]
  BY <1>1 DEF Inv, Shape, Holds, Stands
<1> QED BY <1>2 DEF Abs!Move, Holds

\* The abstract steps, in the terms above.
LEMMA NewTerms ==
  ASSUME NEW r, NEW a, call'[2] = r, call'[3] = a, r \notin alive, alive' = alive \cup {r},
         \/ call'[1] \in {"success", "failure"} /\ Holds' = [Holds EXCEPT ![r] = a]
         \/ call'[1] = "copy" /\ Holds' = [Holds EXCEPT ![r] = Holds[a]]
         \/ call'[1] = "move" /\ Abs!Move(r, a)
  PROVE  Abs!Next
<1>1. Abs!New(call')
  BY DEF Abs!New, Abs!Put, Abs!Move, Holds
<1> QED BY <1>1 DEF Abs!Next

\* Likewise.
LEMMA UseTerms ==
  ASSUME NEW r, NEW a, call'[2] = r, r \in alive, alive' = alive,
         \/ call'[1] = "copy_assign" /\ call'[3] = a /\ Holds' = [Holds EXCEPT ![r] = Holds[a]]
         \/ call'[1] = "move_assign" /\ call'[3] = a /\ (r = a => res' = res) /\ (r # a => Abs!Move(r, a))
         \/ call'[1] = "code" /\ ret' = (IF Abs!Ok(r) THEN "ok" ELSE Holds[r]) /\ res' = res
         \/ call'[1] = "value" /\ call'[3] = a /\ ret' = Holds[r] /\ Abs!Give(r, a)
         \/ /\ call'[1] = "value_or" /\ call'[4] = a /\ Abs!Give(r, a)
            /\ ret' = (IF Abs!Ok(r) THEN Holds[r] ELSE call'[3])
  PROVE  Abs!Next
<1>2. Abs!Use(call')
  <2>1. CASE call'[1] = "copy_assign" /\ call'[3] = a /\ Holds' = [Holds EXCEPT ![r] = Holds[a]]
    BY <2>1 DEF Abs!Use, Abs!Put, Holds
  <2>2. CASE call'[1] = "move_assign" /\ call'[3] = a /\ (r = a => res' = res) /\ (r # a => Abs!Move(r, a))
    <3>1. CASE r = a
      BY <2>2, <3>1 DEF Abs!Use
    <3>2. CASE r # a
      BY <2>2, <3>2 DEF Abs!Use, Abs!Move
    <3> QED BY <3>1, <3>2
  <2>3. CASE call'[1] = "code" /\ ret' = (IF Abs!Ok(r) THEN "ok" ELSE Holds[r]) /\ res' = res
    BY <2>3 DEF Abs!Use, Abs!Ok, Holds
  <2>4. CASE call'[1] = "value" /\ call'[3] = a /\ ret' = Holds[r] /\ Abs!Give(r, a)
    BY <2>4 DEF Abs!Use, Abs!Give, Abs!Put, Holds
  <2>5. CASE /\ call'[1] = "value_or" /\ call'[4] = a /\ Abs!Give(r, a)
             /\ ret' = (IF Abs!Ok(r) THEN Holds[r] ELSE call'[3])
    BY <2>5 DEF Abs!Use, Abs!Give, Abs!Put, Abs!Ok, Holds
  <2> QED BY <2>1, <2>2, <2>3, <2>4, <2>5
<1> QED BY <1>2 DEF Abs!Next

\* A constructor that throws.
LEMMA ThrowIs ==
  ASSUME NEW c, Thrown(c), UNCHANGED <<alive, res>>
  PROVE  Abs!Next
BY DEF Thrown, Returns, Abs!Next, Abs!Throw

\* A new result; with another one, its source, which it may be moved from.
LEMMA NewIs ==
  ASSUME Inv, Calm, torn = {}, NEW r \in Results, r \notin alive,
         \/ \E v \in Values : success(r, v)
         \/ \E e \in Errors : failure(r, e)
         \/ \E o \in Results : CopyConstruct(r, o) \/ MoveConstruct(r, o)
  PROVE  Calm' /\ Abs!Next
<1>1. ASSUME NEW v \in Values, success(r, v) PROVE Calm' /\ Abs!Next
  <2>1. PICK y, c : y = construct_value(Default, v) /\ c = <<"success", r, v>>
    OBVIOUS
  <2>2. Settled(y) /\ Stands(y) = v
    BY <2>1, ResultAssumption DEF Settled, Stands, Missing, Record, Held, Default, construct_value
  <2>3. CASE Thrown(c) /\ UNCHANGED <<alive, res>>
    BY <1>1, <2>3, ThrowIs DEF success, Calm
  <2>4. CASE alive' = alive \cup {r} /\ res' = [res EXCEPT ![r] = y] /\ Returns(c, "ok")
    <3>1. Calm'
      BY <1>1, <2>2, <2>4 DEF Calm, Inv, Shape, success
    <3>2. Holds' = [Holds EXCEPT ![r] = v]
      BY <2>2, <2>4, PutIs
    <3>3. call'[1] = "success" /\ call'[2] = r /\ call'[3] = v
      BY <2>1, <2>4 DEF Returns
    <3> QED BY <2>4, <3>1, <3>2, <3>3, NewTerms
  <2> QED BY <1>1, <2>1, <2>3, <2>4 DEF success
<1>2. ASSUME NEW e \in Errors, failure(r, e) PROVE Calm' /\ Abs!Next
  <2>1. PICK y : y = [Default EXCEPT !.err = e]
    OBVIOUS
  <2>2. Settled(y) /\ Stands(y) = e
    BY <2>1 DEF Settled, Stands, Missing, Record, Held, Default
  <2>3. alive' = alive \cup {r} /\ res' = [res EXCEPT ![r] = y] /\ call' = <<"failure", r, e>>
    BY <1>2, <2>1 DEF failure, Returns
  <2>4. Calm'
    BY <1>2, <2>2, <2>3 DEF Calm, Inv, Shape, failure
  <2>5. Holds' = [Holds EXCEPT ![r] = e]
    BY <2>2, <2>3, PutIs
  <2>6. call'[1] = "failure" /\ call'[2] = r /\ call'[3] = e
    BY <2>3
  <2> QED BY <2>3, <2>4, <2>5, <2>6, NewTerms
<1>3. ASSUME NEW o \in Results, CopyConstruct(r, o) PROVE Calm' /\ Abs!Next
  <2>1. PICK y, c : y = assign_from(Default, res[o]) /\ c = <<"copy", r, o>>
    OBVIOUS
  <2>2. Settled(y) /\ Stands(y) = Stands(res[o]) /\ Stands(res[o]) = Holds[o]
    BY <1>3, <2>1, HelpersStand, ConstructSound DEF CopyConstruct, Calm, Holds, Stands
  <2>3. CASE Thrown(c) /\ UNCHANGED <<alive, res>>
    BY <1>3, <2>3, ThrowIs DEF CopyConstruct, Calm
  <2>4. CASE alive' = alive \cup {r} /\ res' = [res EXCEPT ![r] = y] /\ Returns(c, "ok")
    <3>1. Calm'
      BY <1>3, <2>2, <2>4 DEF Calm, Inv, Shape, CopyConstruct
    <3>2. Holds' = [Holds EXCEPT ![r] = Holds[o]]
      <4>1. PICK v : v = Holds[o]
        OBVIOUS
      <4> QED BY <2>2, <2>4, <4>1, PutIs
    <3>3. call'[1] = "copy" /\ call'[2] = r /\ call'[3] = o
      BY <2>1, <2>4 DEF Returns
    <3> QED BY <2>4, <3>1, <3>2, <3>3, NewTerms
  <2> QED BY <1>3, <2>1, <2>3, <2>4 DEF CopyConstruct
<1>4. ASSUME NEW o \in Results, MoveConstruct(r, o) PROVE Calm' /\ Abs!Next
  <2>1. PICK y, z, c : y = assign_from(Default, res[o]) /\ z = moved_from(res[o]) /\ c = <<"move", r, o>>
    OBVIOUS
  <2>2. /\ Settled(y) /\ Stands(y) = Stands(res[o]) /\ r # o
        /\ Settled(z) /\ Stands(z) = Abs!Spent(Stands(res[o]))
    BY <1>4, <2>1, HelpersStand, ConstructSound DEF MoveConstruct, Calm
  <2>3. CASE Thrown(c) /\ UNCHANGED <<alive, res>>
    BY <1>4, <2>3, ThrowIs DEF MoveConstruct, Calm
  <2>4. CASE alive' = alive \cup {r} /\ res' = [res EXCEPT ![r] = y, ![o] = z] /\ Returns(c, "ok")
    <3>1. Calm'
      BY <1>4, <2>2, <2>4 DEF Calm, Inv, Shape, MoveConstruct
    <3>2. Abs!Move(r, o)
      BY <2>2, <2>4, MoveIs
    <3>3. call'[1] = "move" /\ call'[2] = r /\ call'[3] = o
      BY <2>1, <2>4 DEF Returns
    <3> QED BY <2>4, <3>1, <3>2, <3>3, NewTerms
  <2> QED BY <1>4, <2>1, <2>3, <2>4 DEF MoveConstruct
<1> QED BY <1>1, <1>2, <1>3, <1>4

\* The destructor puts the fields of result() in place.
LEMMA DropIs ==
  ASSUME Inv, Calm, torn = {}, NEW r \in Results, Destroy(r)
  PROVE  Calm' /\ Abs!Next
<1>1. alive' = alive \ {r} /\ res' = [res EXCEPT ![r] = Default] /\ call' = <<"destroy", r>> /\ torn' = torn
  BY DEF Destroy, Returns
<1>2. Calm'
  BY <1>1 DEF Calm, Inv, Shape
<1>3. Stands(Default) = "ok"
  BY DEF Stands, Default
<1>4. Holds' = [Holds EXCEPT ![r] = "ok"]
  BY <1>1, <1>3, PutIs
<1>5. call'[1] = "destroy" /\ call'[2] = r
  BY <1>1
<1> QED BY <1>1, <1>2, <1>4, <1>5 DEF Abs!Next, Abs!Drop, Abs!Put, Holds

\* An assignment that does not throw.
LEMMA AssignIs ==
  ASSUME Inv, Calm, torn = {}, torn' = {}, NEW r \in Results, NEW o \in Results,
         CopyAssign(r, o) \/ MoveAssign(r, o)
  PROVE  Calm' /\ Abs!Next
<1>1. PICK x : x = destroy_value(res[r])
  OBVIOUS
<1>2. r \in alive /\ o \in alive /\ alive' = alive
  BY DEF CopyAssign, MoveAssign, Assign
<1>3. x \in Record /\ res[o] \in Record /\ Settled(res[o])
  BY <1>1, <1>2, DestroySound DEF Inv, Shape, Record, Calm
<1>4. PICK y, z : y = assign_from(x, res[o]) /\ z = moved_from(res[o])
  OBVIOUS
<1>5. /\ Settled(y) /\ Stands(y) = Stands(res[o]) /\ Settled(z) /\ Stands(z) = Abs!Spent(Stands(res[o]))
      /\ Stands(res[o]) = Holds[o]
  BY <1>3, <1>4, HelpersStand DEF Holds, Stands
<1>6. CASE CopyAssign(r, o)
  <2>1. call' = <<"copy_assign", r, o>> /\ (r = o => res' = res)
        /\ (r # o => res' = [res EXCEPT ![r] = y, ![o] = res[o]])
    BY <1>1, <1>4, <1>6 DEF CopyAssign, Assign, Returns
  <2>2. PICK u : u = IF r = o THEN res[o] ELSE y
    OBVIOUS
  <2>3. res' = [res EXCEPT ![r] = u] /\ Settled(u) /\ Stands(u) = Holds[o]
    BY <1>3, <1>5, <2>1, <2>2 DEF Inv, Shape
  <2>4. Calm'
    BY <1>2, <2>3 DEF Calm, Inv, Shape
  <2>5. Holds' = [Holds EXCEPT ![r] = Holds[o]]
    <3>1. PICK v : v = Holds[o]
      OBVIOUS
    <3> QED BY <2>3, <3>1, PutIs
  <2>6. call'[1] = "copy_assign" /\ call'[2] = r /\ call'[3] = o
    BY <2>1
  <2> QED BY <1>2, <2>4, <2>5, <2>6, UseTerms
<1>7. CASE MoveAssign(r, o)
  <2>1. call' = <<"move_assign", r, o>> /\ (r = o => res' = res)
        /\ (r # o => res' = [res EXCEPT ![r] = y, ![o] = z])
    BY <1>1, <1>4, <1>7 DEF MoveAssign, Assign, Returns
  <2>2. Calm'
    BY <1>2, <1>5, <2>1 DEF Calm, Inv, Shape
  <2>3. r # o => Abs!Move(r, o)
    BY <1>5, <2>1, MoveIs
  <2>4. call'[1] = "move_assign" /\ call'[2] = r /\ call'[3] = o
    BY <2>1
  <2> QED BY <1>2, <2>1, <2>2, <2>3, <2>4, UseTerms
<1> QED BY <1>6, <1>7

\* value() and value_or() hand out what the result stands for.
LEMMA GiveIs ==
  ASSUME Inv, NEW r \in Results, Settled(res[r]), NEW rvalue \in BOOLEAN,
         res' = [res EXCEPT ![r] = IF rvalue THEN moved_from(res[r]) ELSE res[r]]
  PROVE  Abs!Give(r, rvalue) /\ Settled(res'[r]) /\ \A q \in Results \ {r} : res'[q] = res[q]
<1>1. CASE rvalue
  <2>1. PICK z : z = moved_from(res[r])
    OBVIOUS
  <2>2. res' = [res EXCEPT ![r] = z] /\ Settled(z) /\ Stands(z) = Abs!Spent(Stands(res[r]))
        /\ Stands(res[r]) = Holds[r]
    BY <1>1, <2>1, HelpersStand DEF Holds, Stands
  <2>3. Holds' = [Holds EXCEPT ![r] = Abs!Spent(Holds[r])]
    <3>1. PICK v : v = Stands(z)
      OBVIOUS
    <3>2. Holds' = [Holds EXCEPT ![r] = v]
      BY <2>2, <3>1, PutIs
    <3>3. v = Abs!Spent(Holds[r])
      BY <2>2, <3>1 DEF Abs!Spent
    <3> QED BY <3>2, <3>3
  <2>4. Abs!Give(r, rvalue)
    BY <1>1, <2>3 DEF Abs!Give, Abs!Put, Holds
  <2> QED BY <2>2, <2>4 DEF Inv, Shape
<1>2. CASE ~rvalue
  <2>1. res' = res
    BY <1>2 DEF Inv, Shape
  <2>2. Abs!Give(r, rvalue)
    BY <1>2, <2>1 DEF Abs!Give
  <2> QED BY <2>1, <2>2
<1> QED BY <1>1, <1>2

\* Access.
LEMMA UseIs ==
  ASSUME Inv, Calm, torn = {}, NEW r \in Results,
         \/ Code(r)
         \/ \E rvalue \in BOOLEAN : Value(r, rvalue)
         \/ \E v \in Values, rvalue \in BOOLEAN : ValueOr(r, v, rvalue)
  PROVE  Calm' /\ Abs!Next
<1>1. r \in alive /\ Settled(res[r]) /\ Stands(res[r]) = Holds[r] /\ alive' = alive /\ torn' = torn
      /\ (Stands(res[r]) \in Values \cup {Gone} <=> res[r].has)
  <2>1. r \in alive /\ alive' = alive /\ torn' = torn
    BY DEF Code, Value, ValueOr
  <2> QED BY <2>1, HelpersStand DEF Calm, Holds, Stands
<1>2. Abs!Ok(r) <=> res[r].has
  BY <1>1 DEF Abs!Ok, Holds
<1>3. res[r].has => res[r].held = Holds[r]
  BY DEF Holds
<1>4. CASE Code(r)
  <2>1. call'[1] = "code" /\ call'[2] = r /\ res' = res /\ ret' = code(res[r])
    BY <1>4 DEF Code, Returns
  <2>2. ret' = IF Abs!Ok(r) THEN "ok" ELSE Holds[r]
    BY <1>2, <2>1 DEF code, Holds
  <2>3. Calm'
    BY <1>1, <2>1 DEF Calm
  <2> QED BY <1>1, <2>1, <2>2, <2>3 DEF Abs!Next, Abs!Use, Holds
<1>5. ASSUME NEW rvalue \in BOOLEAN, Value(r, rvalue) PROVE Calm' /\ Abs!Next
  <2>1. PICK c : c = <<"value", r, rvalue>>
    OBVIOUS
  <2>2. c[1] = "value" /\ c[2] = r /\ c[3] = rvalue
    BY <2>1
  <2>3. CASE Thrown(c) /\ UNCHANGED res
    BY <1>1, <2>3, ThrowIs DEF Calm
  <2>4. CASE /\ Returns(c, res[r].held)
             /\ res' = [res EXCEPT ![r] = IF rvalue THEN moved_from(res[r]) ELSE res[r]]
    <3>1. Abs!Give(r, rvalue) /\ Settled(res'[r]) /\ \A q \in Results \ {r} : res'[q] = res[q]
      BY <1>1, <2>4, GiveIs
    <3>2. Calm'
      BY <1>1, <3>1 DEF Calm, Inv, Shape
    <3>3. ret' = Holds[r] /\ call' = c
      BY <1>3, <1>5, <2>4 DEF Returns, Value
    <3>4. Abs!Next
      BY <1>1, <2>2, <3>1, <3>3, UseTerms, ZenonT(30)
    <3> QED BY <3>2, <3>4
  <2> QED BY <1>5, <2>1, <2>3, <2>4 DEF Value
<1>6. ASSUME NEW v \in Values, NEW rvalue \in BOOLEAN, ValueOr(r, v, rvalue) PROVE Calm' /\ Abs!Next
  <2>1. PICK c : c = <<"value_or", r, v, rvalue>>
    OBVIOUS
  <2>2. c[1] = "value_or" /\ c[2] = r /\ c[3] = v /\ c[4] = rvalue
    BY <2>1
  <2>3. CASE Thrown(c) /\ UNCHANGED res
    BY <1>1, <2>3, ThrowIs DEF Calm
  <2>4. CASE /\ Returns(c, IF res[r].has THEN res[r].held ELSE v)
             /\ res' = [res EXCEPT ![r] = IF rvalue THEN moved_from(res[r]) ELSE res[r]]
    <3>1. Abs!Give(r, rvalue) /\ Settled(res'[r]) /\ \A q \in Results \ {r} : res'[q] = res[q]
      BY <1>1, <2>4, GiveIs
    <3>2. Calm'
      BY <1>1, <3>1 DEF Calm, Inv, Shape
    <3>3. ret' = (IF Abs!Ok(r) THEN Holds[r] ELSE v) /\ call' = c
      BY <1>2, <1>3, <2>4 DEF Returns
    <3>4. Abs!Next
      BY <1>1, <2>2, <3>1, <3>3, UseTerms, ZenonT(30)
    <3> QED BY <3>2, <3>4
  <2> QED BY <1>6, <2>1, <2>3, <2>4 DEF ValueOr
<1> QED BY <1>4, <1>5, <1>6

\* Every step, until an assignment throws.
LEMMA NextIs ==
  ASSUME Inv, Calm, [Next]_vars
  PROVE  Calm' /\ [torn' # {} \/ Abs!Next]_vars
<1>1. CASE UNCHANGED vars
  BY <1>1 DEF vars, Calm
<1>2. CASE torn' # {}
  BY <1>2 DEF Calm
<1>3. CASE Next /\ torn' = {}
  <2>1. PICK r \in Results :
          \/ Destroy(r) \/ Code(r)
          \/ \E v \in Values : success(r, v) \/ \E rvalue \in BOOLEAN : ValueOr(r, v, rvalue)
          \/ \E e \in Errors : failure(r, e)
          \/ \E rvalue \in BOOLEAN : Value(r, rvalue)
          \/ \E o \in Results :
               CopyConstruct(r, o) \/ MoveConstruct(r, o) \/ CopyAssign(r, o) \/ MoveAssign(r, o)
    BY <1>3 DEF Next
  <2>2. torn = {}
    BY <1>3, <2>1 DEF Destroy, Code, success, ValueOr, failure, Value, CopyConstruct, MoveConstruct,
                      CopyAssign, MoveAssign, Assign
  <2>3. CASE Destroy(r)
    BY <2>2, <2>3, DropIs
  <2>4. CASE \/ Code(r)
             \/ \E rvalue \in BOOLEAN : Value(r, rvalue)
             \/ \E v \in Values, rvalue \in BOOLEAN : ValueOr(r, v, rvalue)
    BY <2>2, <2>4, UseIs
  <2>5. CASE \/ \E v \in Values : success(r, v)
             \/ \E e \in Errors : failure(r, e)
             \/ \E o \in Results : CopyConstruct(r, o) \/ MoveConstruct(r, o)
    <3>1. r \notin alive
      BY <2>5 DEF success, failure, CopyConstruct, MoveConstruct
    <3> QED BY <2>2, <2>5, <3>1, NewIs
  <2>6. ASSUME NEW o \in Results, CopyAssign(r, o) \/ MoveAssign(r, o) PROVE Calm' /\ Abs!Next
    BY <1>3, <2>2, <2>6, AssignIs
  <2> QED BY <2>1, <2>3, <2>4, <2>5, <2>6, ZenonT(30)
<1> QED BY <1>1, <1>2, <1>3

\* A result is a variable that holds one value or one error, for as long as no
\* assignment throws: copies leave their source, moves leave a T moved from,
\* and a constructor or an access that throws has done nothing (result.h:32-102).
THEOREM ResultRefines == Spec => Implements
<1>1. Init => Abs!Init /\ Calm
  BY DEF Init, Abs!Init, Calm, Default
<1>2. Inv /\ Calm /\ [Next]_vars => Calm' /\ [torn' # {} \/ Abs!Next]_vars
  BY NextIs
<1> QED BY <1>1, <1>2, InitInv, NextInv, PTL DEF Spec, Implements
=============================================================================
