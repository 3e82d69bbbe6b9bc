------------------------- MODULE ResultObjectProofs -------------------------
(***************************************************************************)
(* The obligation to check a result, for every number of objects and of    *)
(* calls.                                                                  *)
(*                                                                         *)
(* The properties need each other, and one fact more: the errors an object *)
(* holds were not told by a destructor.  Otherwise Check could inspect     *)
(* what a destructor had complained of before.                             *)
(***************************************************************************)
EXTENDS ResultObjectProperties, TLAPS

Contents == [alive : BOOLEAN, mustCheck : BOOLEAN, of : Nat]

HistoryOK ==
  /\ parses \in Nat
  /\ failed \subseteq 1..parses
  /\ inspected \subseteq failed /\ thrown \subseteq failed /\ warned \subseteq failed

ObjectTypeOK == object \in [Objects -> Contents]

Obliged == \A x \in Objects : object[x].mustCheck <=> object[x].of \in failed \ inspected

Single == \A x, y \in Objects : (x # y /\ object[x].of # 0) => object[x].of # object[y].of

(* What is held was not told; an object that is gone holds nothing.        *)
HeldUntold ==
  \A x \in Objects : object[x].of # 0 => /\ object[x].alive
                                         /\ object[x].of \in failed
                                         /\ object[x].of \notin thrown \cup warned

IInv ==
  /\ HistoryOK
  /\ ObjectTypeOK
  /\ Obliged
  /\ Single
  /\ HeldUntold
  /\ NoFalseAccusation
  /\ FailuresAreKept

-----------------------------------------------------------------------------
(* An object gets another content.                                         *)
LEMMA Replaced ==
  ASSUME ObjectTypeOK, NEW x \in Objects, NEW r \in Contents,
         object' = [object EXCEPT ![x] = r]
  PROVE  /\ ObjectTypeOK'
         /\ object'[x] = r
         /\ \A y \in Objects \ {x} : object'[y] = object[y]
  BY DEF ObjectTypeOK

(* The errors of one object go to another.                                 *)
LEMMA Exchanged ==
  ASSUME ObjectTypeOK, NEW x \in Objects, NEW y \in Objects, x # y,
         object' = [object EXCEPT ![y] = object[x], ![x] = moved(x)]
  PROVE  /\ ObjectTypeOK'
         /\ object'[y] = object[x]
         /\ object'[x].of = 0 /\ ~object'[x].mustCheck
         /\ object'[x].alive = object[x].alive
         /\ \A z \in Objects \ {x, y} : object'[z] = object[z]
<1>1. /\ moved(x) \in Contents /\ moved(x).of = 0 /\ ~moved(x).mustCheck
      /\ moved(x).alive = object[x].alive
  BY DEF ObjectTypeOK, moved, Contents
<1> QED
  BY <1>1 DEF ObjectTypeOK

LEMMA InitOK == Init => IInv
<1> SUFFICES ASSUME Init PROVE IInv
  OBVIOUS
<1>1. noObject \in Contents /\ noObject.of = 0 /\ ~noObject.mustCheck
  BY DEF noObject, Contents
<1>2. ObjectTypeOK /\ \A x \in Objects : object[x].of = 0 /\ ~object[x].mustCheck
  BY <1>1 DEF Init, ObjectTypeOK
<1>3. parses = 0 /\ failed = {} /\ inspected = {} /\ thrown = {} /\ warned = {}
  BY DEF Init
<1> QED
  BY <1>2, <1>3 DEF IInv, HistoryOK, Obliged, Single, HeldUntold, NoFalseAccusation,
                    FailuresAreKept

(* A new result: its number is new, and the object it goes to held none.   *)
LEMMA ReturnResultKeeps ==
  ASSUME IInv, NEW x \in Objects, ReturnResult(x)
  PROVE  IInv'
<1>1. PICK fails \in BOOLEAN :
        /\ object' = [object EXCEPT ![x] = [alive |-> TRUE, mustCheck |-> fails,
                                            of |-> IF fails THEN parses + 1 ELSE 0]]
        /\ failed' = IF fails THEN failed \cup {parses + 1} ELSE failed
  BY DEF ReturnResult
<1> DEFINE r == [alive |-> TRUE, mustCheck |-> fails, of |-> IF fails THEN parses + 1 ELSE 0]
<1>2. /\ HistoryOK /\ ObjectTypeOK /\ Obliged /\ Single /\ HeldUntold
      /\ NoFalseAccusation /\ FailuresAreKept
  BY DEF IInv
<1>3. /\ parses' = parses + 1 /\ inspected' = inspected /\ thrown' = thrown
      /\ warned' = warned /\ overwritten' = overwritten
  BY DEF ReturnResult
<1>4. r \in Contents /\ r.mustCheck = fails /\ r.alive /\ r.of = IF fails THEN parses + 1 ELSE 0
  BY <1>2 DEF HistoryOK, Contents
<1> HIDE DEF r
<1>5. /\ ObjectTypeOK' /\ object'[x] = r
      /\ \A y \in Objects \ {x} : object'[y] = object[y]
  BY <1>1, <1>2, <1>4, Replaced DEF r
<1>6. parses + 1 \notin failed /\ 0 \notin failed /\ object[x].of = 0
  <2>1. ~object[x].alive
    BY DEF ReturnResult
  <2> QED
    BY <1>2, <2>1 DEF HistoryOK, HeldUntold
<1>7. HistoryOK'
  BY <1>1, <1>2, <1>3 DEF HistoryOK
<1>8. \A y \in Objects : object[y].of # parses + 1
  BY <1>2, <1>6 DEF HeldUntold, HistoryOK
<1>9. Obliged'
  BY <1>1, <1>2, <1>3, <1>4, <1>5, <1>6, <1>8 DEF Obliged, HistoryOK
<1>10. Single'
  BY <1>2, <1>4, <1>5, <1>8 DEF Single
<1>11. HeldUntold'
  BY <1>1, <1>2, <1>3, <1>4, <1>5, <1>6 DEF HeldUntold, HistoryOK
<1>12. NoFalseAccusation'
  BY <1>2, <1>3 DEF NoFalseAccusation
<1>13. FailuresAreKept'
  <2> SUFFICES ASSUME NEW n \in failed' \ inspected'
               PROVE  \/ n \in thrown' \cup warned' \cup overwritten'
                      \/ \E z \in Objects : object'[z].of = n
    BY DEF FailuresAreKept
  <2>1. CASE n \notin failed
    BY <1>1, <1>4, <1>5, <2>1
  <2>2. CASE n \in failed
    <3>1. n \in failed \ inspected /\ n # 0
      BY <1>3, <1>6, <2>2
    <3> QED
      BY <1>2, <1>3, <1>5, <1>6, <3>1 DEF FailuresAreKept
  <2> QED
    BY <2>1, <2>2
<1> QED
  BY <1>5, <1>7, <1>9, <1>10, <1>11, <1>12, <1>13 DEF IInv

(* What is checked was held, so it was not told before.                    *)
LEMMA CheckKeeps ==
  ASSUME IInv, NEW x \in Objects, Check(x)
  PROVE  IInv'
<1>1. /\ HistoryOK /\ ObjectTypeOK /\ Obliged /\ Single /\ HeldUntold
      /\ NoFalseAccusation /\ FailuresAreKept
  BY DEF IInv
<1>2. /\ parses' = parses /\ failed' = failed /\ thrown' = thrown
      /\ warned' = warned /\ overwritten' = overwritten
      /\ inspected' = inspected \cup ({object[x].of} \ {0})
  BY DEF Check
<1> DEFINE r == [object[x] EXCEPT !.mustCheck = FALSE]
<1>3. r \in Contents /\ ~r.mustCheck /\ r.alive = object[x].alive /\ r.of = object[x].of
  BY <1>1 DEF ObjectTypeOK, Contents
<1>4. object' = [object EXCEPT ![x] = r]
  BY DEF Check
<1> HIDE DEF r
<1>5. /\ ObjectTypeOK' /\ object'[x] = r
      /\ \A y \in Objects \ {x} : object'[y] = object[y]
  BY <1>1, <1>3, <1>4, Replaced
<1>6. \A y \in Objects : object'[y].of = object[y].of /\ object'[y].alive = object[y].alive
  BY <1>3, <1>5
<1>7. HistoryOK'
  BY <1>1, <1>2 DEF HistoryOK, HeldUntold
<1>8. 0 \notin failed
  BY <1>1 DEF HistoryOK
<1>9. Obliged'
  BY <1>1, <1>2, <1>3, <1>5, <1>8 DEF Obliged, Single
<1>10. Single' /\ HeldUntold'
  BY <1>1, <1>2, <1>6 DEF Single, HeldUntold
<1>11. NoFalseAccusation'
  BY <1>1, <1>2 DEF NoFalseAccusation, HeldUntold
<1>12. FailuresAreKept'
  BY <1>1, <1>2, <1>6 DEF FailuresAreKept
<1> QED
  BY <1>5, <1>7, <1>9, <1>10, <1>11, <1>12 DEF IInv

(* A move; of what y held before only a move assignment takes note.        *)
LEMMA MoveKeeps ==
  ASSUME IInv, NEW x \in Objects, NEW y \in Objects, x # y,
         object[x].alive,
         object' = [object EXCEPT ![y] = object[x], ![x] = moved(x)],
         UNCHANGED <<parses, failed, inspected, thrown, warned>>,
         overwritten \cup ({object[y].of} \ {0}) \subseteq overwritten'
  PROVE  IInv'
<1>1. /\ HistoryOK /\ ObjectTypeOK /\ Obliged /\ Single /\ HeldUntold
      /\ NoFalseAccusation /\ FailuresAreKept
  BY DEF IInv
<1>2. /\ ObjectTypeOK' /\ object'[y] = object[x]
      /\ object'[x].of = 0 /\ ~object'[x].mustCheck
      /\ object'[x].alive = object[x].alive
      /\ \A z \in Objects \ {x, y} : object'[z] = object[z]
  BY <1>1, Exchanged
<1>3. /\ parses' = parses /\ failed' = failed /\ inspected' = inspected
      /\ thrown' = thrown /\ warned' = warned
      /\ HistoryOK' /\ 0 \notin failed
  BY <1>1 DEF HistoryOK
<1>4. Obliged'
  <2> SUFFICES ASSUME NEW z \in Objects
               PROVE  object'[z].mustCheck <=> object'[z].of \in failed \ inspected
    BY <1>3 DEF Obliged
  <2>1. CASE z = x
    BY <1>2, <1>3, <2>1
  <2>2. CASE z = y
    BY <1>1, <1>2, <2>2 DEF Obliged
  <2>3. CASE z \notin {x, y}
    BY <1>1, <1>2, <2>3 DEF Obliged
  <2> QED
    BY <2>1, <2>2, <2>3
(* Every object that holds errors now stands for one that held them.       *)
<1> DEFINE from(z) == IF z = y THEN x ELSE z
<1>5. Single' /\ HeldUntold'
  <2>1. \A z \in Objects : object'[z].of # 0 => z # x /\ object'[z] = object[from(z)]
    BY <1>2
  <2>2. \A z, u \in Objects \ {x} : from(z) \in Objects /\ (z # u => from(z) # from(u))
    OBVIOUS
  <2> HIDE DEF from
  <2>3. Single'
    <3> SUFFICES ASSUME NEW z \in Objects, NEW u \in Objects, z # u,
                        object'[z].of # 0, object'[z].of = object'[u].of
                 PROVE  FALSE
      BY DEF Single
    <3>1. /\ object[from(z)].of # 0 /\ object[from(z)].of = object[from(u)].of
          /\ from(z) \in Objects /\ from(u) \in Objects /\ from(z) # from(u)
      BY <2>1, <2>2
    <3> QED
      BY <1>1, <3>1 DEF Single
  <2>4. HeldUntold'
    <3> SUFFICES ASSUME NEW z \in Objects, object'[z].of # 0
                 PROVE  /\ object'[z].alive /\ object'[z].of \in failed
                        /\ object'[z].of \notin thrown \cup warned
      BY <1>3 DEF HeldUntold
    <3>1. from(z) \in Objects /\ object'[z] = object[from(z)]
      BY <2>1, <2>2
    <3> QED
      BY <1>1, <3>1 DEF HeldUntold
  <2> QED
    BY <2>3, <2>4
<1>7. NoFalseAccusation'
  BY <1>1 DEF NoFalseAccusation
<1>8. FailuresAreKept'
  <2> SUFFICES ASSUME NEW n \in failed \ inspected, n \notin thrown \cup warned \cup overwritten'
               PROVE  \E z \in Objects : object'[z].of = n
    BY DEF FailuresAreKept
  <2>1. PICK z \in Objects : object[z].of = n
    BY <1>1 DEF FailuresAreKept
  <2>2. n # 0 /\ z # y
    BY <1>3, <2>1
  <2>3. CASE z = x
    BY <1>2, <2>1, <2>3
  <2>4. CASE z # x
    BY <1>2, <2>1, <2>2, <2>4
  <2> QED
    BY <2>3, <2>4
<1> QED
  BY <1>2, <1>3, <1>4, <1>5, <1>7, <1>8 DEF IInv

(* What a destructor tells was held by this object only.                   *)
LEMMA DestroyKeeps ==
  ASSUME IInv, NEW x \in Objects, Destroy(x)
  PROVE  IInv'
<1>1. /\ HistoryOK /\ ObjectTypeOK /\ Obliged /\ Single /\ HeldUntold
      /\ NoFalseAccusation /\ FailuresAreKept
  BY DEF IInv
<1> DEFINE told == IF object[x].mustCheck THEN {object[x].of} ELSE {}
<1>2. /\ parses' = parses /\ failed' = failed /\ inspected' = inspected
      /\ overwritten' = overwritten
      /\ thrown' \cup warned' = thrown \cup warned \cup told
      /\ thrown' \subseteq thrown \cup told /\ warned' \subseteq warned \cup told
  BY DEF Destroy
<1>3. noObject \in Contents /\ noObject.of = 0 /\ ~noObject.mustCheck
  BY DEF noObject, Contents
<1>4. /\ ObjectTypeOK' /\ object'[x] = noObject
      /\ \A y \in Objects \ {x} : object'[y] = object[y]
  BY <1>1, <1>3, Replaced DEF Destroy
<1>5. told \subseteq failed \ inspected /\ (told # {} => told = {object[x].of})
  BY <1>1 DEF Obliged
<1> HIDE DEF told
<1>6. HistoryOK' /\ 0 \notin failed
  BY <1>1, <1>2, <1>5 DEF HistoryOK
<1>7. Obliged' /\ Single'
  BY <1>1, <1>2, <1>3, <1>4, <1>6 DEF Obliged, Single
<1>8. HeldUntold'
  <2> SUFFICES ASSUME NEW y \in Objects, object'[y].of # 0
               PROVE  /\ object'[y].alive /\ object'[y].of \in failed'
                      /\ object'[y].of \notin thrown' \cup warned'
    BY DEF HeldUntold
  <2>1. y # x /\ object'[y] = object[y]
    BY <1>3, <1>4
  <2>2. object[y].of \notin told
    BY <1>1, <1>5, <2>1 DEF Single
  <2> QED
    BY <1>1, <1>2, <2>1, <2>2 DEF HeldUntold
<1>9. NoFalseAccusation'
  BY <1>1, <1>2, <1>5 DEF NoFalseAccusation
<1>10. FailuresAreKept'
  <2> SUFFICES ASSUME NEW n \in failed \ inspected, n \notin thrown' \cup warned' \cup overwritten
               PROVE  \E z \in Objects : object'[z].of = n
    BY <1>2 DEF FailuresAreKept
  <2>1. PICK z \in Objects : object[z].of = n
    BY <1>1, <1>2 DEF FailuresAreKept
  <2>2. z # x
    <3> SUFFICES ASSUME z = x PROVE FALSE
      OBVIOUS
    <3>1. object[x].mustCheck
      BY <1>1, <2>1 DEF Obliged
    <3> QED
      BY <1>2, <2>1, <3>1 DEF told
  <2> QED
    BY <1>4, <2>1, <2>2
<1> QED
  BY <1>4, <1>6, <1>7, <1>8, <1>9, <1>10 DEF IInv

-----------------------------------------------------------------------------
(* The inductive invariant holds in every reachable state.                 *)
THEOREM ObligationsKept == Spec => []IInv
<1>1. IInv /\ [Next]_vars => IInv'
  <2> SUFFICES ASSUME IInv, [Next]_vars PROVE IInv'
    OBVIOUS
  <2>1. ASSUME NEW x \in Objects, ReturnResult(x) \/ Check(x) \/ Destroy(x) PROVE IInv'
    BY <2>1, ReturnResultKeeps, CheckKeeps, DestroyKeeps
  <2>2. ASSUME NEW x \in Objects, NEW y \in Objects, MoveConstruct(x, y) PROVE IInv'
    <3>1. /\ object[x].alive /\ ~object[y].alive /\ x # y
          /\ object' = [object EXCEPT ![y] = object[x], ![x] = moved(x)]
          /\ UNCHANGED <<parses, failed, inspected, thrown, warned, overwritten>>
      BY <2>2 DEF MoveConstruct, history
    <3>2. object[y].of = 0
      BY <3>1 DEF IInv, HeldUntold
    <3> QED
      BY <3>1, <3>2, MoveKeeps
  <2>3. ASSUME NEW x \in Objects, NEW y \in Objects, MoveAssign(x, y) PROVE IInv'
    <3>1. /\ object[x].alive /\ x # y
          /\ object' = [object EXCEPT ![y] = object[x], ![x] = moved(x)]
          /\ UNCHANGED <<parses, failed, inspected, thrown, warned>>
          /\ overwritten' = overwritten \cup ({object[y].of} \ {0})
      BY <2>3 DEF MoveAssign
    <3> QED
      BY <3>1, MoveKeeps
  <2>4. CASE Throw \/ Catch \/ LeaveHandler \/ UNCHANGED vars
    <3>1. UNCHANGED <<object, parses, failed, inspected, thrown, warned, overwritten>>
      BY <2>4 DEF Throw, Catch, LeaveHandler, Enter, vars, history
    <3> QED
      BY <3>1 DEF IInv, HistoryOK, ObjectTypeOK, Obliged, Single, HeldUntold,
                  NoFalseAccusation, FailuresAreKept
  <2> QED
    BY <2>1, <2>2, <2>3, <2>4 DEF Next
<1> QED
  BY InitOK, <1>1, PTL DEF Spec

(* For every number of objects and calls an object must be checked exactly *)
(* when it holds errors nobody looked at, and no two hold the same.        *)
THEOREM ObligationWithErrors == Spec => []ObligationFollowsErrors
<1>1. IInv => ObligationFollowsErrors
  BY DEF IInv, Obliged, Single, ObligationFollowsErrors
<1> QED
  BY <1>1, ObligationsKept, PTL

(* No client is accused of not having checked what it checked.             *)
THEOREM NobodyAccused == Spec => []NoFalseAccusation
<1>1. IInv => NoFalseAccusation
  BY DEF IInv
<1> QED
  BY <1>1, ObligationsKept, PTL

(* Errors nobody looked at are held, told or overwritten.                  *)
THEOREM FailuresNotLost == Spec => []FailuresAreKept
<1>1. IInv => FailuresAreKept
  BY DEF IInv
<1> QED
  BY <1>1, ObligationsKept, PTL

=============================================================================
