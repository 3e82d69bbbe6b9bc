----------------------- MODULE ResultObjectProperties -----------------------
(***************************************************************************)
(* What the obligation to check a result means, however the result is      *)
(* moved around.                                                           *)
(***************************************************************************)
EXTENDS ParseResultObject

(* The obligation and the errors never part: an object must be checked     *)
(* exactly when it holds the errors of a parse nobody looked at, and no    *)
(* two objects hold the errors of the same parse.                          *)
ObligationFollowsErrors ==
  /\ \A x \in Objects :
       object[x].mustCheck <=> object[x].of \in failed \ inspected
  /\ \A x, y \in Objects :
       (x # y /\ object[x].of # 0) => object[x].of # object[y].of

(* A client that checks a result is never accused of not having done so:   *)
(* no destructor throws or warns for a parse that was inspected, wherever  *)
(* its result was moved before or after that.                              *)
NoFalseAccusation == inspected \cap (thrown \cup warned) = {}

(* Errors nobody looked at are still held by an object, or a destructor    *)
(* told of them, however often the result was moved and whatever exception *)
(* was under way; only a move assignment onto the unchecked object loses   *)
(* them, since the obligation is replaced with the rest of the result.     *)
FailuresAreKept ==
  \A n \in failed \ inspected :
    \/ n \in thrown \cup warned \cup overwritten
    \/ \E x \in Objects : object[x].of = n

=============================================================================
