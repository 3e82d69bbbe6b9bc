-------------------------- MODULE ParseResultObject --------------------------
(***************************************************************************)
(* The life of ParseResult objects in the hands of a client.  A result     *)
(* with errors must be checked: the obligation is a RequireCheck member    *)
(* that moves along with the content, is met by operator bool, and makes   *)
(* the destructor throw UncheckedParseResult if it is still there -- or    *)
(* warn, where std::current_exception() says that a handler is active.     *)
(***************************************************************************)
EXTENDS Integers, FiniteSets

CONSTANTS
  Objects,    \* the variables of the client that may hold a result
  MaxParses   \* bound: the calls of parse_args

ASSUME ObjectsAssumption == MaxParses \in Nat

VARIABLES
  object,     \* every object: is it alive, must it be checked, whose errors
  context,    \* normal, unwinding (no handler yet), handling, terminated
  parses,     \* calls of parse_args so far
  failed,     \* history: the parses that reported errors
  inspected,  \* history: the parses whose result was checked
  thrown,     \* history: the parses for which a destructor threw
  warned,     \* history: the parses for which a destructor warned
  overwritten \* history: the parses another result was assigned over

history == <<failed, inspected, thrown, warned, overwritten>>
vars    == <<object, context, parses, history>>

(* of is 0 when the errors were moved out or there never were any.         *)
noObject == [alive |-> FALSE, mustCheck |-> FALSE, of |-> 0]

Init ==
  /\ object = [x \in Objects |-> noObject]
  /\ context = "normal"
  /\ parses = 0
  /\ failed = {}
  /\ inspected = {}
  /\ thrown = {}
  /\ warned = {}
  /\ overwritten = {}

Running == context \in {"normal", "handling"}

(* Mutant: the obligation stays behind when the errors move.               *)
movedKeeping(x) == [object[x] EXCEPT !.of = 0]

moved(x) == [object[x] EXCEPT !.mustCheck = FALSE, !.of = 0]

(* parse_args moves the result it built into a new object.                 *)
ReturnResult(x) ==
  /\ Running
  /\ ~object[x].alive
  /\ parses < MaxParses
  /\ parses' = parses + 1
  /\ \E fails \in BOOLEAN :
       /\ object' = [object EXCEPT ![x] =
                       [alive |-> TRUE, mustCheck |-> fails,
                        of |-> IF fails THEN parses + 1 ELSE 0]]
       /\ failed' = IF fails THEN failed \cup {parses + 1} ELSE failed
  /\ UNCHANGED <<context, inspected, thrown, warned, overwritten>>

(* Mutant: operator bool does not meet the obligation.                     *)
CheckOnly(x) ==
  /\ Running
  /\ object[x].alive
  /\ inspected' = inspected \cup ({object[x].of} \ {0})
  /\ UNCHANGED <<object, context, parses, failed, thrown, warned, overwritten>>

(* operator bool                                                           *)
Check(x) ==
  /\ Running
  /\ object[x].alive
  /\ object' = [object EXCEPT ![x].mustCheck = FALSE]
  /\ inspected' = inspected \cup ({object[x].of} \ {0})
  /\ UNCHANGED <<context, parses, failed, thrown, warned, overwritten>>

(* ParseResult( ParseResult&& ): the obligation leaves the other object.   *)
MoveConstruct(x, y) ==
  /\ Running
  /\ object[x].alive
  /\ ~object[y].alive
  /\ object' = [object EXCEPT ![y] = object[x], ![x] = moved(x)]
  /\ UNCHANGED <<context, parses, history>>

(* operator= replaces the obligation of the target.                        *)
MoveAssign(x, y) ==
  /\ Running
  /\ x # y
  /\ object[x].alive
  /\ object[y].alive
  /\ object' = [object EXCEPT ![y] = object[x], ![x] = moved(x)]
  /\ overwritten' = overwritten \cup ({object[y].of} \ {0})
  /\ UNCHANGED <<context, parses, failed, inspected, thrown, warned>>

(* Mutant: nothing is said of an unchecked result in a handler.            *)
DestroyQuietly(x) ==
  /\ context # "terminated"
  /\ object[x].alive
  /\ object' = [object EXCEPT ![x] = noObject]
  /\ context' = CASE object[x].mustCheck /\ context = "normal" -> "unwinding"
                  [] object[x].mustCheck /\ context = "unwinding" -> "terminated"
                  [] OTHER -> context
  /\ thrown' = IF object[x].mustCheck /\ context # "handling"
                 THEN thrown \cup {object[x].of} ELSE thrown
  /\ UNCHANGED <<parses, failed, inspected, warned, overwritten>>

(* ~RequireCheck.  While the stack is unwound no handler is active yet, so *)
(* std::current_exception() is null and the second exception terminates.   *)
Destroy(x) ==
  /\ context # "terminated"
  /\ object[x].alive
  /\ object' = [object EXCEPT ![x] = noObject]
  /\ context' = CASE object[x].mustCheck /\ context = "normal" -> "unwinding"
                  [] object[x].mustCheck /\ context = "unwinding" -> "terminated"
                  [] OTHER -> context
  /\ thrown' = IF object[x].mustCheck /\ context # "handling"
                 THEN thrown \cup {object[x].of} ELSE thrown
  /\ warned' = IF object[x].mustCheck /\ context = "handling"
                 THEN warned \cup {object[x].of} ELSE warned
  /\ UNCHANGED <<parses, failed, inspected, overwritten>>

-----------------------------------------------------------------------------
(* The client's own control flow.                                          *)

Enter(from, to) ==
  /\ context = from
  /\ context' = to
  /\ UNCHANGED <<object, parses, history>>

Throw        == Enter("normal", "unwinding")
Catch        == Enter("unwinding", "handling")
LeaveHandler == Enter("handling", "normal")

Next ==
  \/ \E x \in Objects : ReturnResult(x) \/ Check(x) \/ Destroy(x)
  \/ \E x, y \in Objects : MoveConstruct(x, y) \/ MoveAssign(x, y)
  \/ Throw \/ Catch \/ LeaveHandler

Spec == Init /\ [][Next]_vars

=============================================================================
