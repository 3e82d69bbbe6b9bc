--------------------------- MODULE CallProperties ---------------------------
(***************************************************************************)
(* What a client may rely on when parse_args returns.                      *)
(***************************************************************************)
EXTENDS ArgumentParser

Succeeded == phase = "returned" /\ isSuccess(mResult)

(* A successful call is complete: every required option and every required *)
(* group has a value, every positional parameter that has a value or needs *)
(* one has enough of them, and so has every occurrence of an option whose  *)
(* values were not forwarded -- although the checks are spread over the    *)
(* parser, the defaults and the validation, and read counters that shared  *)
(* targets and repeated options update differently.                        *)
SuccessIsComplete ==
  Succeeded =>
    /\ \A o \in Options : Def[o].required => wasAssigned(State, o)
    /\ \A p \in Positionals :
         (Def[p].required \/ mTotalAssignCount[p] > 0) => ~needsMoreArguments(State, p)
    /\ \A g \in RequiredGroups :
         InGroup(g) # {} => \E o \in InGroup(g) : wasAssigned(State, o)
    /\ \A o \in started : ~isForwarded(o) => ~needsMoreArguments(State, o)

(* A successful input held at most one option of every exclusive group,    *)
(* also when the options came without values or share their target, and    *)
(* whatever defaults were assigned (reportExclusiveViolations).            *)
ExclusiveInInput ==
  Succeeded => \A g \in Exclusive : Cardinality(started \cap InGroup(g)) <= 1

(* After a successful call a target that no parameter assigned holds its   *)
(* value-initialised content: nothing of an earlier call and nothing the   *)
(* client stored in it before (resetOptionValues).                         *)
NoStaleTargets ==
  Succeeded =>
    \A o \in Params :
      mAssignCount[Def[o].value] = 0
        => mTarget[Def[o].value] = initialTarget(Def[o].value)

(* Whatever a target holds after a successful call is its initial value, a *)
(* flag value or a default of a parameter that assigns it, or a text of    *)
(* the input that converts and is among the choices of such a parameter.   *)
SuccessTargetsValid ==
  Succeeded =>
    \A o \in Params : LET tgt == mTarget[Def[o].value]
                     IN  \A i \in 1..Len(tgt.items) :
                           tgt.items[i] \in AllowedTexts(Def[o].value)

(* A default never replaces what the input gave: once some parameter took  *)
(* a value of the input, the defaults of all parameters that share its     *)
(* target leave the target alone (assignDefaultValues).                    *)
TookValue(o) ==
  mTotalAssignCount[o] > 0 /\ Error(o, "INVALID_CHOICE") \notin mResult.errors

DefaultsYieldToInput ==
  [][ phase = "defaults" =>
        \A v \in Values :
          (\E o \in Params : Def[o].value = v /\ TookValue(o))
            => mTarget'[v] = mTarget[v] ]_allVars

(* At top level no failure is silent: errors and ignored arguments were    *)
(* described to the user, unless the parse was asked to exit or there was  *)
(* no argv; and nothing is described when the call succeeds.               *)
FailureIsVisible ==
  (phase = "returned" /\ TopLevel) =>
    (mResult.errorsWereShown <=>
       /\ mResult.errors # {} \/ mResult.ignoredArguments # <<>>
       /\ ~mResult.exitRequested
       /\ Error(NoSubject, "INVALID_ARGV") \notin mResult.errors)

(* Every call returns.                                                     *)
CallReturns == phase = "parsing" ~> phase = "returned"

-----------------------------------------------------------------------------
(* A comment of the source that the code does not keep.                    *)

(* reportMissingOptions: a positional option that is optional may have no  *)
(* arguments.                                                              *)
OptionalPositionalMayBeAbsent ==
  phase = "returned" =>
    \A p \in Positionals :
      (~Def[p].required /\ mTotalAssignCount[p] = 0)
        => Error(p, "MISSING_ARGUMENT") \notin mResult.errors

=============================================================================
