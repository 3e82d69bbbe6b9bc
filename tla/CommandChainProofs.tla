------------------------- MODULE CommandChainProofs -------------------------
(***************************************************************************)
(* The chain of commands, for chains and inputs of any length.             *)
(*                                                                         *)
(* What was reported is spread over the open frames until they are merged. *)
(* The invariant says how: an error is reported if and only if a frame     *)
(* holds it, the ignored words are those of the frames one after the       *)
(* other, and as long as nothing is wrong the parsers that lack their      *)
(* required option are the open frames that lack it.  Only the first frame *)
(* is at top level, so nothing is described before the client's call ends. *)
(*                                                                         *)
(* Most actions only change the innermost frame; they are instances of     *)
(* TopStep, for which the invariant is shown once.                         *)
(***************************************************************************)
EXTENDS ChainProperties, FiniteSetTheorems, SequenceTheorems, TLAPS

(* The parsers of a chain report every error but that of missing input.    *)
ChainCodes == ErrorCodes \ {"INVALID_ARGV"}

Errors == { e \in [subject : ParserNames \cup {NoSubject}, code : ChainCodes] :
              e.code = "EXIT_REQUESTED" => e.subject = NoSubject }

Results == [ errors : SUBSET Errors, ignoredArguments : Seq(ParserNames),
             commands : Seq(ChainCommands), exitRequested : BOOLEAN,
             helpWasShown : BOOLEAN, errorsWereShown : BOOLEAN,
             mustCheck : BOOLEAN ]

Frames == [ name : ParserNames, depth : Nat, open : BOOLEAN, needs : BOOLEAN,
            filesystem : {"configured", "default"}, topLevel : BOOLEAN,
            result : Results ]

ChainTypeOK ==
  /\ frames \in Seq(Frames) /\ Len(frames) >= 1
  /\ status \in {"parsing", "returned", "threw", "terminated"}
  /\ status = "returned" => Len(frames) = 1
  /\ reported \subseteq Errors
  /\ refusedWords \in Seq(ParserNames)
  /\ incomplete \in Int

ErrorsHeld ==
  \A e \in Errors :
    e \in reported <=> \E i \in 1..Len(frames) : e \in frames[i].result.errors

(* A text is its L parts one after the other; t[i] is its beginning up to  *)
(* the end of part i.                                                      *)
Begins(parts, L, text, t) ==
  /\ t[0] = <<>> /\ t[L] = text
  /\ \A i \in 1..L : t[i] = t[i - 1] \o parts[i]

Joined(parts, L, text, S) == \E t \in [0..L -> Seq(S)] : Begins(parts, L, text, t)

Ignored(fs) == [i \in 1..Len(fs) |-> fs[i].result.ignoredArguments]

WordsHeld == Joined(Ignored(frames), Len(frames), refusedWords, ParserNames)

Lacking(fs) == { i \in 1..Len(fs) : fs[i].needs }

LackingCounted == reported = {} => incomplete = Cardinality(Lacking(frames))

ContractsHeld == \A i \in 1..Len(frames) : ResultContract(frames[i].result)

(* The parser of the client is the one at top level; until its call        *)
(* returns, nothing is described and no result says that something was.    *)
Silent ==
  /\ \A i \in 1..Len(frames) : frames[i].topLevel <=> i = 1
  /\ frames[1].name = Program
  /\ status # "returned" =>
       /\ described = <<>>
       /\ \A i \in 1..Len(frames) : ~frames[i].result.errorsWereShown

Held ==
  /\ ChainTypeOK
  /\ ContractsHeld
  /\ ErrorsHeld
  /\ WordsHeld
  /\ LackingCounted
  /\ Silent

IInv ==
  /\ Held
  /\ SuccessMeansAllComplete
  /\ ErrorsShownOnce
  /\ ExceptionsArrive

(* A step of the innermost parser: its result grows by the errors E and    *)
(* perhaps by a word, and its required option may be found.                *)
TopStep(f, E) ==
  /\ status = "parsing"
  /\ frames' = [frames EXCEPT ![Level] = f]
  /\ f \in Frames
  /\ f.name = Top.name /\ f.topLevel = Top.topLevel
  /\ ResultContract(f.result)
  /\ Abstract!Extends(Top.result, f.result)
  /\ E \subseteq Errors
  /\ f.result.errors = Top.result.errors \cup E
  /\ reported' = reported \cup E
  /\ \/ /\ f.result.ignoredArguments = Top.result.ignoredArguments
        /\ refusedWords' = refusedWords
     \/ \E w \in ParserNames :
          /\ f.result.ignoredArguments = Append(Top.result.ignoredArguments, w)
          /\ refusedWords' = Append(refusedWords, w)
  /\ \/ f.needs = Top.needs /\ incomplete' = incomplete
     \/ Top.needs /\ ~f.needs /\ incomplete' = incomplete - 1
  /\ status' \in {"parsing", "returned"}
  /\ status' = "returned" => Len(frames) = 1
  /\ status' # "returned" =>
       /\ described' = described
       /\ f.result.errorsWereShown = Top.result.errorsWereShown

-----------------------------------------------------------------------------
(* The operations on results.                                              *)

LEMMA AddError ==
  ASSUME NEW r \in Results, NEW subject \in ParserNames \cup {NoSubject},
         NEW code \in ChainCodes \ {"EXIT_REQUESTED"}, ResultContract(r)
  PROVE  /\ addErrorTo(r, subject, code) \in Results
         /\ addErrorTo(r, subject, code).errors
              = r.errors \cup {[subject |-> subject, code |-> code]}
         /\ addErrorTo(r, subject, code).ignoredArguments = r.ignoredArguments
         /\ addErrorTo(r, subject, code).errorsWereShown = r.errorsWereShown
         /\ ResultContract(addErrorTo(r, subject, code))
         /\ Abstract!Extends(r, addErrorTo(r, subject, code))
<1> DEFINE t == addErrorTo(r, subject, code)
           e == r.errors \cup {[subject |-> subject, code |-> code]}
<1>1. e \in SUBSET Errors
  BY DEF Results, Errors
<1>2. t = [r EXCEPT !.errors = e, !.mustCheck = TRUE]
  BY DEF addErrorTo
<1> HIDE DEF e
<1>3. t \in Results /\ t.errors = e /\ t.mustCheck
  BY <1>1, <1>2 DEF Results
<1>4. /\ t.exitRequested = r.exitRequested /\ t.helpWasShown = r.helpWasShown
      /\ t.errorsWereShown = r.errorsWereShown
      /\ t.ignoredArguments = r.ignoredArguments /\ t.commands = r.commands
  BY <1>2 DEF Results
<1> HIDE DEF t
<1>5. ResultContract(t)
  <2>1. t.mustCheck <=> t.errors # {}
    BY <1>3 DEF e
  <2>2. t.exitRequested <=> \E x \in t.errors : x.code = "EXIT_REQUESTED"
    BY <1>3, <1>4 DEF e, ResultContract
  <2>3. t.helpWasShown => t.exitRequested
    BY <1>4 DEF ResultContract
  <2> QED
    BY <2>1, <2>2, <2>3 DEF ResultContract
<1>6. Abstract!Extends(r, t)
  BY <1>3, <1>4 DEF Results, e, Abstract!Extends, Abstract!IsPrefixOf
<1> QED
  BY <1>3, <1>4, <1>5, <1>6 DEF t, e

ExitError == [subject |-> NoSubject, code |-> "EXIT_REQUESTED"]

LEMMA RequestExit ==
  ASSUME NEW r \in Results, NEW help \in BOOLEAN, ResultContract(r),
         NEW t, t = exitIn(r, help)
  PROVE  /\ t \in Results
         /\ t.errors = r.errors \cup {ExitError}
         /\ t.ignoredArguments = r.ignoredArguments
         /\ t.errorsWereShown = r.errorsWereShown
         /\ ResultContract(t)
         /\ Abstract!Extends(r, t)
<1> DEFINE e == r.errors \cup {ExitError}
           h == r.helpWasShown \/ help
<1>1. e \in SUBSET Errors /\ h \in BOOLEAN
  BY DEF Results, Errors, ExitError, ErrorCodes, ChainCodes
<1>2. t = [r EXCEPT !.helpWasShown = h, !.exitRequested = TRUE,
                    !.errors = e, !.mustCheck = TRUE]
  BY DEF exitIn, requestExitIn, addErrorTo, Results, ExitError
<1>3. (r.helpWasShown => h) /\ r.errors \subseteq e
  OBVIOUS
<1> HIDE DEF e, h
<1>4. /\ t \in Results /\ t.errors = e /\ t.mustCheck /\ t.exitRequested
      /\ t.helpWasShown = h
  BY <1>1, <1>2 DEF Results
<1>5. /\ t.ignoredArguments = r.ignoredArguments /\ t.commands = r.commands
      /\ t.errorsWereShown = r.errorsWereShown
  BY <1>2 DEF Results
<1>6. ResultContract(t)
  <2>1. ExitError \in t.errors /\ ExitError.code = "EXIT_REQUESTED"
    BY <1>4 DEF e, ExitError
  <2> QED
    BY <1>4, <2>1 DEF ResultContract
<1>7. Abstract!Extends(r, t)
  BY <1>3, <1>4, <1>5 DEF Results, Abstract!Extends, Abstract!IsPrefixOf
<1> QED
  BY <1>4, <1>5, <1>6, <1>7 DEF e

LEMMA AddIgnored ==
  ASSUME NEW r \in Results, NEW w \in ParserNames, ResultContract(r),
         NEW t, t = addIgnoredTo(r, w)
  PROVE  /\ t \in Results
         /\ t.errors = r.errors
         /\ t.ignoredArguments = Append(r.ignoredArguments, w)
         /\ t.errorsWereShown = r.errorsWereShown
         /\ ResultContract(t)
         /\ Abstract!Extends(r, t)
<1> DEFINE q == Append(r.ignoredArguments, w)
<1>1. q \in Seq(ParserNames) /\ Abstract!IsPrefixOf(r.ignoredArguments, q)
  BY DEF Results, Abstract!IsPrefixOf
<1>2. t = [r EXCEPT !.ignoredArguments = q]
  BY DEF addIgnoredTo
<1> HIDE DEF q
<1>3. t \in Results /\ t.ignoredArguments = q
  BY <1>1, <1>2 DEF Results
<1>4. /\ t.errors = r.errors /\ t.mustCheck = r.mustCheck
      /\ t.exitRequested = r.exitRequested /\ t.helpWasShown = r.helpWasShown
      /\ t.errorsWereShown = r.errorsWereShown /\ t.commands = r.commands
  BY <1>2 DEF Results
<1>5. ResultContract(t)
  BY <1>4 DEF ResultContract
<1>6. Abstract!Extends(r, t)
  BY <1>1, <1>3, <1>4 DEF Results, Abstract!Extends, Abstract!IsPrefixOf
<1> QED
  BY <1>3, <1>4, <1>5, <1>6 DEF q

LEMMA AddCommand ==
  ASSUME NEW r \in Results, NEW c \in ChainCommands, ResultContract(r),
         NEW t, t = addCommandTo(r, c)
  PROVE  /\ t \in Results
         /\ t.errors = r.errors
         /\ t.ignoredArguments = r.ignoredArguments
         /\ t.errorsWereShown = r.errorsWereShown
         /\ ResultContract(t)
         /\ Abstract!Extends(r, t)
<1> DEFINE q == Append(r.commands, c)
<1>1. q \in Seq(ChainCommands) /\ Abstract!IsPrefixOf(r.commands, q)
  BY DEF Results, Abstract!IsPrefixOf
<1>2. t = [r EXCEPT !.commands = q]
  BY DEF addCommandTo
<1> HIDE DEF q
<1>3. t \in Results /\ t.commands = q
  BY <1>1, <1>2 DEF Results
<1>4. /\ t.errors = r.errors /\ t.mustCheck = r.mustCheck
      /\ t.exitRequested = r.exitRequested /\ t.helpWasShown = r.helpWasShown
      /\ t.errorsWereShown = r.errorsWereShown
      /\ t.ignoredArguments = r.ignoredArguments
  BY <1>2 DEF Results
<1>5. ResultContract(t)
  BY <1>4 DEF ResultContract
<1>6. Abstract!Extends(r, t)
  BY <1>1, <1>3, <1>4 DEF Results, Abstract!Extends, Abstract!IsPrefixOf
<1> QED
  BY <1>3, <1>4, <1>5, <1>6

LEMMA AddResult ==
  ASSUME NEW r \in Results, NEW s \in Results, ResultContract(r), ResultContract(s),
         s.errorsWereShown = FALSE, NEW t, t = addResultTo(r, s)
  PROVE  /\ t \in Results
         /\ t.errors = r.errors \cup s.errors
         /\ t.ignoredArguments = r.ignoredArguments \o s.ignoredArguments
         /\ t.errorsWereShown = r.errorsWereShown
         /\ ResultContract(t)
         /\ Abstract!Extends(r, t)
<1> DEFINE x == r.exitRequested \/ s.exitRequested
           h == r.helpWasShown \/ s.helpWasShown
           d == r.errorsWereShown \/ s.errorsWereShown
           m == r.mustCheck \/ s.mustCheck
           e == r.errors \cup s.errors
           g == r.ignoredArguments \o s.ignoredArguments
<1>1. /\ x \in BOOLEAN /\ h \in BOOLEAN /\ m \in BOOLEAN /\ e \in SUBSET Errors
      /\ g \in Seq(ParserNames) /\ d \in BOOLEAN /\ d = r.errorsWereShown
  BY DEF Results
<1>2. t = [r EXCEPT !.exitRequested = x, !.helpWasShown = h,
                    !.errorsWereShown = d, !.mustCheck = m, !.errors = e,
                    !.ignoredArguments = g]
  BY DEF addResultTo, Results
<1>3. /\ m <=> e # {}
      /\ x <=> \E y \in e : y.code = "EXIT_REQUESTED"
      /\ h => x
  BY DEF ResultContract
<1>4. /\ r.exitRequested => x
      /\ r.helpWasShown => h
      /\ r.errors \subseteq e
      /\ Abstract!IsPrefixOf(r.ignoredArguments, g)
  BY DEF Results, Abstract!IsPrefixOf
<1> HIDE DEF x, h, d, m, e, g
<1>5. /\ t \in Results /\ t.errors = e /\ t.mustCheck = m /\ t.exitRequested = x
      /\ t.helpWasShown = h /\ t.errorsWereShown = d
      /\ t.ignoredArguments = g /\ t.commands = r.commands
  BY <1>1, <1>2 DEF Results
<1>6. ResultContract(t)
  BY <1>3, <1>5 DEF ResultContract
<1>7. Abstract!Extends(r, t)
  BY <1>1, <1>4, <1>5 DEF Abstract!Extends, Abstract!IsPrefixOf, Results
<1> QED
  BY <1>1, <1>5, <1>6, <1>7 DEF e, g

LEMMA SignalErrorsShown ==
  ASSUME NEW r \in Results, ResultContract(r), NEW t, t = signalErrorsShownIn(r)
  PROVE  /\ t \in Results /\ t.errorsWereShown
         /\ t.errors = r.errors /\ t.ignoredArguments = r.ignoredArguments
         /\ ResultContract(t)
         /\ Abstract!Extends(r, t)
<1>1. t = [r EXCEPT !.errorsWereShown = TRUE]
  BY DEF signalErrorsShownIn
<1>2. t \in Results /\ t.errorsWereShown
  BY <1>1 DEF Results
<1>3. /\ t.errors = r.errors /\ t.mustCheck = r.mustCheck
      /\ t.exitRequested = r.exitRequested /\ t.helpWasShown = r.helpWasShown
      /\ t.ignoredArguments = r.ignoredArguments /\ t.commands = r.commands
  BY <1>1 DEF Results
<1>4. ResultContract(t)
  BY <1>3 DEF ResultContract
<1>5. Abstract!Extends(r, t)
  BY <1>2, <1>3 DEF Results, Abstract!Extends, Abstract!IsPrefixOf
<1> QED
  BY <1>2, <1>3, <1>4, <1>5

LEMMA ExtendsTwice ==
  ASSUME NEW r \in Results, NEW s \in Results, NEW t \in Results,
         Abstract!Extends(r, s), Abstract!Extends(s, t)
  PROVE  Abstract!Extends(r, t)
<1>1. ASSUME NEW S, NEW a \in Seq(S), NEW b \in Seq(S), NEW c \in Seq(S),
             Abstract!IsPrefixOf(a, b), Abstract!IsPrefixOf(b, c)
      PROVE  Abstract!IsPrefixOf(a, c)
  BY <1>1 DEF Abstract!IsPrefixOf
<1>2. /\ Abstract!IsPrefixOf(r.ignoredArguments, t.ignoredArguments)
      /\ Abstract!IsPrefixOf(r.commands, t.commands)
  BY <1>1 DEF Results, Abstract!Extends
<1> QED
  BY <1>2 DEF Abstract!Extends

LEMMA EmptyResult ==
  /\ emptyResult \in Results /\ emptyResult.errors = {}
  /\ emptyResult.ignoredArguments = <<>> /\ ResultContract(emptyResult)
  /\ ~emptyResult.errorsWereShown
BY DEF emptyResult, Results, ResultContract

LEMMA ExtendsRefl ==
  ASSUME NEW r \in Results
  PROVE  Abstract!Extends(r, r)
BY DEF Results, Abstract!Extends, Abstract!IsPrefixOf

-----------------------------------------------------------------------------
(* Frames                                                                  *)

LEMMA WithResult ==
  ASSUME NEW f \in Frames, NEW r \in Results
  PROVE  /\ [f EXCEPT !.result = r] \in Frames
         /\ [f EXCEPT !.result = r].result = r
         /\ [f EXCEPT !.result = r].needs = f.needs
         /\ [f EXCEPT !.result = r].name = f.name
         /\ [f EXCEPT !.result = r].topLevel = f.topLevel
BY DEF Frames

LEMMA Left ==
  ASSUME NEW f \in Frames
  PROVE  /\ leave(f) \in Frames /\ leave(f).result = f.result /\ leave(f).needs = f.needs
         /\ leave(f).name = f.name /\ leave(f).topLevel = f.topLevel
         /\ break(f) \in Frames /\ break(f).result = f.result /\ break(f).needs = f.needs
         /\ break(f).name = f.name /\ break(f).topLevel = f.topLevel
<1>1. /\ leave(f) \in Frames /\ leave(f).result = f.result /\ leave(f).needs = f.needs
      /\ leave(f).name = f.name /\ leave(f).topLevel = f.topLevel
  <2>1. CASE f.depth = 0
    BY <2>1 DEF leave, Frames
  <2>2. CASE f.depth # 0
    <3> DEFINE d == f.depth - 1
    <3>1. d \in Nat
      BY <2>2 DEF Frames
    <3>2. leave(f) = [f EXCEPT !.depth = d]
      BY <2>2 DEF leave
    <3> HIDE DEF d
    <3> QED
      BY <3>1, <3>2 DEF Frames
  <2> QED
    BY <2>1, <2>2
<1> QED
  BY <1>1 DEF break

LEMMA NewFrame ==
  ASSUME NEW name \in ParserNames, NEW fs \in {"configured", "default"},
         NEW top \in BOOLEAN, NEW f, f = newFrame(name, fs, top)
  PROVE  /\ f \in Frames /\ f.result = emptyResult /\ f.needs
         /\ f.name = name /\ f.topLevel = top
BY EmptyResult DEF newFrame, Frames

LEMMA TopFacts ==
  ASSUME Held
  PROVE  /\ Level \in Nat /\ Level >= 1 /\ Level = Len(frames)
         /\ Top \in Frames /\ Top = frames[Level]
         /\ Top.result \in Results /\ ResultContract(Top.result)
         /\ Top.name \in ParserNames
         /\ Abstract!Extends(Top.result, Top.result)
         /\ frames = [frames EXCEPT ![Level] = Top]
<1>1. Level \in Nat /\ Level >= 1 /\ Level = Len(frames) /\ Top = frames[Level]
  BY DEF Held, ChainTypeOK, Level, Top
<1>2. Top \in Frames /\ ResultContract(Top.result)
  BY <1>1 DEF Held, ChainTypeOK, ContractsHeld
<1>3. Top.result \in Results /\ Top.name \in ParserNames
  BY <1>2 DEF Frames
<1>4. frames = [frames EXCEPT ![Level] = Top]
  BY <1>1 DEF Held, ChainTypeOK
<1> QED
  BY <1>1, <1>2, <1>3, <1>4, ExtendsRefl

-----------------------------------------------------------------------------
(* Texts in parts                                                          *)

LEMMA Regroup ==
  ASSUME NEW S, NEW a \in Seq(S), NEW b \in Seq(S)
  PROVE  \A d \in Seq(S) : (d \o a) \o b = d \o (a \o b)
BY ConcatAssociative

LEMMA RegroupAppend ==
  ASSUME NEW S, NEW a \in Seq(S), NEW w \in S
  PROVE  \A b \in Seq(S) : Append(b \o a, w) = b \o Append(a, w)
<1> TAKE b \in Seq(S)
<1>1. <<w>> \in Seq(S) /\ b \o a \in Seq(S)
  OBVIOUS
<1>2. (b \o a) \o <<w>> = b \o (a \o <<w>>)
  BY <1>1, ConcatAssociative
<1> QED
  BY <1>1, <1>2, AppendIsConcat

LEMMA JoinedAppend ==
  ASSUME NEW S, NEW L \in Nat \ {0}, NEW p \in [1..L -> Seq(S)], NEW text \in Seq(S),
         Joined(p, L, text, S), NEW w \in S
  PROVE  \A q : (/\ \A i \in 1..L : i # L => q[i] = p[i]
                 /\ q[L] = Append(p[L], w)) => Joined(q, L, Append(text, w), S)
<1> DEFINE a == p[L]
           new == Append(text, w)
<1>0. \A b \in Seq(S) : Append(b \o a, w) = b \o Append(a, w)
  <2>1. a \in Seq(S)
    OBVIOUS
  <2> HIDE DEF a
  <2> QED
    BY <2>1, RegroupAppend, Zenon
<1> TAKE q
<1> HAVE /\ \A i \in 1..L : i # L => q[i] = p[i]
         /\ q[L] = Append(p[L], w)
<1>1. PICK t \in [0..L -> Seq(S)] : Begins(p, L, text, t)
  BY DEF Joined
<1> DEFINE b == t[L - 1]
           u == [t EXCEPT ![L] = new]
<1>2. /\ L \in 1..L /\ L \in 0..L /\ L - 1 \in 0..L /\ L - 1 # L /\ L # 0 /\ 0 \in 0..L
      /\ a \in Seq(S) /\ b \in Seq(S) /\ new \in Seq(S)
  OBVIOUS
<1>3. new = b \o Append(a, w)
  <2>1. text = b \o a
    BY <1>1, <1>2 DEF Begins
  <2> HIDE DEF b
  <2> QED
    BY <1>2, <1>0, <2>1
<1>4. u \in [0..L -> Seq(S)] /\ u[L] = new /\ u[0] = <<>> /\ u[L - 1] = b
  <2>1. t[0] = <<>>
    BY <1>1 DEF Begins
  <2> HIDE DEF new
  <2> QED
    BY <1>2, <2>1
<1>5. ASSUME NEW i \in 1..L PROVE u[i] = u[i - 1] \o q[i]
  <2>1. CASE i = L
    BY <1>2, <1>3, <1>4, <2>1
  <2>2. CASE i # L
    <3>1. i \in 0..L /\ i - 1 \in 0..L /\ i - 1 # L
      BY <2>2
    <3>2. u[i] = t[i] /\ u[i - 1] = t[i - 1] /\ q[i] = p[i]
      BY <1>2, <2>2, <3>1
    <3> QED
      BY <1>1, <3>2 DEF Begins
  <2> QED
    BY <2>1, <2>2
<1> HIDE DEF u, new
<1>6. Begins(q, L, new, u)
  BY <1>4, <1>5 DEF Begins
<1> QED
  BY <1>4, <1>6 DEF Joined, new

LEMMA JoinedOpen ==
  ASSUME NEW S, NEW L \in Nat, NEW p \in [1..L -> Seq(S)], NEW text \in Seq(S),
         Joined(p, L, text, S), NEW q,
         \A i \in 1..L : q[i] = p[i], q[L + 1] = <<>>
  PROVE  Joined(q, L + 1, text, S)
<1>1. PICK t \in [0..L -> Seq(S)] : Begins(p, L, text, t)
  BY DEF Joined
<1> DEFINE u == [i \in 0..(L + 1) |-> IF i = L + 1 THEN text ELSE t[i]]
<1>2. /\ u \in [0..(L + 1) -> Seq(S)] /\ u[L + 1] = text
      /\ \A i \in 0..L : u[i] = t[i]
  OBVIOUS
<1> HIDE DEF u
<1>3. u[0] = <<>> /\ u[L] = text
  BY <1>1, <1>2 DEF Begins
<1>4. ASSUME NEW i \in 1..(L + 1) PROVE u[i] = u[i - 1] \o q[i]
  <2>1. CASE i = L + 1
    <3>1. i - 1 = L
      BY <2>1
    <3>2. text = text \o <<>>
      OBVIOUS
    <3> QED
      BY <1>2, <1>3, <2>1, <3>1, <3>2
  <2>2. CASE i # L + 1
    <3>1. i \in 1..L /\ i \in 0..L /\ i - 1 \in 0..L
      BY <2>2
    <3> QED
      BY <1>1, <1>2, <3>1 DEF Begins
  <2> QED
    BY <2>1, <2>2
<1>5. Begins(q, L + 1, text, u)
  BY <1>2, <1>3, <1>4 DEF Begins
<1> QED
  BY <1>2, <1>5 DEF Joined

LEMMA JoinedMerge ==
  ASSUME NEW S, NEW L \in Nat \ {0}, NEW p \in [1..(L + 1) -> Seq(S)],
         NEW text \in Seq(S), Joined(p, L + 1, text, S)
  PROVE  \A q : (/\ \A i \in 1..L : i # L => q[i] = p[i]
                 /\ q[L] = p[L] \o p[L + 1]) => Joined(q, L, text, S)
<1> DEFINE a == p[L]
           b == p[L + 1]
<1>0. \A d \in Seq(S) : (d \o a) \o b = d \o (a \o b)
  <2>1. a \in Seq(S) /\ b \in Seq(S)
    OBVIOUS
  <2> HIDE DEF a, b
  <2> QED
    BY <2>1, Regroup, Zenon
<1> TAKE q
<1> HAVE /\ \A i \in 1..L : i # L => q[i] = p[i]
         /\ q[L] = p[L] \o p[L + 1]
<1>1. PICK t \in [0..(L + 1) -> Seq(S)] : Begins(p, L + 1, text, t)
  BY DEF Joined
<1> DEFINE d == t[L - 1]
           u == [i \in 0..L |-> IF i = L THEN text ELSE t[i]]
<1>2. /\ L - 1 \in 0..(L + 1) /\ L \in 1..(L + 1) /\ L + 1 \in 1..(L + 1)
      /\ (L + 1) - 1 = L
      /\ a \in Seq(S) /\ b \in Seq(S) /\ d \in Seq(S)
  OBVIOUS
<1>3. text = (d \o a) \o b
  BY <1>1, <1>2 DEF Begins
<1>4. text = d \o (a \o b)
  <2> HIDE DEF a, b, d
  <2> QED
    BY <1>2, <1>3, <1>0
<1>5. /\ u \in [0..L -> Seq(S)] /\ u[L] = text
      /\ \A i \in 0..L : i # L => u[i] = t[i]
  OBVIOUS
<1> HIDE DEF u
<1>6. u[0] = <<>>
  BY <1>1, <1>5 DEF Begins
<1>7. ASSUME NEW i \in 1..L PROVE u[i] = u[i - 1] \o q[i]
  <2>1. i - 1 \in 0..L /\ i - 1 # L /\ i \in 0..L /\ i \in 1..(L + 1)
    OBVIOUS
  <2>2. CASE i = L
    BY <1>4, <1>5, <2>1, <2>2
  <2>3. CASE i # L
    BY <1>1, <1>5, <2>1, <2>3 DEF Begins
  <2> QED
    BY <2>2, <2>3
<1>8. Begins(q, L, text, u)
  BY <1>5, <1>6, <1>7 DEF Begins
<1> QED
  BY <1>5, <1>8 DEF Joined

LEMMA JoinedOne ==
  ASSUME NEW S, NEW p \in [1..1 -> Seq(S)], NEW text \in Seq(S), Joined(p, 1, text, S)
  PROVE  p[1] = text
<1> DEFINE a == p[1]
<1>1. PICK t \in [0..1 -> Seq(S)] : Begins(p, 1, text, t)
  BY DEF Joined
<1>2. t[1] = t[1 - 1] \o p[1] /\ t[1] = text /\ t[0] = <<>> /\ 1 - 1 = 0 /\ a \in Seq(S)
  BY <1>1 DEF Begins
<1> HIDE DEF a
<1>3. a = <<>> \o a
  BY <1>2
<1> QED
  BY <1>2, <1>3 DEF a

-----------------------------------------------------------------------------
(* What the steps keep                                                     *)

LEMMA LackingFinite ==
  ASSUME ChainTypeOK
  PROVE  IsFiniteSet(Lacking(frames)) /\ Cardinality(Lacking(frames)) \in Nat
<1>1. Len(frames) \in Nat
  BY DEF ChainTypeOK
<1>2. IsFiniteSet(1..Len(frames))
  BY <1>1, FS_Interval
<1>3. Lacking(frames) \subseteq 1..Len(frames)
  BY DEF Lacking
<1>4. IsFiniteSet(Lacking(frames))
  BY <1>2, <1>3, FS_Subset
<1> QED
  BY <1>4, FS_CardinalityType

LEMMA TopStepKeeps ==
  ASSUME Held, NEW f, NEW E, TopStep(f, E)
  PROVE  Held' /\ Abstract!Extends(Outcome, Outcome')
<1>1. /\ Level \in Nat /\ Level >= 1 /\ Level = Len(frames)
      /\ Top \in Frames /\ Top = frames[Level]
      /\ Top.result \in Results
  BY TopFacts
<1>2. /\ ChainTypeOK /\ ContractsHeld /\ ErrorsHeld /\ WordsHeld /\ LackingCounted
      /\ Silent
  BY DEF Held
<1>3. /\ frames' \in Seq(Frames) /\ Len(frames') = Level /\ frames'[Level] = f
      /\ \A i \in 1..Level : frames[i] \in Frames /\ (i # Level => frames'[i] = frames[i])
  BY <1>1, <1>2 DEF TopStep, ChainTypeOK
<1>4. ChainTypeOK'
  <2>1. reported' \subseteq Errors
    BY <1>2 DEF TopStep, ChainTypeOK
  <2>2. refusedWords' \in Seq(ParserNames)
    BY <1>2 DEF TopStep, ChainTypeOK
  <2>3. incomplete' \in Int
    BY <1>2 DEF TopStep, ChainTypeOK
  <2> QED
    BY <1>1, <1>3, <2>1, <2>2, <2>3 DEF TopStep, ChainTypeOK
<1>5. ContractsHeld'
  BY <1>1, <1>2, <1>3 DEF TopStep, ContractsHeld
<1>6. ErrorsHeld'
  <2> SUFFICES ASSUME NEW e \in Errors
               PROVE  e \in reported' <=>
                        \E i \in 1..Level : e \in frames'[i].result.errors
    BY <1>3 DEF ErrorsHeld
  <2>1. e \in reported <=> \E i \in 1..Level : e \in frames[i].result.errors
    BY <1>1, <1>2 DEF ErrorsHeld
  <2>2. /\ reported' = reported \cup E
        /\ frames'[Level].result.errors = frames[Level].result.errors \cup E
    BY <1>1, <1>3 DEF TopStep
  <2>3. ASSUME e \in reported' PROVE \E i \in 1..Level : e \in frames'[i].result.errors
    <3>1. CASE e \in E
      BY <1>1, <2>2, <3>1
    <3>2. CASE e \notin E
      <4>1. PICK i \in 1..Level : e \in frames[i].result.errors
        BY <2>1, <2>2, <2>3, <3>2
      <4>2. CASE i = Level
        BY <1>1, <2>2, <4>1, <4>2
      <4>3. CASE i # Level
        BY <1>3, <4>1, <4>3
      <4> QED
        BY <4>2, <4>3
    <3> QED
      BY <3>1, <3>2
  <2>4. ASSUME NEW i \in 1..Level, e \in frames'[i].result.errors PROVE e \in reported'
    <3>1. CASE i = Level
      BY <2>1, <2>2, <2>4, <3>1
    <3>2. CASE i # Level
      BY <1>3, <2>1, <2>2, <2>4, <3>2
    <3> QED
      BY <3>1, <3>2
  <2> QED
    BY <2>3, <2>4
<1>7. WordsHeld'
  <2> DEFINE p == Ignored(frames)
             q == Ignored(frames')
  <2>1. /\ p \in [1..Level -> Seq(ParserNames)]
        /\ p[Level] = Top.result.ignoredArguments
    BY <1>1, <1>3 DEF Ignored, Frames, Results
  <2>2. q = [p EXCEPT ![Level] = f.result.ignoredArguments]
    BY <1>1, <1>3 DEF Ignored
  <2>3. Joined(p, Level, refusedWords, ParserNames) /\ refusedWords \in Seq(ParserNames)
    BY <1>1, <1>2 DEF WordsHeld, ChainTypeOK
  <2> HIDE DEF p, q
  <2>4. CASE f.result.ignoredArguments = p[Level] /\ refusedWords' = refusedWords
    <3>1. q = p
      BY <2>1, <2>2, <2>4
    <3> QED
      BY <1>3, <2>3, <2>4, <3>1 DEF WordsHeld, q
  <2>5. ASSUME NEW w \in ParserNames,
               f.result.ignoredArguments = Append(p[Level], w),
               refusedWords' = Append(refusedWords, w)
        PROVE  WordsHeld'
    <3>1. /\ q \in [1..Level -> Seq(ParserNames)] /\ q[Level] = Append(p[Level], w)
          /\ \A i \in 1..Level : i # Level => q[i] = p[i]
      <4>1. p[Level] \in Seq(ParserNames) /\ Append(p[Level], w) \in Seq(ParserNames)
        BY <1>1, <2>1
      <4> QED
        BY <1>1, <2>1, <2>2, <2>5, <4>1
    <3>2. Level \in Nat \ {0}
      BY <1>1
    <3>3. Joined(q, Level, Append(refusedWords, w), ParserNames)
      BY <2>1, <2>3, <3>1, <3>2, JoinedAppend
    <3> QED
      BY <1>3, <2>5, <3>3 DEF WordsHeld, q
  <2> QED
    BY <2>1, <2>4, <2>5 DEF TopStep
<1>8. LackingCounted'
  <2> SUFFICES ASSUME reported' = {} PROVE incomplete' = Cardinality(Lacking(frames'))
    BY DEF LackingCounted
  <2>1. incomplete = Cardinality(Lacking(frames))
    BY <1>2 DEF TopStep, LackingCounted
  <2>2. CASE f.needs = Top.needs /\ incomplete' = incomplete
    <3>1. Lacking(frames') = Lacking(frames)
      BY <1>1, <1>3, <2>2 DEF Lacking
    <3> QED
      BY <2>1, <2>2, <3>1
  <2>3. CASE Top.needs /\ ~f.needs /\ incomplete' = incomplete - 1
    <3>1. Lacking(frames') = Lacking(frames) \ {Level} /\ Level \in Lacking(frames)
      BY <1>1, <1>3, <2>3 DEF Lacking
    <3> QED
      BY <1>2, <2>1, <2>3, <3>1, LackingFinite, FS_RemoveElement
  <2> QED
    BY <2>2, <2>3 DEF TopStep
<1>9. Abstract!Extends(Outcome, Outcome')
  <2>1. CASE Level = 1
    BY <1>1, <1>3, <2>1 DEF TopStep, Outcome
  <2>2. CASE Level # 1
    <3>1. frames'[1] = frames[1] /\ frames[1].result \in Results
      BY <1>1, <1>3, <2>2 DEF Frames
    <3> QED
      BY <3>1, ExtendsRefl DEF Outcome
  <2> QED
    BY <2>1, <2>2
<1>10. Silent'
  <2>1. \A i \in 1..Level : /\ frames'[i].topLevel = frames[i].topLevel
                           /\ frames'[i].name = frames[i].name
    BY <1>1, <1>3 DEF TopStep
  <2>2. \A i \in 1..Level : frames'[i].topLevel <=> i = 1
    BY <1>1, <1>2, <2>1 DEF Silent
  <2>3. frames'[1].name = Program
    BY <1>1, <1>2, <2>1 DEF Silent
  <2>4. ASSUME status' # "returned"
        PROVE  /\ described' = <<>>
               /\ \A i \in 1..Level : ~frames'[i].result.errorsWereShown
    <3>1. /\ described = <<>>
          /\ \A i \in 1..Level : ~frames[i].result.errorsWereShown
      BY <1>1, <1>2 DEF Silent, TopStep
    <3>2. described' = described /\ f.result.errorsWereShown = Top.result.errorsWereShown
      BY <2>4 DEF TopStep
    <3> QED
      BY <1>1, <1>3, <3>1, <3>2
  <2> QED
    BY <1>3, <2>2, <2>3, <2>4 DEF Silent
<1> QED
  BY <1>4, <1>5, <1>6, <1>7, <1>8, <1>9, <1>10 DEF Held

-----------------------------------------------------------------------------
(* The actions                                                             *)

(* What the innermost parser does on its own.                              *)
Reading == \/ UnknownOption \/ IgnoredWord \/ RequiredOption \/ ExitOption
           \/ Include \/ IncludeTooDeep \/ EndOfStream

LEMMA ReadingIsTopStep ==
  ASSUME Held, Reading
  PROVE  status' = "parsing" /\ \E f, E : TopStep(f, E)
<1>1. /\ Level \in Nat /\ Level >= 1 /\ Level = Len(frames)
      /\ Top \in Frames /\ Top.result \in Results /\ ResultContract(Top.result)
      /\ Top.name \in ParserNames /\ Abstract!Extends(Top.result, Top.result)
      /\ frames = [frames EXCEPT ![Level] = Top]
  BY TopFacts
<1>2. status = "parsing" /\ status' = "parsing" /\ described' = described
  BY DEF Reading, UnknownOption, IgnoredWord, RequiredOption, ExitOption, Include,
         IncludeTooDeep, EndOfStream, Reads, history
<1>3. CASE UnknownOption
  <2> DEFINE r == addErrorTo(Top.result, Top.name, "UNKNOWN_OPTION")
             g == [Top EXCEPT !.result = r]
             E == {[subject |-> Top.name, code |-> "UNKNOWN_OPTION"]}
  <2>1. /\ r \in Results /\ r.errors = Top.result.errors \cup E
        /\ r.ignoredArguments = Top.result.ignoredArguments
        /\ r.errorsWereShown = Top.result.errorsWereShown
        /\ ResultContract(r) /\ Abstract!Extends(Top.result, r)
    BY <1>1, AddError DEF ErrorCodes, ChainCodes
  <2>2. /\ frames' = [frames EXCEPT ![Level] = break(g)] /\ reported' = reported \cup E
        /\ refusedWords' = refusedWords /\ incomplete' = incomplete
    BY <1>3 DEF UnknownOption, TopBecomes
  <2>3. E \subseteq Errors
    BY <1>1 DEF Errors, ErrorCodes, ChainCodes
  <2> HIDE DEF r
  <2>4. /\ break(g) \in Frames /\ break(g).result = r /\ break(g).needs = Top.needs
        /\ break(g).name = Top.name /\ break(g).topLevel = Top.topLevel
    <3>1. /\ g \in Frames /\ g.result = r /\ g.needs = Top.needs
          /\ g.name = Top.name /\ g.topLevel = Top.topLevel
      BY <1>1, <2>1, WithResult
    <3> HIDE DEF g
    <3> QED
      BY <3>1, Left
  <2> HIDE DEF g, E
  <2>5. TopStep(break(g), E)
    BY <1>2, <2>1, <2>2, <2>3, <2>4 DEF TopStep
  <2> QED
    BY <1>2, <2>5
<1>4. CASE IgnoredWord
  <2> DEFINE r == addIgnoredTo(Top.result, Top.name)
             g == [Top EXCEPT !.result = r]
  <2>1. /\ r \in Results /\ r.errors = Top.result.errors
        /\ r.ignoredArguments = Append(Top.result.ignoredArguments, Top.name)
        /\ r.errorsWereShown = Top.result.errorsWereShown
        /\ ResultContract(r) /\ Abstract!Extends(Top.result, r)
    BY <1>1, AddIgnored
  <2>2. /\ frames' = [frames EXCEPT ![Level] = g] /\ reported' = reported
        /\ refusedWords' = Append(refusedWords, Top.name) /\ incomplete' = incomplete
    BY <1>4 DEF IgnoredWord, TopBecomes
  <2> HIDE DEF r
  <2>3. /\ g \in Frames /\ g.result = r /\ g.needs = Top.needs
        /\ g.name = Top.name /\ g.topLevel = Top.topLevel
    BY <1>1, <2>1, WithResult
  <2> HIDE DEF g
  <2>4. TopStep(g, {})
    BY <1>1, <1>2, <2>1, <2>2, <2>3 DEF TopStep
  <2> QED
    BY <1>2, <2>4
<1>5. CASE RequiredOption
  <2> DEFINE g == [Top EXCEPT !.needs = FALSE]
  <2>1. /\ g \in Frames /\ g.result = Top.result /\ ~g.needs
        /\ g.name = Top.name /\ g.topLevel = Top.topLevel
    BY <1>1 DEF Frames
  <2>2. /\ frames' = [frames EXCEPT ![Level] = break(g)] /\ reported' = reported
        /\ refusedWords' = refusedWords
        /\ incomplete' = IF Top.needs THEN incomplete - 1 ELSE incomplete
    BY <1>5 DEF RequiredOption, TopBecomes
  <2> HIDE DEF g
  <2>3. /\ break(g) \in Frames /\ break(g).result = Top.result /\ ~break(g).needs
        /\ break(g).name = Top.name /\ break(g).topLevel = Top.topLevel
    BY <2>1, Left
  <2>4. TopStep(break(g), {})
    <3>1. CASE Top.needs
      BY <1>1, <1>2, <2>2, <2>3, <3>1 DEF TopStep
    <3>2. CASE ~Top.needs
      <4>1. break(g).needs = Top.needs
        BY <1>1, <2>3, <3>2 DEF Frames
      <4> QED
        BY <1>1, <1>2, <2>2, <2>3, <3>2, <4>1 DEF TopStep
    <3> QED
      BY <3>1, <3>2
  <2> QED
    BY <1>2, <2>4
<1>6. CASE ExitOption
  <2>1. PICK help \in BOOLEAN :
          TopBecomes(leave([Top EXCEPT !.result = exitIn(@, help)]))
    BY <1>6 DEF ExitOption
  <2> DEFINE r == exitIn(Top.result, help)
             g == [Top EXCEPT !.result = r]
  <2>2. /\ r \in Results /\ r.errors = Top.result.errors \cup {ExitError}
        /\ r.ignoredArguments = Top.result.ignoredArguments
        /\ r.errorsWereShown = Top.result.errorsWereShown
        /\ ResultContract(r) /\ Abstract!Extends(Top.result, r)
    BY <1>1, RequestExit
  <2>3. /\ frames' = [frames EXCEPT ![Level] = leave(g)]
        /\ reported' = reported \cup {ExitError}
        /\ refusedWords' = refusedWords /\ incomplete' = incomplete
    BY <1>6, <2>1 DEF ExitOption, TopBecomes, ExitError
  <2>4. {ExitError} \subseteq Errors
    BY DEF ExitError, Errors, ErrorCodes, ChainCodes
  <2> HIDE DEF r
  <2>5. /\ leave(g) \in Frames /\ leave(g).result = r /\ leave(g).needs = Top.needs
        /\ leave(g).name = Top.name /\ leave(g).topLevel = Top.topLevel
    <3>1. /\ g \in Frames /\ g.result = r /\ g.needs = Top.needs
          /\ g.name = Top.name /\ g.topLevel = Top.topLevel
      BY <1>1, <2>2, WithResult
    <3> HIDE DEF g
    <3> QED
      BY <3>1, Left
  <2> HIDE DEF g
  <2>6. TopStep(leave(g), {ExitError})
    BY <1>2, <2>2, <2>3, <2>4, <2>5 DEF TopStep
  <2> QED
    BY <1>2, <2>6
<1>7. CASE Include
  <2> DEFINE d == Top.depth + 1
             g == [Top EXCEPT !.depth = d]
  <2>1. d \in Nat
    BY <1>1 DEF Frames
  <2>2. /\ reported' = reported /\ refusedWords' = refusedWords
        /\ incomplete' = incomplete
        /\ \/ frames' = [frames EXCEPT ![Level] = g]
           \/ frames' = [frames EXCEPT ![Level] = Top]
    BY <1>1, <1>7 DEF Include, TopBecomes
  <2> HIDE DEF d
  <2>3. /\ g \in Frames /\ g.result = Top.result /\ g.needs = Top.needs
        /\ g.name = Top.name /\ g.topLevel = Top.topLevel
    BY <1>1, <2>1 DEF Frames
  <2> HIDE DEF g
  <2>4. TopStep(g, {}) \/ TopStep(Top, {})
    BY <1>1, <1>2, <2>2, <2>3 DEF TopStep
  <2> QED
    BY <1>2, <2>4
<1>8. CASE IncludeTooDeep
  <2> DEFINE r == addErrorTo(Top.result, NoSubject, "INCLUDE_TOO_DEEP")
             g == [Top EXCEPT !.depth = 0, !.open = FALSE, !.result = r]
             E == {[subject |-> NoSubject, code |-> "INCLUDE_TOO_DEEP"]}
  <2>0. /\ NoSubject \in ParserNames \cup {NoSubject}
        /\ "INCLUDE_TOO_DEEP" \in ChainCodes \ {"EXIT_REQUESTED"}
    BY DEF ErrorCodes, ChainCodes
  <2>1. /\ r \in Results /\ r.errors = Top.result.errors \cup E
        /\ r.ignoredArguments = Top.result.ignoredArguments
        /\ r.errorsWereShown = Top.result.errorsWereShown
        /\ ResultContract(r) /\ Abstract!Extends(Top.result, r)
    BY <1>1, <2>0, AddError
  <2>2. /\ frames' = [frames EXCEPT ![Level] = g] /\ reported' = reported \cup E
        /\ refusedWords' = refusedWords /\ incomplete' = incomplete
    BY <1>8 DEF IncludeTooDeep, TopBecomes
  <2>3. E \subseteq Errors
    BY <1>1 DEF Errors, ErrorCodes, ChainCodes
  <2> HIDE DEF r
  <2>4. /\ g \in Frames /\ g.result = r /\ g.needs = Top.needs
        /\ g.name = Top.name /\ g.topLevel = Top.topLevel
    BY <1>1, <2>1 DEF Frames
  <2> HIDE DEF g, E
  <2>5. TopStep(g, E)
    BY <1>2, <2>1, <2>2, <2>3, <2>4 DEF TopStep
  <2> QED
    BY <1>2, <2>5
<1>9. CASE EndOfStream
  <2>1. /\ frames' = [frames EXCEPT ![Level] = leave(Top)] /\ reported' = reported
        /\ refusedWords' = refusedWords /\ incomplete' = incomplete
    BY <1>9 DEF EndOfStream, TopBecomes, history
  <2>2. /\ leave(Top) \in Frames /\ leave(Top).result = Top.result
        /\ leave(Top).needs = Top.needs
        /\ leave(Top).name = Top.name /\ leave(Top).topLevel = Top.topLevel
    BY <1>1, Left
  <2>3. TopStep(leave(Top), {})
    BY <1>1, <1>2, <2>1, <2>2 DEF TopStep
  <2> QED
    BY <1>2, <2>3
<1> QED
  BY <1>3, <1>4, <1>5, <1>6, <1>7, <1>8, <1>9 DEF Reading

(* What the validation adds.                                               *)
Missing(f) == IF isMissing(f) THEN {[subject |-> f.name, code |-> "MISSING_OPTION"]}
                              ELSE {}

LEMMA Validated ==
  ASSUME NEW f \in Frames, ResultContract(f.result)
  PROVE  /\ validated(f) \in Results
         /\ validated(f).errors = f.result.errors \cup Missing(f)
         /\ validated(f).ignoredArguments = f.result.ignoredArguments
         /\ validated(f).errorsWereShown = f.result.errorsWereShown
         /\ ResultContract(validated(f))
         /\ Abstract!Extends(f.result, validated(f))
         /\ Missing(f) \subseteq Errors
         /\ validated(f).errors = {} => ~f.needs
<1>1. f.result \in Results /\ f.name \in ParserNames
  BY DEF Frames
<1>2. CASE isMissing(f)
  <2>1. validated(f) = addErrorTo(f.result, f.name, "MISSING_OPTION")
    BY <1>2 DEF validated
  <2>2. Missing(f) = {[subject |-> f.name, code |-> "MISSING_OPTION"]}
    BY <1>2 DEF Missing
  <2>3. Missing(f) \subseteq Errors
    BY <1>1, <2>2 DEF Errors, ErrorCodes, ChainCodes
  <2> QED
    BY <1>1, <2>1, <2>2, <2>3, AddError DEF ErrorCodes, ChainCodes
<1>3. CASE ~isMissing(f)
  <2>1. validated(f) = f.result /\ Missing(f) = {}
    BY <1>3 DEF validated, Missing
  <2>2. f.result.errors = {} => ~f.needs
    BY <1>3 DEF isMissing, ResultContract
  <2> QED
    BY <1>1, <2>1, <2>2, ExtendsRefl
<1> QED
  BY <1>2, <1>3

(* What the call returns: the result of a parser that is not at top level  *)
(* never says that errors were shown.                                      *)
LEMMA ReturnedFrame ==
  ASSUME NEW f \in Frames, ResultContract(f.result), NEW r, r = returned(f)
  PROVE  /\ r \in Results
         /\ r.errors = f.result.errors \cup Missing(f)
         /\ r.ignoredArguments = f.result.ignoredArguments
         /\ ResultContract(r)
         /\ Abstract!Extends(f.result, r)
         /\ ~f.topLevel /\ ~f.result.errorsWereShown => ~r.errorsWereShown
         /\ ~f.result.errorsWereShown => (r.errorsWereShown <=> describes(f))
         /\ Missing(f) \subseteq Errors
         /\ r.errors = {} => ~f.needs
<1> DEFINE v == validated(f)
<1>1. /\ f.result \in Results
      /\ v \in Results /\ v.errors = f.result.errors \cup Missing(f)
      /\ v.ignoredArguments = f.result.ignoredArguments
      /\ v.errorsWereShown = f.result.errorsWereShown
      /\ ResultContract(v) /\ Abstract!Extends(f.result, v)
      /\ Missing(f) \subseteq Errors /\ (v.errors = {} => ~f.needs)
  BY Validated DEF Frames
<1>2. describes(f) => f.topLevel
  BY DEF describes
<1>3. r = IF describes(f) THEN signalErrorsShownIn(v) ELSE v
  BY DEF returned
<1> HIDE DEF v
<1>4. CASE describes(f)
  <2>1. /\ r \in Results /\ r.errorsWereShown
        /\ r.errors = v.errors /\ r.ignoredArguments = v.ignoredArguments
        /\ ResultContract(r) /\ Abstract!Extends(v, r)
    BY <1>1, <1>3, <1>4, SignalErrorsShown
  <2>2. Abstract!Extends(f.result, r)
    BY <1>1, <2>1, ExtendsTwice
  <2> QED
    BY <1>1, <1>2, <1>4, <2>1, <2>2
<1>5. CASE ~describes(f)
  <2>1. r = v
    BY <1>3, <1>5
  <2> QED
    BY <1>1, <1>5, <2>1
<1> QED
  BY <1>4, <1>5

LEMMA InitHeld == Init => Held /\ IInv
<1> SUFFICES ASSUME Init PROVE Held /\ IInv
  OBVIOUS
<1> DEFINE g == newFrame(Program, "configured", TRUE)
<1>1. /\ g \in Frames /\ g.result = emptyResult /\ g.needs
      /\ g.name = Program /\ g.topLevel
  BY NewFrame DEF ParserNames
<1>2. /\ frames = <<g>> /\ status = "parsing" /\ reported = {} /\ refusedWords = <<>>
      /\ incomplete = 1 /\ described = <<>>
  BY DEF Init
<1> HIDE DEF g
<1>3. Len(frames) = 1 /\ frames[1] = g /\ frames \in Seq(Frames)
  BY <1>1, <1>2
<1>4. ChainTypeOK
  BY <1>2, <1>3 DEF ChainTypeOK
<1>5. ContractsHeld /\ ErrorsHeld
  BY <1>1, <1>2, <1>3, EmptyResult DEF ContractsHeld, ErrorsHeld
<1>6. WordsHeld
  <2> DEFINE t == [i \in 0..1 |-> <<>>]
             p == Ignored(frames)
  <2>1. t \in [0..1 -> Seq(ParserNames)] /\ t[0] = <<>> /\ t[1] = <<>>
    OBVIOUS
  <2>2. p[1] = <<>>
    BY <1>1, <1>3, EmptyResult DEF Ignored
  <2> HIDE DEF t, p
  <2>3. <<>> = <<>> \o <<>>
    OBVIOUS
  <2>4. ASSUME NEW i \in 1..1 PROVE t[i] = t[i - 1] \o p[i]
    <3>1. i = 1 /\ i - 1 = 0
      OBVIOUS
    <3> QED
      BY <2>1, <2>2, <2>3, <3>1
  <2>5. Begins(p, 1, <<>>, t)
    BY <2>1, <2>4 DEF Begins
  <2> QED
    BY <1>2, <1>3, <2>1, <2>5 DEF WordsHeld, Joined, p
<1>7. LackingCounted
  <2>1. Lacking(frames) = {1}
    BY <1>1, <1>3 DEF Lacking
  <2> QED
    BY <1>2, <2>1, FS_Singleton DEF LackingCounted
<1>8. Silent
  BY <1>1, <1>2, <1>3, EmptyResult DEF Silent
<1>9. ErrorsShownOnce
  BY <1>1, <1>2, <1>3, EmptyResult DEF ErrorsShownOnce, Returned, Outcome
<1>10. SuccessMeansAllComplete /\ ExceptionsArrive
  BY <1>2 DEF SuccessMeansAllComplete, ExceptionsArrive, Returned
<1> QED
  BY <1>4, <1>5, <1>6, <1>7, <1>8, <1>9, <1>10 DEF Held, IInv

(* A new frame has nothing to report, but lacks its required option.       *)
LEMMA CommandKeeps ==
  ASSUME Held, Command
  PROVE  Held' /\ Abstract!Extends(Outcome, Outcome')
<1>1. /\ Level \in Nat /\ Level >= 1 /\ Level = Len(frames)
      /\ Top \in Frames /\ Top = frames[Level] /\ Top.result \in Results
      /\ ResultContract(Top.result)
  BY TopFacts
<1>2. /\ ChainTypeOK /\ ContractsHeld /\ ErrorsHeld /\ WordsHeld /\ LackingCounted
      /\ Silent
  BY DEF Held
<1> DEFINE c == Chain[Level]
           r == addCommandTo(Top.result, c)
           g == [Top EXCEPT !.result = r]
           h == newFrame(c, "default", FALSE)
<1>3. c \in ChainCommands
  BY <1>1, ChainAssumption DEF Command, ChainCommands
<1>4. /\ r \in Results /\ r.errors = Top.result.errors
      /\ r.ignoredArguments = Top.result.ignoredArguments
      /\ r.errorsWereShown = Top.result.errorsWereShown
      /\ ResultContract(r) /\ Abstract!Extends(Top.result, r)
  BY <1>1, <1>3, AddCommand
<1>5. frames' = Append([frames EXCEPT ![Level] = g], h)
  BY <1>1 DEF Command
<1>6. h \in Frames /\ h.result = emptyResult /\ h.needs /\ h.topLevel = FALSE
  BY <1>3, NewFrame DEF ParserNames
<1> HIDE DEF c, r, h
<1>7. /\ g \in Frames /\ g.result = r /\ g.needs = Top.needs
      /\ g.name = Top.name /\ g.topLevel = Top.topLevel
  BY <1>1, <1>4, WithResult
<1> HIDE DEF g
<1>8. /\ frames' \in Seq(Frames) /\ Len(frames') = Level + 1
      /\ frames'[Level] = g /\ frames'[Level + 1] = h
      /\ \A i \in 1..Level : frames[i] \in Frames /\ (i # Level => frames'[i] = frames[i])
  BY <1>1, <1>2, <1>5, <1>6, <1>7 DEF ChainTypeOK
<1>9. /\ status = "parsing" /\ status' = "parsing" /\ reported' = reported
      /\ refusedWords' = refusedWords /\ incomplete' = incomplete + 1
      /\ described' = described
  BY DEF Command, Reads
<1>10. ChainTypeOK'
  BY <1>1, <1>2, <1>8, <1>9 DEF ChainTypeOK
<1>11. /\ \A i \in 1..Level : /\ frames'[i].result.errors = frames[i].result.errors
                             /\ frames'[i].needs = frames[i].needs
                             /\ frames'[i].result.ignoredArguments
                                  = frames[i].result.ignoredArguments
                             /\ ResultContract(frames'[i].result)
  BY <1>1, <1>2, <1>4, <1>7, <1>8 DEF ContractsHeld
<1>12. ContractsHeld'
  <2> SUFFICES ASSUME NEW i \in 1..(Level + 1) PROVE ResultContract(frames'[i].result)
    BY <1>8 DEF ContractsHeld
  <2>1. CASE i = Level + 1
    BY <1>6, <1>8, <2>1, EmptyResult
  <2>2. CASE i # Level + 1
    BY <1>1, <1>11, <2>2
  <2> QED
    BY <2>1, <2>2
<1>13. ErrorsHeld'
  <2> SUFFICES ASSUME NEW e \in Errors
               PROVE  e \in reported' <=>
                        \E i \in 1..(Level + 1) : e \in frames'[i].result.errors
    BY <1>8 DEF ErrorsHeld
  <2>1. e \in reported <=> \E i \in 1..Level : e \in frames[i].result.errors
    BY <1>1, <1>2 DEF ErrorsHeld
  <2>2. e \notin frames'[Level + 1].result.errors
    BY <1>6, <1>8, EmptyResult
  <2>3. \A i : i \in 1..(Level + 1) <=> i \in 1..Level \/ i = Level + 1
    BY <1>1
  <2> QED
    BY <1>9, <1>11, <2>1, <2>2, <2>3
<1>14. WordsHeld'
  <2> DEFINE p == Ignored(frames)
             q == Ignored(frames')
  <2>1. p \in [1..Level -> Seq(ParserNames)]
    BY <1>1, <1>8 DEF Ignored, Frames, Results
  <2>2. q[Level + 1] = <<>> /\ \A i \in 1..Level : q[i] = p[i]
    BY <1>1, <1>6, <1>8, <1>11, EmptyResult DEF Ignored
  <2>3. Joined(p, Level, refusedWords, ParserNames) /\ refusedWords \in Seq(ParserNames)
    BY <1>1, <1>2 DEF WordsHeld, ChainTypeOK
  <2> HIDE DEF p, q
  <2>4. Joined(q, Level + 1, refusedWords, ParserNames)
    BY <1>1, <2>1, <2>2, <2>3, JoinedOpen
  <2> QED
    BY <1>8, <1>9, <2>4 DEF WordsHeld, q
<1>15. LackingCounted'
  <2>1. Lacking(frames') = Lacking(frames) \cup {Level + 1}
    BY <1>1, <1>6, <1>8, <1>11 DEF Lacking
  <2>2. Level + 1 \notin Lacking(frames)
    BY <1>1 DEF Lacking
  <2>3. Cardinality(Lacking(frames')) = Cardinality(Lacking(frames)) + 1
    BY <1>2, <2>1, <2>2, LackingFinite, FS_AddElement
  <2> QED
    BY <1>2, <1>9, <2>3 DEF LackingCounted
<1>16. Abstract!Extends(Outcome, Outcome')
  <2>1. CASE Level = 1
    BY <1>1, <1>4, <1>7, <1>8, <2>1 DEF Outcome
  <2>2. CASE Level # 1
    <3>1. frames'[1] = frames[1] /\ frames[1].result \in Results
      BY <1>1, <1>8, <2>2 DEF Frames
    <3> QED
      BY <3>1, ExtendsRefl DEF Outcome
  <2> QED
    BY <2>1, <2>2
<1>17. Silent'
  <2>1. \A i \in 1..Level : /\ frames'[i].topLevel = frames[i].topLevel
                           /\ frames'[i].name = frames[i].name
                           /\ frames'[i].result.errorsWereShown
                                = frames[i].result.errorsWereShown
    BY <1>1, <1>4, <1>7, <1>8
  <2>2. /\ frames'[Level + 1].topLevel = FALSE
        /\ ~frames'[Level + 1].result.errorsWereShown
    BY <1>6, <1>8, EmptyResult
  <2>3. ASSUME NEW i \in 1..(Level + 1)
        PROVE  /\ frames'[i].topLevel <=> i = 1
               /\ ~frames'[i].result.errorsWereShown
    <3>1. CASE i = Level + 1
      BY <1>1, <2>2, <3>1
    <3>2. CASE i # Level + 1
      <4>1. i \in 1..Level
        BY <1>1, <3>2
      <4> QED
        BY <1>1, <1>2, <1>9, <2>1, <4>1 DEF Silent
    <3> QED
      BY <3>1, <3>2
  <2>4. frames'[1].name = Program /\ described' = <<>>
    BY <1>1, <1>2, <1>9, <2>1 DEF Silent
  <2> QED
    BY <1>8, <2>3, <2>4 DEF Silent
<1> QED
  BY <1>10, <1>12, <1>13, <1>14, <1>15, <1>16, <1>17 DEF Held

(* The last two frames become one.                                         *)
LEMMA FinishCommandKeeps ==
  ASSUME Held, FinishCommand
  PROVE  Held' /\ Abstract!Extends(Outcome, Outcome')
<1> DEFINE K == Level - 1
           outer == frames[K]
           v == returned(Top)
           r == addResultTo(outer.result, v)
           g == leave([outer EXCEPT !.result = r])
<1>1. /\ Level \in Nat /\ Level >= 1 /\ Level = Len(frames)
      /\ Top \in Frames /\ Top = frames[Level] /\ Top.result \in Results
      /\ ResultContract(Top.result)
  BY TopFacts
<1>2. /\ ChainTypeOK /\ ContractsHeld /\ ErrorsHeld /\ WordsHeld /\ LackingCounted
      /\ Silent
  BY DEF Held
<1>3. Level > 1 /\ K \in Nat /\ K >= 1 /\ K \in 1..Level /\ Level = K + 1 /\ K \in 1..K
  BY <1>1 DEF FinishCommand
<1>4. outer \in Frames /\ outer.result \in Results /\ ResultContract(outer.result)
  <2>1. outer \in Frames /\ ResultContract(outer.result)
    BY <1>1, <1>2, <1>3 DEF ChainTypeOK, ContractsHeld
  <2> QED
    BY <2>1 DEF Frames
<1>5. /\ v \in Results /\ v.errors = Top.result.errors \cup Missing(Top)
      /\ v.ignoredArguments = Top.result.ignoredArguments
      /\ ResultContract(v) /\ Missing(Top) \subseteq Errors
      /\ v.errors = {} => ~Top.needs
      /\ ~v.errorsWereShown /\ ~describes(Top)
  <2>1. ~Top.topLevel /\ ~Top.result.errorsWereShown
    BY <1>1, <1>2, <1>3 DEF Silent, FinishCommand, Closed
  <2> QED
    BY <1>1, <2>1, ReturnedFrame DEF describes
<1>6. /\ status = "parsing" /\ status' = "parsing"
      /\ refusedWords' = refusedWords /\ incomplete' = incomplete
      /\ reported' = reported \cup Missing(Top)
  BY DEF FinishCommand, Closed, noteMissing, Missing
<1>7. frames' = [SubSeq(frames, 1, K) EXCEPT ![K] = g]
  BY DEF FinishCommand
<1> HIDE DEF v
<1>8. /\ r \in Results /\ r.errors = outer.result.errors \cup v.errors
      /\ r.ignoredArguments = outer.result.ignoredArguments \o v.ignoredArguments
      /\ r.errorsWereShown = outer.result.errorsWereShown
      /\ ResultContract(r) /\ Abstract!Extends(outer.result, r)
  <2> DEFINE ro == outer.result
  <2>1. /\ ro \in Results /\ ResultContract(ro) /\ r = addResultTo(ro, v)
        /\ v \in Results /\ ResultContract(v)
    BY <1>4, <1>5
  <2>3. v.errorsWereShown = FALSE
    BY <1>5 DEF Results
  <2> HIDE DEF ro, r
  <2>2. /\ r \in Results /\ r.errors = ro.errors \cup v.errors
        /\ r.ignoredArguments = ro.ignoredArguments \o v.ignoredArguments
        /\ r.errorsWereShown = ro.errorsWereShown
        /\ ResultContract(r) /\ Abstract!Extends(ro, r)
    <3>1. PICK t : t = addResultTo(ro, v)
      OBVIOUS
    <3>2. t \in Results
      BY <2>1, <2>3, <3>1, AddResult
    <3>6. t.errors = ro.errors \cup v.errors
      BY <2>1, <3>1 DEF addResultTo, Results
    <3>5. t.ignoredArguments = ro.ignoredArguments \o v.ignoredArguments
      BY <2>1, <2>3, <3>1, AddResult
    <3>3. t.errorsWereShown = ro.errorsWereShown
      BY <2>1, <2>3, <3>1, AddResult
    <3>4. ResultContract(t) /\ Abstract!Extends(ro, t)
      BY <2>1, <2>3, <3>1, AddResult
    <3> QED
      BY <2>1, <3>1, <3>2, <3>3, <3>4, <3>5, <3>6
  <2> QED
    BY <2>2 DEF ro
<1> HIDE DEF r
<1>9. /\ g \in Frames /\ g.result = r /\ g.needs = outer.needs
      /\ g.name = outer.name /\ g.topLevel = outer.topLevel
  <2> DEFINE w == [outer EXCEPT !.result = r]
  <2> HIDE DEF outer
  <2>1. /\ w \in Frames /\ w.result = r /\ w.needs = outer.needs
        /\ w.name = outer.name /\ w.topLevel = outer.topLevel
    BY <1>4, <1>8, WithResult
  <2> HIDE DEF w
  <2>2. /\ leave(w) \in Frames /\ leave(w).result = r /\ leave(w).needs = outer.needs
        /\ leave(w).name = outer.name /\ leave(w).topLevel = outer.topLevel
    BY <2>1, Left
  <2> QED
    BY <2>2 DEF w
<1> HIDE DEF g
<1>10. /\ frames' \in Seq(Frames) /\ Len(frames') = K /\ frames'[K] = g
       /\ \A i \in 1..K : frames[i] \in Frames /\ (i # K => frames'[i] = frames[i])
  <2> DEFINE s == SubSeq(frames, 1, K)
  <2>1. s \in Seq(Frames) /\ Len(s) = K /\ \A i \in 1..K : s[i] = frames[i]
    BY <1>1, <1>2, <1>3 DEF ChainTypeOK
  <2> HIDE DEF s, K
  <2>2. frames' = [s EXCEPT ![K] = g]
    BY <1>7 DEF s
  <2> QED
    BY <1>3, <1>9, <2>1, <2>2
<1>11. ChainTypeOK'
  BY <1>2, <1>3, <1>5, <1>6, <1>10 DEF ChainTypeOK
<1>12. ContractsHeld'
  BY <1>1, <1>2, <1>3, <1>8, <1>9, <1>10 DEF ContractsHeld
<1>13. ErrorsHeld'
  <2> SUFFICES ASSUME NEW e \in Errors
               PROVE  e \in reported' <=> \E i \in 1..K : e \in frames'[i].result.errors
    BY <1>10 DEF ErrorsHeld
  <2>1. e \in reported <=> \E i \in 1..Level : e \in frames[i].result.errors
    BY <1>1, <1>2 DEF ErrorsHeld
  <2>2. /\ frames'[K].result.errors
             = frames[K].result.errors \cup frames[Level].result.errors \cup Missing(Top)
    BY <1>1, <1>5, <1>8, <1>9, <1>10
  <2>3. /\ 1..K \subseteq 1..Level /\ Level \in 1..Level
        /\ \A i \in 1..Level : i = Level \/ i \in 1..K
    BY <1>1, <1>3
  <2>4. ASSUME e \in reported' PROVE \E i \in 1..K : e \in frames'[i].result.errors
    <3>1. CASE e \in Missing(Top)
      BY <1>3, <2>2, <3>1
    <3>2. CASE e \notin Missing(Top)
      <4>1. PICK i \in 1..Level : e \in frames[i].result.errors
        BY <1>6, <2>1, <2>4, <3>2
      <4>2. CASE i \in {K, Level}
        BY <1>3, <2>2, <4>1, <4>2
      <4>3. CASE i \notin {K, Level}
        BY <1>10, <2>3, <4>1, <4>3
      <4> QED
        BY <4>2, <4>3
    <3> QED
      BY <3>1, <3>2
  <2>5. ASSUME NEW i \in 1..K, e \in frames'[i].result.errors PROVE e \in reported'
    <3>1. CASE i = K
      BY <1>6, <1>3, <2>1, <2>2, <2>3, <2>5, <3>1
    <3>2. CASE i # K
      BY <1>6, <1>10, <2>1, <2>3, <2>5, <3>2
    <3> QED
      BY <3>1, <3>2
  <2> QED
    BY <2>4, <2>5
<1>14. WordsHeld'
  <2> DEFINE p == Ignored(frames)
             q == Ignored(frames')
  <2>1. p \in [1..(K + 1) -> Seq(ParserNames)]
    <3>1. \A i \in 1..(K + 1) : frames[i] \in Frames
      BY <1>1, <1>2, <1>3 DEF ChainTypeOK
    <3> QED
      BY <1>1, <1>3, <3>1 DEF Ignored, Frames, Results
  <2>2. /\ \A i \in 1..K : i # K => q[i] = p[i]
        /\ q[K] = p[K] \o p[K + 1]
    <3>1. /\ \A i \in 1..K : q[i] = frames'[i].result.ignoredArguments
          /\ \A i \in 1..(K + 1) : p[i] = frames[i].result.ignoredArguments
      BY <1>1, <1>3, <1>10 DEF Ignored
    <3>2. frames'[K].result.ignoredArguments
            = frames[K].result.ignoredArguments \o frames[K + 1].result.ignoredArguments
      BY <1>1, <1>3, <1>5, <1>8, <1>9, <1>10
    <3>3. K \in 1..(K + 1) /\ K + 1 \in 1..(K + 1) /\ 1..K \subseteq 1..(K + 1)
      BY <1>3
    <3> HIDE DEF p, q, K
    <3> QED
      BY <1>3, <1>10, <3>1, <3>2, <3>3
  <2>3. Joined(p, K + 1, refusedWords, ParserNames) /\ refusedWords \in Seq(ParserNames)
    BY <1>1, <1>2, <1>3 DEF WordsHeld, ChainTypeOK
  <2>4. K \in Nat \ {0}
    BY <1>3
  <2> HIDE DEF p, q, K
  <2>5. Joined(q, K, refusedWords, ParserNames)
    BY <2>1, <2>2, <2>3, <2>4, JoinedMerge
  <2> QED
    BY <1>6, <1>10, <2>5 DEF WordsHeld, q
<1>15. LackingCounted'
  <2> SUFFICES ASSUME reported' = {} PROVE incomplete' = Cardinality(Lacking(frames'))
    BY DEF LackingCounted
  <2>1. incomplete = Cardinality(Lacking(frames)) /\ Missing(Top) = {}
    BY <1>2, <1>6 DEF LackingCounted
  <2>2. Top.result.errors = {}
    <3>1. Top.result.errors \subseteq Errors
      BY <1>1 DEF Results
    <3>2. \A e \in Errors : e \notin frames[Level].result.errors
      BY <1>1, <1>2, <1>6 DEF ErrorsHeld
    <3> QED
      BY <1>1, <3>1, <3>2
  <2>3. ~frames[Level].needs
    BY <1>1, <1>5, <2>1, <2>2
  <2>4. \A i \in 1..K : frames'[i].needs = frames[i].needs
    BY <1>3, <1>9, <1>10
  <2>5. Lacking(frames') = Lacking(frames)
    BY <1>1, <1>3, <1>10, <2>3, <2>4 DEF Lacking
  <2> QED
    BY <1>6, <2>1, <2>5
<1>16. Abstract!Extends(Outcome, Outcome')
  <2>1. CASE K = 1
    BY <1>8, <1>9, <1>10, <2>1 DEF Outcome
  <2>2. CASE K # 1
    <3>1. frames'[1] = frames[1] /\ frames[1].result \in Results
      BY <1>3, <1>10, <2>2 DEF Frames
    <3> QED
      BY <3>1, ExtendsRefl DEF Outcome
  <2> QED
    BY <2>1, <2>2
<1>17. Silent'
  <2>1. described' = described
    <3>1. described' = described \o <<>>
      BY <1>5 DEF FinishCommand, noteDescribed
    <3> QED
      BY <1>2, <1>6, <3>1 DEF Silent
  <2>2. \A i \in 1..K : /\ frames'[i].topLevel = frames[i].topLevel
                       /\ frames'[i].name = frames[i].name
                       /\ frames'[i].result.errorsWereShown
                            = frames[i].result.errorsWereShown
    BY <1>3, <1>8, <1>9, <1>10
  <2>3. 1 \in 1..K /\ 1..K \subseteq 1..Len(frames)
    BY <1>1, <1>3
  <2> HIDE DEF K
  <2>4. \A i \in 1..K : /\ frames'[i].topLevel <=> i = 1
                       /\ ~frames'[i].result.errorsWereShown
    BY <1>2, <1>6, <2>2, <2>3 DEF Silent
  <2> QED
    BY <1>2, <1>6, <1>10, <2>1, <2>2, <2>3, <2>4 DEF Silent
<1> QED
  BY <1>11, <1>12, <1>13, <1>14, <1>15, <1>16, <1>17 DEF Held

LEMMA FinishProgramIsTopStep ==
  ASSUME Held, FinishProgram
  PROVE  TopStep([Top EXCEPT !.result = returned(Top)], Missing(Top))
<1>1. /\ Level \in Nat /\ Level >= 1 /\ Level = Len(frames)
      /\ Top \in Frames /\ ResultContract(Top.result)
  BY TopFacts
<1> DEFINE v == returned(Top)
           g == [Top EXCEPT !.result = v]
<1>2. /\ v \in Results /\ v.errors = Top.result.errors \cup Missing(Top)
      /\ v.ignoredArguments = Top.result.ignoredArguments
      /\ ResultContract(v) /\ Missing(Top) \subseteq Errors
      /\ Abstract!Extends(Top.result, v)
  BY <1>1, ReturnedFrame
<1>3. /\ status = "parsing" /\ status' = "returned" /\ Len(frames) = 1
      /\ frames' = [frames EXCEPT ![Level] = g]
      /\ refusedWords' = refusedWords /\ incomplete' = incomplete
      /\ reported' = reported \cup Missing(Top)
  BY <1>1 DEF FinishProgram, Closed, TopBecomes, noteMissing, Missing
<1> HIDE DEF v
<1>4. /\ g \in Frames /\ g.result = v /\ g.needs = Top.needs
      /\ g.name = Top.name /\ g.topLevel = Top.topLevel
  BY <1>1, <1>2, WithResult
<1> HIDE DEF g
<1>5. TopStep(g, Missing(Top))
  BY <1>2, <1>3, <1>4 DEF TopStep
<1> QED
  BY <1>5 DEF g, v

(* Once there is one frame it holds everything.                            *)
Single ==
  /\ Outcome \in Results /\ Outcome.errors = reported
  /\ Outcome.ignoredArguments = refusedWords
  /\ reported = {} => incomplete = IF frames[1].needs THEN 1 ELSE 0

LEMMA OneFrame == Held /\ Len(frames) = 1 => Single
<1> SUFFICES ASSUME Held, Len(frames) = 1 PROVE Single
  OBVIOUS
<1>1. /\ ChainTypeOK /\ ErrorsHeld /\ WordsHeld /\ LackingCounted
  BY DEF Held
<1>2. frames[1] \in Frames
  BY <1>1 DEF ChainTypeOK
<1>3. Outcome \in Results /\ Outcome = frames[1].result
  BY <1>2 DEF Outcome, Frames
<1>4. Outcome.errors = reported
  <2>1. Outcome.errors \subseteq Errors /\ reported \subseteq Errors
    BY <1>1, <1>3 DEF Results, ChainTypeOK
  <2>2. ASSUME NEW e \in Errors PROVE e \in reported <=> e \in Outcome.errors
    BY <1>1, <1>3 DEF ErrorsHeld
  <2> QED
    BY <2>1, <2>2
<1>5. Outcome.ignoredArguments = refusedWords
  <2> DEFINE p == Ignored(frames)
  <2>1. p[1] = Outcome.ignoredArguments /\ p \in [1..1 -> Seq(ParserNames)]
    BY <1>3 DEF Ignored, Results
  <2>2. Joined(p, 1, refusedWords, ParserNames) /\ refusedWords \in Seq(ParserNames)
    BY <1>1 DEF WordsHeld, ChainTypeOK
  <2> HIDE DEF p
  <2> QED
    BY <2>1, <2>2, JoinedOne
<1>6. ASSUME reported = {} PROVE incomplete = IF frames[1].needs THEN 1 ELSE 0
  <2>1. Lacking(frames) = IF frames[1].needs THEN {1} ELSE {}
    BY <1>2 DEF Lacking, Frames
  <2> QED
    BY <1>1, <1>6, <2>1, FS_Singleton, FS_EmptySet DEF LackingCounted
<1> QED
  BY <1>3, <1>4, <1>5, <1>6 DEF Single

LEMMA FinishProgramKeeps ==
  ASSUME Held, FinishProgram
  PROVE  IInv' /\ Abstract!Extends(Outcome, Outcome')
<1> DEFINE v == returned(Top)
<1>1. /\ Level \in Nat /\ Level = Len(frames) /\ Level = 1
      /\ Top \in Frames /\ Top = frames[Level] /\ ResultContract(Top.result)
  BY TopFacts DEF FinishProgram
<1>2. Held' /\ Abstract!Extends(Outcome, Outcome')
  BY FinishProgramIsTopStep, TopStepKeeps
<1>3. /\ status' = "returned"
      /\ frames' = [frames EXCEPT ![1] = [Top EXCEPT !.result = v]]
  BY <1>1 DEF FinishProgram, TopBecomes
<1>4. /\ Top.topLevel /\ Top.name = Program
      /\ ~Top.result.errorsWereShown /\ described = <<>>
  BY <1>1 DEF Held, Silent, FinishProgram, Closed
<1>5. /\ v.errors = Top.result.errors \cup Missing(Top)
      /\ v.ignoredArguments = Top.result.ignoredArguments
      /\ v \in Results
      /\ v.errors = {} => ~Top.needs
      /\ v.errorsWereShown <=> describes(Top)
  BY <1>1, <1>4, ReturnedFrame
<1>12. /\ describes(Top) <=> /\ ~Top.result.exitRequested
                             /\ hasArgumentProblems(validated(Top))
       /\ validated(Top).errors = v.errors
       /\ validated(Top).ignoredArguments = v.ignoredArguments
  BY <1>1, <1>4, <1>5, Validated DEF describes
<1> HIDE DEF v
<1>6. Len(frames') = 1 /\ Outcome' = v /\ frames'[1].needs = Top.needs
  <2> DEFINE g == [Top EXCEPT !.result = v]
  <2>1. g.result = v /\ g.needs = Top.needs /\ g \in Frames
    BY <1>1, <1>5, WithResult
  <2> HIDE DEF g
  <2>2. frames \in Seq(Frames) /\ Len(frames) = 1 /\ frames' = [frames EXCEPT ![1] = g]
    BY <1>1, <1>3 DEF Held, ChainTypeOK, g
  <2>3. Len(frames') = 1 /\ frames'[1] = g
    BY <2>1, <2>2
  <2> QED
    BY <2>1, <2>3 DEF Outcome
<1>7. /\ v.errors = reported' /\ v.ignoredArguments = refusedWords'
      /\ reported' = {} => incomplete' = IF frames'[1].needs THEN 1 ELSE 0
  <2>1. (Held /\ Len(frames) = 1 => Single)'
    BY OneFrame, PTL
  <2> QED
    BY <1>2, <1>6, <2>1 DEF Single
<1>8. Exited' <=> Top.result.exitRequested
  <2>1. Exited' <=> ExitError \in v.errors
    BY <1>7 DEF Exited, ExitError
  <2>2. ExitError \in v.errors <=> ExitError \in Top.result.errors
    BY <1>5 DEF Missing, ExitError
  <2>3. ASSUME NEW e \in Top.result.errors, e.code = "EXIT_REQUESTED"
        PROVE  e = ExitError
    <3>1. e \in Errors
      BY <1>1 DEF Frames, Results
    <3> QED
      BY <2>3, <3>1 DEF Errors, ExitError
  <2>4. ExitError.code = "EXIT_REQUESTED"
    BY DEF ExitError
  <2>5. Top.result.exitRequested <=> ExitError \in Top.result.errors
    BY <1>1, <2>3, <2>4 DEF ResultContract
  <2> QED
    BY <2>1, <2>2, <2>5
<1>9. ErrorsShownOnce'
  <2> DEFINE shown == [by |-> Program, errors |-> reported', words |-> refusedWords']
  <2>1. describes(Top) <=> /\ ~Exited'
                           /\ reported' # {} \/ refusedWords' # <<>>
    BY <1>7, <1>8, <1>12 DEF hasArgumentProblems
  <2>2. described' = IF describes(Top) THEN <<shown>> ELSE <<>>
    <3>1. shown = [ by     |-> Top.name,
                    errors |-> validated(Top).errors,
                    words  |-> validated(Top).ignoredArguments ]
      BY <1>4, <1>7, <1>12
    <3>2. described' = <<>> \o (IF describes(Top) THEN <<shown>> ELSE <<>>)
      BY <1>4, <3>1 DEF FinishProgram, noteDescribed
    <3> HIDE DEF shown
    <3> QED
      BY <3>2
  <2> HIDE DEF shown
  <2>3. <<shown>> # <<>>
    OBVIOUS
  <2>4. Outcome'.errorsWereShown <=> described' # <<>>
    BY <1>5, <1>6, <2>2, <2>3
  <2>5. described' = IF /\ ~Exited'
                        /\ reported' # {} \/ refusedWords' # <<>>
                       THEN <<shown>> ELSE <<>>
    BY <2>1, <2>2
  <2> QED
    BY <1>3, <2>4, <2>5 DEF ErrorsShownOnce, Returned, shown
<1>10. SuccessMeansAllComplete'
  BY <1>5, <1>6, <1>7 DEF SuccessMeansAllComplete, isSuccess
<1>11. ExceptionsArrive'
  BY <1>3 DEF ExceptionsArrive
<1> QED
  BY <1>2, <1>9, <1>10, <1>11 DEF IInv

LEMMA SilentMeansNothingShown ==
  (Held /\ status # "returned" => ErrorsShownOnce)'
<1> SUFFICES ASSUME Held, status # "returned" PROVE ErrorsShownOnce
  BY PTL
<1>1. described = <<>> /\ ~Outcome.errorsWereShown
  BY DEF Held, ChainTypeOK, Silent, Outcome
<1> QED
  BY <1>1 DEF ErrorsShownOnce, Returned

(* A result that must be checked is one with an error.                     *)
LEMMA PropagateKeeps ==
  ASSUME Held, Propagate
  PROVE  IInv' /\ Outcome' = Outcome
<1>1. /\ frames' = frames /\ reported' = reported /\ refusedWords' = refusedWords
      /\ incomplete' = incomplete /\ described' = described
      /\ status' = IF \E i \in 1..Level : frames[i].result.mustCheck
                     THEN "terminated" ELSE "threw"
  BY DEF Propagate, history
<1>2. status' \in {"threw", "terminated"}
  BY <1>1
<1>7. status = "parsing"
  BY DEF Propagate
<1>3. Held'
  BY <1>1, <1>2, <1>7 DEF Held, ChainTypeOK, ContractsHeld, ErrorsHeld, WordsHeld,
                    LackingCounted, Silent
<1>4. (\E i \in 1..Level : frames[i].result.mustCheck) <=> reported # {}
  <2>1. \A i \in 1..Level : /\ frames[i].result.mustCheck <=> frames[i].result.errors # {}
                           /\ frames[i].result.errors \subseteq Errors
    <3> TAKE i \in 1..Level
    <3>1. frames[i] \in Frames /\ ResultContract(frames[i].result)
      BY DEF Held, ContractsHeld, ChainTypeOK, Level
    <3> QED
      BY <3>1 DEF ResultContract, Frames, Results
  <2>2. \A e \in Errors :
          e \in reported <=> \E i \in 1..Level : e \in frames[i].result.errors
    BY DEF Held, ErrorsHeld, Level
  <2>3. reported \subseteq Errors
    BY DEF Held, ChainTypeOK
  <2> QED
    BY <2>1, <2>2, <2>3
<1>5. ExceptionsArrive'
  BY <1>1, <1>4 DEF ExceptionsArrive
<1>6. SuccessMeansAllComplete' /\ ErrorsShownOnce'
  BY <1>2, <1>3, SilentMeansNothingShown DEF SuccessMeansAllComplete, Returned
<1> QED
  BY <1>1, <1>3, <1>5, <1>6 DEF IInv, Outcome

LEMMA StepKeeps ==
  ASSUME Held, Parse
  PROVE  IInv' /\ Abstract!Extends(Outcome, Outcome') /\ status = "parsing"
<1>1. CASE FinishProgram
  BY <1>1, FinishProgramKeeps DEF FinishProgram, Closed
<1>2. CASE Propagate
  <2>1. Outcome \in Results
    <3>1. frames[1] \in Frames
      BY DEF Held, ChainTypeOK
    <3> QED
      BY <3>1 DEF Outcome, Frames
  <2> QED
    BY <1>2, <2>1, PropagateKeeps, ExtendsRefl DEF Propagate
<1>3. CASE Reading \/ Command \/ FinishCommand
  <2>1. status = "parsing" /\ status' = "parsing"
    BY <1>3, ReadingIsTopStep DEF TopStep, Command, Reads, FinishCommand, Closed
  <2>2. Held' /\ Abstract!Extends(Outcome, Outcome')
    BY <1>3, ReadingIsTopStep, TopStepKeeps, CommandKeeps, FinishCommandKeeps
  <2>3. SuccessMeansAllComplete' /\ ErrorsShownOnce' /\ ExceptionsArrive'
    BY <2>1, <2>2, SilentMeansNothingShown
       DEF SuccessMeansAllComplete, ExceptionsArrive, Returned
  <2> QED
    BY <2>1, <2>2, <2>3 DEF IInv
<1> QED
  BY <1>1, <1>2, <1>3 DEF Parse, Reading, CommandRefused, ThrowingOption

LEMMA Unchanged ==
  ASSUME IInv, UNCHANGED vars
  PROVE  IInv'
BY DEF vars, history, IInv, Held, ChainTypeOK, ContractsHeld, ErrorsHeld, WordsHeld,
       LackingCounted, Silent, SuccessMeansAllComplete, ErrorsShownOnce, ExceptionsArrive,
       Returned, Outcome, Exited

LEMMA Inductive == Spec => []IInv
<1>1. Init => IInv
  BY InitHeld
<1>2. IInv /\ [Next]_vars => IInv'
  BY StepKeeps, Unchanged DEF IInv, Next, Terminated
<1> QED
  BY <1>1, <1>2, PTL DEF Spec

-----------------------------------------------------------------------------
(* What the chain guarantees, for every chain and every input              *)

(* What every parser would return is what the parser around it assumes.    *)
THEOREM ContractKeptByAllFrames == Spec => []FramesKeepContract
<1>1. IInv => FramesKeepContract
  <2> SUFFICES ASSUME IInv, NEW i \in 1..Len(frames)
               PROVE  /\ ResultContract(frames[i].result)
                      /\ i > 1 =>
                           LET r == returned(frames[i])
                           IN  /\ ResultContract(r)
                               /\ ~r.errorsWereShown
                               /\ \A e \in r.errors : e.code # "INVALID_ARGV"
    BY DEF FramesKeepContract
  <2>1. frames[i] \in Frames /\ ResultContract(frames[i].result)
    BY DEF IInv, Held, ChainTypeOK, ContractsHeld
  <2>2. i > 1 => ~frames[i].topLevel /\ ~frames[i].result.errorsWereShown
    BY DEF IInv, Held, ChainTypeOK, Silent
  <2>3. PICK r : r = returned(frames[i])
    OBVIOUS
  <2>4. /\ r \in Results /\ ResultContract(r)
        /\ i > 1 => ~r.errorsWereShown
    BY <2>1, <2>2, <2>3, ReturnedFrame
  <2>5. \A e \in r.errors : e.code # "INVALID_ARGV"
    BY <2>4 DEF Results, Errors, ChainCodes
  <2> QED
    BY <2>1, <2>3, <2>4, <2>5
<1> QED
  BY <1>1, Inductive, PTL

(* What any parser of the chain reported or ignored is in the result of    *)
(* the client's call, and nothing else.                                    *)
THEOREM AllErrorsReachTheClient == Spec => []ErrorsReachTheClient
<1>1. IInv => ErrorsReachTheClient
  BY OneFrame DEF IInv, Held, ChainTypeOK, ErrorsReachTheClient, Returned, Single
<1> QED
  BY <1>1, Inductive, PTL

(* After a success no activated parser lacks its required option.          *)
THEOREM SuccessIsCompleteAtAllLevels == Spec => []SuccessMeansAllComplete
<1>1. IInv => SuccessMeansAllComplete
  BY DEF IInv
<1> QED
  BY <1>1, Inductive, PTL

(* Everything reported or ignored is described once, by the client's       *)
(* parser; if a parser exited or an exception passed, nothing is.          *)
THEOREM ErrorsShownWhenNeeded == Spec => []ErrorsShownOnce
<1>1. IInv => ErrorsShownOnce
  BY DEF IInv
<1> QED
  BY <1>1, Inductive, PTL

(* An exception arrives if and only if nothing was reported before it.     *)
THEOREM ExceptionsArriveUnlessReported == Spec => []ExceptionsArrive
<1>1. IInv => ExceptionsArrive
  BY DEF IInv
<1> QED
  BY <1>1, Inductive, PTL

(* The chain implements ParseContract: the client's result only grows, and *)
(* it is final once the call has ended.                                    *)
THEOREM ChainKeepsContract == Spec => ChainImplementsContract
<1>1. Init => Abstract!Init
  BY DEF Init, Abstract!Init, Outcome, newFrame
<1>2. IInv /\ IInv' /\ [Next]_vars => [Abstract!Next]_<<Outcome, status # "parsing">>
  <2> SUFFICES ASSUME IInv, IInv', [Next]_vars
               PROVE  [Abstract!Next]_<<Outcome, status # "parsing">>
    OBVIOUS
  <2>1. CASE Parse
    <3>1. Abstract!Extends(Outcome, Outcome') /\ status = "parsing"
      BY <2>1, StepKeeps DEF IInv
    <3>2. ResultContract(Outcome')
      BY DEF IInv, Held, ChainTypeOK, ContractsHeld, Outcome
    <3>3. (status # "parsing")' \in BOOLEAN
      OBVIOUS
    <3> QED
      BY <3>1, <3>2, <3>3 DEF Abstract!Next, Abstract!Grow
  <2>2. CASE UNCHANGED vars
    BY <2>2 DEF vars, Outcome
  <2> QED
    BY <2>1, <2>2 DEF Next, Terminated
<1> QED
  BY <1>1, <1>2, Inductive, PTL DEF Spec, ChainImplementsContract, Abstract!Spec

=============================================================================
