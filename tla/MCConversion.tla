---------------------------- MODULE MCConversion ----------------------------
(***************************************************************************)
(* long long has 5 bits here, int 4 and short 3: every limit is reached by *)
(* one or two digits.                                                      *)
(***************************************************************************)
EXTENDS ConversionProperties, Sequences, SequencesExt

Signed(bits)   == [signed |-> TRUE, lowest |-> -(2^(bits - 1)), highest |-> 2^(bits - 1) - 1]
Unsigned(bits) == [signed |-> FALSE, lowest |-> 0, highest |-> 2^bits - 1]

MCIntTypes == {Signed(3), Signed(5), Unsigned(3), Unsigned(5)}
MCIntType  == Signed(4)

(* The longest run of digits below the base.                               *)
DigitsIn(digits, base) ==
  LET bad == { i \in 1..Len(digits) : digits[i] >= base }
  IN  IF bad = {} THEN Len(digits) ELSE (CHOOSE i \in bad : \A j \in bad : i <= j) - 1

ValueIn(digits, base) ==
  FoldLeft(LAMBDA v, d : base * v + d, 0, SubSeq(digits, 1, DigitsIn(digits, base)))

BodyOf(digits, tail, inner) ==
  LET whole == [b \in Bases |-> DigitsIn(digits, b) = Len(digits)]
      none(b) == DigitsIn(digits, b) = 0 /\ tail # "fraction"
  IN [ inner  |-> inner,
       digits |-> [b \in Bases |-> DigitsIn(digits, b) > 0],
       value  |-> [b \in Bases |-> ValueIn(digits, b)],
       rest   |-> [b \in Bases |-> IF whole[b] THEN tail ELSE "junk"],
       real   |-> [b \in {10, 16} |->
                     IF none(b) THEN "none"
                     ELSE IF ValueIn(digits, b) = 0 /\ tail # "fraction" THEN "zero"
                     ELSE "normal"] ]

(* Texts that only strtod knows, and numbers at the edge of a double.      *)
Special(real, tail) ==
  [ inner |-> "none", digits |-> [b \in Bases |-> tail = "exponent"],
    value |-> [b \in Bases |-> IF tail = "exponent" THEN 1 ELSE 0],
    rest  |-> [b \in Bases |-> tail],
    real  |-> [b \in {10, 16} |-> real] ]

(* At, below and above every limit, in every base; digits a base lacks.    *)
Numerals == { <<>>, <<0>>, <<3>>, <<4>>, <<7>>, <<8>>, <<15>>, <<1, 0>>, <<1, 1>>,
              <<1, 5>>, <<1, 6>>, <<1, 7>>, <<2, 0>>, <<3, 1>>, <<3, 2>>, <<3, 7>>,
              <<4, 0>>, <<1, 1, 1, 1>>, <<1, 0, 0, 0, 0>>, <<1, 1, 1, 1, 1>>,
              <<1, 0, 0, 0, 0, 0>>, <<1, 15>> }
Samples  == { <<0>>, <<4>>, <<1, 6>>, <<1, 1, 1, 1, 1>> }

MCBodies ==
  { BodyOf(d, "none", "none") : d \in Numerals }
    \cup { BodyOf(d, "exponent", "none") : d \in Samples }
    \cup { BodyOf(d, t, "none") : d \in Samples \cup {<<>>}, t \in {"fraction", "junk"} }
    \cup { BodyOf(d, "none", i) : d \in Numerals \ {<<>>}, i \in {"blank", "minus"} }
    \cup { Special("inf", "junk"), Special("nan", "junk"),
           Special("huge", "exponent"), Special("subnormal", "exponent") }
=============================================================================
