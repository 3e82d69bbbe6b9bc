-------------------------- MODULE ForwardedProofs --------------------------
(***************************************************************************)
(* Forwarded lists of any length arrive, whatever the letters are.         *)
(*                                                                         *)
(* A written list is laid out: every character of every value has a place  *)
(* in the text, and the places follow from one another (Laid).  From this  *)
(* the loop is followed character by character.                            *)
(***************************************************************************)
EXTENDS ForwardedArguments, SequenceInduction

-----------------------------------------------------------------------------
(* The letters of a text                                                   *)

Characters == Letters \cup {Comma}

Kept(c)  == IF c = Comma THEN <<>> ELSE <<c>>
Token(c) == IF c = Comma THEN <<Comma, Comma>> ELSE <<c>>

LEMMA FlattenEmpty == FlattenSeq(<<>>) = <<>>
  BY DEF FlattenSeq

LEMMA LettersEmpty == letters(<<>>) = <<>>
<1>1. [i \in 1..Len(<<>>) |-> Kept(<<>>[i])] = <<>>
  OBVIOUS
<1> QED
  BY <1>1, FlattenEmpty DEF letters, Kept

LEMMA LettersAppend ==
  ASSUME NEW text \in Seq(Characters), NEW c \in Characters
  PROVE  letters(Append(text, c)) = letters(text) \o Kept(c)
<1> DEFINE n  == Len(text)
           u  == Append(text, c)
           ks == [i \in 1..n |-> Kept(text[i])]
           ku == [i \in 1..Len(u) |-> Kept(u[i])]
<1>1. Len(u) = n + 1 /\ u[n + 1] = c /\ (\A i \in 1..n : u[i] = text[i]) /\ n \in Nat
  BY AppendProperties, LenProperties
<1>2. \A d \in Characters : Kept(d) \in Seq(Characters)
  BY DEF Kept
<1>3. \A i \in 1..n : text[i] \in Characters
  BY ElementOfSeq
<1>4. ks \in Seq(Seq(Characters)) /\ Len(ks) = n
  BY <1>1, <1>2, <1>3
<1>5. ku = Append(ks, Kept(c))
  <2>1. Append(ks, Kept(c)) = [i \in 1..(n + 1) |-> IF i <= n THEN ks[i] ELSE Kept(c)]
    BY <1>1, <1>4
  <2>2. ASSUME NEW i \in 1..(n + 1) PROVE Kept(u[i]) = IF i <= n THEN ks[i] ELSE Kept(c)
    <3>1. CASE i <= n
      BY <1>1, <3>1
    <3>2. CASE ~(i <= n)
      <4>1. i = n + 1
        BY <1>1, <3>2
      <4> QED
        BY <1>1, <4>1
    <3> QED
      BY <3>1, <3>2
  <2> HIDE DEF ks, u, n
  <2> QED
    BY <1>1, <2>1, <2>2
<1>6. FlattenSeq(ku) = FlattenSeq(ks) \o Kept(c)
  <2> HIDE DEF ks, ku
  <2> QED
    BY <1>2, <1>4, <1>5, FlattenAppend
<1> QED
  BY <1>6 DEF letters, Kept

-----------------------------------------------------------------------------
(* A written list.  text is the list with a comma before every value.      *)

joined(values) ==
  FlattenSeq([i \in 1..Len(values) |-> <<Comma>> \o escaped(values[i])])

(* The token of c lies behind position a and ends at b.                    *)
TokenAt(c, a, b, text) ==
  /\ b = a + Len(Token(c)) /\ b <= Len(text)
  /\ \A x \in 1..Len(Token(c)) : text[a + x] = Token(c)[x]

(* at[k][j] is where character j of value k ends; at[k][0] is the comma    *)
(* before the value.                                                       *)
Laid(at, values, text) ==
  /\ \A k \in 1..Len(values) : \A j \in Nat : at[k][j] \in Nat
  /\ at[1][0] = 1
  /\ Len(text) = at[Len(values)][Len(values[Len(values)])]
  /\ \A k \in 1..Len(values) :
       /\ text[at[k][0]] = Comma
       /\ \A j \in 1..Len(values[k]) :
            TokenAt(values[k][j], at[k][j - 1], at[k][j], text)
       /\ k < Len(values) => at[k + 1][0] = at[k][Len(values[k])] + 1

LEMMA TokenFacts ==
  ASSUME NEW c \in Characters
  PROVE  /\ Token(c) \in Seq(Characters) /\ Len(Token(c)) = (IF c = Comma THEN 2 ELSE 1)
         /\ Token(c)[1] = c /\ (c = Comma => Token(c)[2] = Comma)
<1>1. Comma \in Characters
  BY DEF Characters
<1>2. CASE c = Comma
  <2>1. Token(c) = <<Comma, Comma>>
    BY <1>2 DEF Token
  <2> QED
    BY <1>1, <1>2, <2>1
<1>3. CASE c # Comma
  <2>1. Token(c) = <<c>>
    BY <1>3 DEF Token
  <2> QED
    BY <1>3, <2>1
<1> QED
  BY <1>2, <1>3

(* The places of the characters of one value in its escaped text.          *)
Inner(q, text) ==
  /\ q[0] = 0 /\ q[Len(text)] = Len(escaped(text))
  /\ \A j \in 1..Len(text) : TokenAt(text[j], q[j - 1], q[j], escaped(text))

LEMMA EscapedPlaces ==
  ASSUME NEW text \in Seq(Characters)
  PROVE  /\ escaped(text) \in Seq(Characters)
         /\ \E q \in [Nat -> Nat] : Inner(q, text)
<1> DEFINE n  == Len(text)
           ts == [i \in 1..n |-> Token(text[i])]
           es == FlattenSeq(ts)
<1>1. n \in Nat /\ \A i \in 1..n : text[i] \in Characters
  BY LenProperties, ElementOfSeq
<1>2. ts \in Seq(Seq(Characters)) /\ Len(ts) = n /\ \A i \in 1..n : ts[i] = Token(text[i])
  BY <1>1, TokenFacts
<1>3. escaped(text) = es
  BY DEF escaped, Token
<1> HIDE DEF ts, n
<1>4. es \in Seq(Characters) /\ \E q \in [Nat -> Nat] : Places(q, ts, es)
  BY <1>2, FlattenPlaces
<1>5. PICK q \in [Nat -> Nat] : Places(q, ts, es)
  BY <1>4
<1> HIDE DEF es
<1>6. q[0] = 0 /\ q[n] = Len(es)
  BY <1>2, <1>5 DEF Places
<1>7. ASSUME NEW j \in 1..n PROVE TokenAt(text[j], q[j - 1], q[j], es)
  <2>1. ts[j] = Token(text[j]) /\ j \in 1..Len(ts)
    BY <1>2
  <2>2. /\ q[j] = q[j - 1] + Len(ts[j]) /\ q[j] <= Len(es)
        /\ \A x \in 1..Len(ts[j]) : es[q[j - 1] + x] = ts[j][x]
    BY <1>5, <2>1, Zenon DEF Places
  <2> QED
    BY <2>1, <2>2, Zenon DEF TokenAt
<1> QED
  BY <1>3, <1>4, <1>6, <1>7 DEF Inner, n

(* A place in one of the parts is a place in the whole.                    *)
LEMMA TokenMoves ==
  ASSUME NEW c \in Characters, NEW a \in Nat, NEW b \in Nat, NEW e, NEW text, NEW m \in Nat,
         Len(e) \in Nat, Len(text) \in Nat,
         TokenAt(c, a, b, e), m + Len(e) <= Len(text),
         \A y \in 1..Len(e) : text[m + y] = e[y]
  PROVE  TokenAt(c, m + a, m + b, text)
<1>1. Len(Token(c)) \in 1..2
  BY TokenFacts
<1>2. b = a + Len(Token(c)) /\ b <= Len(e)
  BY DEF TokenAt
<1>3. ASSUME NEW x \in 1..Len(Token(c)) PROVE text[m + a + x] = Token(c)[x]
  <2>1. e[a + x] = Token(c)[x]
    BY DEF TokenAt
  <2>2. a + x \in 1..Len(e) /\ m + (a + x) = m + a + x
    BY <1>1, <1>2
  <2> QED
    BY <2>1, <2>2
<1> QED
  BY <1>1, <1>2, <1>3 DEF TokenAt

(* One part of a written list.                                             *)
PartIs(part, e) ==
  /\ part \in Seq(Characters) /\ part[1] = Comma
  /\ Len(part) = Len(e) + 1 /\ Len(e) \in Nat
  /\ \A y \in 1..Len(e) : part[1 + y] = e[y]

LEMMA PartOfList ==
  ASSUME NEW e \in Seq(Characters)
  PROVE  PartIs(<<Comma>> \o e, e)
<1>1. Comma \in Characters
  BY DEF Characters
<1>2. PICK s : s = <<Comma>>
  OBVIOUS
<1>3. s \in Seq(Characters) /\ Len(s) = 1 /\ s[1] = Comma
  BY <1>1, <1>2
<1>4. PICK u : u = s \o e
  OBVIOUS
<1>5. /\ Begins(s, u) /\ u \in Seq(Characters) /\ Len(u) = Len(s) + Len(e)
      /\ \A x \in 1..Len(e) : u[Len(s) + x] = e[x]
  <2>1. s \in Seq(Characters)
    BY <1>3
  <2>2. Begins(s, u) /\ u \in Seq(Characters)
    BY <1>4, <2>1, ConcatPlaces
  <2>3. Len(u) = Len(s) + Len(e)
    BY <1>4, <2>1, ConcatPlaces
  <2>4. \A x \in 1..Len(e) : u[Len(s) + x] = e[x]
    BY <1>4, <2>1, ConcatPlaces
  <2> QED
    BY <2>2, <2>3, <2>4
<1>6. u[1] = Comma
  BY <1>3, <1>5 DEF Begins
<1>7. PartIs(u, e)
  BY <1>3, <1>5, <1>6, LenProperties DEF PartIs
<1> QED
  BY <1>2, <1>4, <1>7

LEMMA InnersExist ==
  ASSUME NEW n \in Nat, NEW values, \A k \in 1..n : values[k] \in Seq(Characters)
  PROVE  \E qs : \A k \in 1..n : (\A j \in Nat : qs[k][j] \in Nat) /\ Inner(qs[k], values[k])
<1> DEFINE q(k) == CHOOSE f \in [Nat -> Nat] : Inner(f, values[k])
           qs == [k \in 1..n |-> q(k)]
<1>1. ASSUME NEW k \in 1..n PROVE q(k) \in [Nat -> Nat] /\ Inner(q(k), values[k])
  <2>1. \E f \in [Nat -> Nat] : Inner(f, values[k])
    BY EscapedPlaces
  <2> QED
    BY <2>1, Zenon
<1>2. ASSUME NEW k \in 1..n PROVE (\A j \in Nat : qs[k][j] \in Nat) /\ Inner(qs[k], values[k])
  <2>1. qs[k] = q(k)
    OBVIOUS
  <2> HIDE DEF qs, q
  <2>2. qs[k] \in [Nat -> Nat] /\ Inner(qs[k], values[k])
    BY <1>1, <2>1
  <2> QED
    BY <2>2
<1> QED
  BY <1>2, Zenon

LEMMA JoinedLaid ==
  ASSUME NEW values \in Seq(Seq(Characters)), values # <<>>
  PROVE  /\ joined(values) \in Seq(Characters)
         /\ \E at : Laid(at, values, joined(values))
<1> DEFINE n    == Len(values)
           ss   == [i \in 1..n |-> <<Comma>> \o escaped(values[i])]
           text == FlattenSeq(ss)
           es   == [i \in 1..n |-> escaped(values[i])]
<1>1. n \in Nat \ {0} /\ \A k \in 1..n : values[k] \in Seq(Characters)
  BY LenProperties, ElementOfSeq, EmptySeq
<1>2. joined(values) = text
  BY DEF joined
<1> HIDE DEF n
<1>3. ASSUME NEW k \in 1..n PROVE PartIs(ss[k], es[k]) /\ ss[k] \in Seq(Characters)
  <2>1. escaped(values[k]) \in Seq(Characters)
    BY <1>1, EscapedPlaces
  <2>2. PartIs(<<Comma>> \o escaped(values[k]), escaped(values[k]))
    BY <2>1, PartOfList
  <2>3. PartIs(ss[k], es[k])
    BY <2>2
  <2> QED
    BY <2>3 DEF PartIs
<1>4. ss \in Seq(Seq(Characters)) /\ Len(ss) = n
  BY <1>1, <1>3
<1>e. \A k \in 1..n : es[k] = escaped(values[k])
  OBVIOUS
<1> HIDE DEF ss, es
<1>5. text \in Seq(Characters) /\ \E r \in [Nat -> Nat] : Places(r, ss, text)
  BY <1>4, FlattenPlaces
<1> HIDE DEF text
<1>6. PICK r : (\A i \in Nat : r[i] \in Nat) /\ Places(r, ss, text)
  BY <1>5
<1>7. PICK qs : \A k \in 1..n : (\A j \in Nat : qs[k][j] \in Nat) /\ Inner(qs[k], values[k])
  BY <1>1, InnersExist
<1>8. PICK at : \A k \in 1..n : \A j \in Nat : at[k][j] = (r[k - 1] + 1) + qs[k][j]
  <2> DEFINE a == [k \in 1..n |-> [j \in Nat |-> (r[k - 1] + 1) + qs[k][j]]]
  <2>1. \A k \in 1..n : \A j \in Nat : a[k][j] = (r[k - 1] + 1) + qs[k][j]
    OBVIOUS
  <2> QED
    BY <2>1
<1>9. \A k \in 1..n : r[k - 1] \in Nat
  BY <1>1, <1>6
<1>10. \A k \in 1..n : /\ r[k] = r[k - 1] + 1 + Len(es[k]) /\ r[k] <= Len(text)
                       /\ Len(es[k]) \in Nat
                       /\ \A x \in 1..Len(ss[k]) : text[r[k - 1] + x] = ss[k][x]
  <2> SUFFICES ASSUME NEW k \in 1..n
               PROVE  /\ r[k] = r[k - 1] + 1 + Len(es[k]) /\ r[k] <= Len(text)
                      /\ Len(es[k]) \in Nat
                      /\ \A x \in 1..Len(ss[k]) : text[r[k - 1] + x] = ss[k][x]
    OBVIOUS
  <2>1. /\ r[k] = r[k - 1] + Len(ss[k]) /\ r[k] <= Len(text)
        /\ \A x \in 1..Len(ss[k]) : text[r[k - 1] + x] = ss[k][x]
    BY <1>4, <1>6 DEF Places
  <2>4. r[k] = r[k - 1] + Len(ss[k])
    BY <2>1
  <2>2. Len(ss[k]) = Len(es[k]) + 1 /\ Len(es[k]) \in Nat
    BY <1>3 DEF PartIs
  <2>3. r[k] = r[k - 1] + 1 + Len(es[k])
    <3>1. PICK m \in Nat, l \in Nat : m = r[k - 1] /\ l = Len(es[k])
      BY <1>9, <2>2
    <3>2. PICK z : z = Len(ss[k])
      OBVIOUS
    <3>3. r[k] = m + z
      BY <2>4, <3>1, <3>2, Zenon
    <3>4. z = l + 1
      BY <2>2, <3>1, <3>2, Zenon
    <3>5. r[k] = m + 1 + l
      BY <3>3, <3>4
    <3> QED
      BY <3>1, <3>5, Zenon
  <2> QED
    BY <2>1, <2>2, <2>3, Zenon
<1>11. r[0] = 0 /\ r[n] = Len(text)
  BY <1>4, <1>6 DEF Places
<1>12. ASSUME NEW k \in 1..n
       PROVE  /\ at[k][0] = r[k - 1] + 1 /\ Len(values[k]) \in Nat
              /\ at[k][Len(values[k])] = r[k]
  <2>1. Len(values[k]) \in Nat
    BY <1>1, LenProperties
  <2>2. qs[k][0] = 0 /\ qs[k][Len(values[k])] = Len(es[k])
    BY <1>7, <1>e DEF Inner
  <2>3. r[k - 1] \in Nat /\ Len(es[k]) \in Nat /\ r[k] = r[k - 1] + 1 + Len(es[k])
    BY <1>9, <1>10
  <2>4. /\ at[k][0] = (r[k - 1] + 1) + qs[k][0]
        /\ at[k][Len(values[k])] = (r[k - 1] + 1) + qs[k][Len(values[k])]
    BY <1>8, <2>1
  <2> QED
    BY <2>1, <2>2, <2>3, <2>4
<1>13. at[1][0] = 1
  <2>1. 1 \in 1..n /\ 1 - 1 = 0
    BY <1>1
  <2> QED
    BY <1>11, <1>12, <2>1
<1>14. Len(text) = at[n][Len(values[n])]
  <2>1. n \in 1..n
    BY <1>1
  <2> QED
    BY <1>11, <1>12, <2>1
<1>15. ASSUME NEW k \in 1..n PROVE text[at[k][0]] = Comma
  <2>1. 1 \in 1..Len(ss[k]) /\ ss[k][1] = Comma
    BY <1>3 DEF PartIs
  <2> QED
    BY <1>10, <1>12, <2>1
<1>16. ASSUME NEW k \in 1..n, NEW j \in 1..Len(values[k])
       PROVE  TokenAt(values[k][j], at[k][j - 1], at[k][j], text)
  <2>1. /\ values[k][j] \in Characters /\ j \in Nat /\ j - 1 \in Nat
    <3>1. values[k] \in Seq(Characters) /\ Len(values[k]) \in Nat
      BY <1>1, LenProperties
    <3> QED
      BY <3>1, ElementOfSeq
  <2>2. PICK a \in Nat, b \in Nat, m \in Nat :
          a = qs[k][j - 1] /\ b = qs[k][j] /\ m = r[k - 1] + 1
    <3>1. qs[k][j - 1] \in Nat /\ qs[k][j] \in Nat
      BY <1>7, <2>1, Zenon
    <3>2. r[k - 1] + 1 \in Nat
      BY <1>9
    <3> QED
      BY <3>1, <3>2
  <2>3. PICK e : e = es[k]
    OBVIOUS
  <2>4. TokenAt(values[k][j], a, b, e)
    BY <1>7, <1>e, <2>2, <2>3 DEF Inner
  <2>5. Len(e) \in Nat /\ Len(text) \in Nat /\ m + Len(e) <= Len(text)
    BY <1>10, <1>5, <2>2, <2>3, LenProperties
  <2>6. ASSUME NEW y \in 1..Len(e) PROVE text[m + y] = e[y]
    <3>1. 1 + y \in 1..Len(ss[k]) /\ ss[k][1 + y] = e[y]
      <4>1. PICK u : u = ss[k]
        OBVIOUS
      <4>2. PartIs(u, e)
        BY <1>3, <2>3, <4>1
      <4>3. Len(u) = Len(e) + 1 /\ u[1 + y] = e[y]
        BY <4>2 DEF PartIs
      <4> QED
        BY <2>5, <4>1, <4>3
    <3>2. r[k - 1] + (1 + y) = m + y
      <4>1. PICK z \in Nat : z = r[k - 1]
        BY <1>9
      <4>2. m = z + 1
        BY <2>2, <4>1
      <4>3. z + (1 + y) = m + y
        BY <4>2
      <4> QED
        BY <4>1, <4>3
    <3>3. text[r[k - 1] + (1 + y)] = ss[k][1 + y]
      BY <1>10, <3>1, Zenon
    <3> QED
      BY <3>1, <3>2, <3>3, Zenon
  <2>7. TokenAt(values[k][j], m + a, m + b, text)
    BY <2>1, <2>4, <2>5, <2>6, TokenMoves
  <2>8. at[k][j - 1] = m + a /\ at[k][j] = m + b
    BY <1>8, <2>1, <2>2
  <2> QED
    BY <2>7, <2>8
<1>17. ASSUME NEW k \in 1..n, k < n PROVE at[k + 1][0] = at[k][Len(values[k])] + 1
  <2>1. k + 1 \in 1..n /\ (k + 1) - 1 = k
    BY <1>1, <1>17
  <2> QED
    BY <1>12, <2>1
<1>18. \A k \in 1..n : \A j \in Nat : at[k][j] \in Nat
  <2> SUFFICES ASSUME NEW k \in 1..n, NEW j \in Nat PROVE at[k][j] \in Nat
    OBVIOUS
  <2>1. qs[k][j] \in Nat /\ r[k - 1] \in Nat /\ at[k][j] = (r[k - 1] + 1) + qs[k][j]
    BY <1>7, <1>8, <1>9
  <2> QED
    BY <2>1
<1>19. Laid(at, values, text)
  BY <1>13, <1>14, <1>15, <1>16, <1>17, <1>18, Zenon DEF Laid, n
<1> QED
  BY <1>2, <1>5, <1>19

(* text, less the first d characters.                                      *)
Shifted(u, text, d) ==
  /\ u \in Seq(Characters) /\ d \in 1..2 /\ Len(text) = Len(u) + d /\ u # <<>>
  /\ \A x \in 1..Len(u) : u[x] = text[x + d]

LEMMA TailShifts ==
  ASSUME NEW S, NEW text \in Seq(S), Len(text) # 0
  PROVE  /\ Tail(text) \in Seq(S) /\ Len(Tail(text)) = Len(text) - 1
         /\ \A x \in 1..Len(Tail(text)) : Tail(text)[x] = text[x + 1]
  BY LenProperties

(* The lists that are written, without the bounds of the runs.             *)
Values(values) ==
  /\ values \in Seq(Seq(Characters)) /\ values # <<>>
  /\ \A k \in 1..Len(values) : values[k] # <<>>
  /\ \A k \in 2..Len(values) : values[k][1] # Comma

LEMMA WrittenLaid ==
  ASSUME NEW values, Values(values)
  PROVE  \E at, text : /\ Laid(at, values, text)
                       /\ Shifted(written(values), text, IF values[1][1] = Comma THEN 2 ELSE 1)
<1>1. joined(values) \in Seq(Characters) /\ \E at : Laid(at, values, joined(values))
  BY JoinedLaid DEF Values
<1>2. PICK at : Laid(at, values, joined(values))
  BY <1>1
<1>3. PICK text \in Seq(Characters) : text = joined(values)
  BY <1>1
<1>4. written(values) = IF values[1][1] = Comma THEN Tail(Tail(text)) ELSE Tail(text)
  BY <1>3 DEF written, joined
<1>5. 1 \in 1..Len(values) /\ Len(values[1]) \in Nat /\ 1 \in 1..Len(values[1]) /\ values[1][1] \in Characters
  <2>1. Len(values) \in Nat /\ Len(values) # 0
    BY LenProperties, EmptySeq DEF Values
  <2>2. 1 \in 1..Len(values)
    BY <2>1
  <2>3. values[1] \in Seq(Characters) /\ values[1] # <<>>
    BY <2>2, ElementOfSeq DEF Values
  <2>4. Len(values[1]) \in Nat /\ Len(values[1]) # 0
    BY <2>3, LenProperties, EmptySeq
  <2>5. 1 \in 1..Len(values[1])
    BY <2>4
  <2> QED
    BY <2>2, <2>3, <2>4, <2>5, ElementOfSeq
<1>6. TokenAt(values[1][1], 1, at[1][1], text)
  <2>1. at[1][0] = 1 /\ 1 - 1 = 0 /\ TokenAt(values[1][1], at[1][1 - 1], at[1][1], text)
    BY <1>2, <1>3, <1>5 DEF Laid
  <2> QED
    BY <2>1
<1>7. at[1][1] = 1 + Len(Token(values[1][1])) /\ at[1][1] <= Len(text) /\ Len(text) \in Nat
  BY <1>6, LenProperties DEF TokenAt
<1>8. CASE values[1][1] = Comma
  <2>1. Len(text) >= 3
    BY <1>5, <1>7, <1>8, TokenFacts
  <2>2. /\ Tail(text) \in Seq(Characters) /\ Len(Tail(text)) = Len(text) - 1
        /\ \A x \in 1..Len(Tail(text)) : Tail(text)[x] = text[x + 1]
    BY <2>1, TailShifts
  <2>3. PICK t \in Seq(Characters) : t = Tail(text)
    BY <2>2
  <2>4. Len(t) = Len(text) - 1 /\ \A x \in 1..Len(t) : t[x] = text[x + 1]
    BY <2>2, <2>3
  <2>5. /\ Tail(t) \in Seq(Characters) /\ Len(Tail(t)) = Len(t) - 1
        /\ \A x \in 1..Len(Tail(t)) : Tail(t)[x] = t[x + 1]
    BY <2>1, <2>4, TailShifts, <1>7
  <2>6. PICK u \in Seq(Characters) : u = Tail(t)
    BY <2>5
  <2>7. Len(u) = Len(t) - 1 /\ \A x \in 1..Len(u) : u[x] = t[x + 1]
    BY <2>5, <2>6
  <2>8. ASSUME NEW x \in 1..Len(u) PROVE u[x] = text[x + 2]
    <3>1. x + 1 \in 1..Len(t) /\ (x + 1) + 1 = x + 2
      BY <2>4, <2>7, <1>7
    <3> QED
      BY <2>4, <2>7, <3>1
  <2>9. Len(text) = Len(u) + 2 /\ u # <<>>
    BY <2>1, <2>4, <2>7, <1>7
  <2>10. Shifted(u, text, 2)
    BY <2>8, <2>9 DEF Shifted
  <2> QED
    BY <1>2, <1>3, <1>4, <1>8, <2>3, <2>6, <2>10
<1>9. CASE values[1][1] # Comma
  <2>1. Len(text) >= 2
    BY <1>5, <1>7, <1>9, TokenFacts
  <2>2. /\ Tail(text) \in Seq(Characters) /\ Len(Tail(text)) = Len(text) - 1
        /\ \A x \in 1..Len(Tail(text)) : Tail(text)[x] = text[x + 1]
    BY <2>1, TailShifts
  <2>3. PICK t \in Seq(Characters) : t = Tail(text)
    BY <2>2
  <2>4. Len(t) = Len(text) - 1 /\ \A x \in 1..Len(t) : t[x] = text[x + 1]
    BY <2>2, <2>3
  <2>5. Len(text) = Len(t) + 1 /\ t # <<>>
    BY <2>1, <2>4, <1>7
  <2>6. Shifted(t, text, 1)
    BY <2>4, <2>5 DEF Shifted
  <2> QED
    BY <1>2, <1>3, <1>4, <1>9, <2>3, <2>6
<1> QED
  BY <1>8, <1>9

(* What may come behind character j of value k: the next character of the  *)
(* value, a comma and the first character of the next value, or nothing.   *)
NextCharacter(at, values, text, k, j) ==
  /\ j < Len(values[k]) /\ j + 1 \in 1..Len(values[k]) /\ values[k][j + 1] \in Characters
  /\ TokenAt(values[k][j + 1], at[k][j], at[k][j + 1], text)

NextValue(at, values, text, k, j) ==
  /\ j = Len(values[k]) /\ k < Len(values)
  /\ at[k + 1][0] = at[k][j] + 1 /\ at[k][j] + 2 <= Len(text)
  /\ text[at[k][j] + 1] = Comma /\ text[at[k][j] + 2] # Comma

AtEnd(at, values, text, k, j) ==
  j = Len(values[k]) /\ k = Len(values) /\ at[k][j] = Len(text)

LEMMA WhatFollows ==
  ASSUME NEW values, Values(values), NEW at, NEW text, Laid(at, values, text), Len(text) \in Nat,
         NEW k \in 1..Len(values), NEW j \in 0..Len(values[k])
  PROVE  /\ at[k][j] \in Nat
         /\ \/ NextCharacter(at, values, text, k, j)
            \/ NextValue(at, values, text, k, j)
            \/ AtEnd(at, values, text, k, j)
<1>1. Len(values) \in Nat /\ \A i \in 1..Len(values) : values[i] \in Seq(Characters) /\ Len(values[i]) \in Nat \ {0}
  <2>1. Len(values) \in Nat
    BY LenProperties DEF Values
  <2>2. ASSUME NEW i \in 1..Len(values)
        PROVE  values[i] \in Seq(Characters) /\ Len(values[i]) \in Nat \ {0}
    <3>1. values[i] \in Seq(Characters) /\ values[i] # <<>>
      BY ElementOfSeq DEF Values
    <3> QED
      BY <3>1, LenProperties, EmptySeq
  <2> QED
    BY <2>1, <2>2
<1>2. values[k] \in Seq(Characters) /\ Len(values[k]) \in Nat
  BY <1>1
<1>3. at[k][j] \in Nat
  BY <1>2 DEF Laid
<1>4. CASE j < Len(values[k])
  <2>1. j + 1 \in 1..Len(values[k]) /\ (j + 1) - 1 = j
    BY <1>2, <1>4
  <2>2. TokenAt(values[k][j + 1], at[k][(j + 1) - 1], at[k][j + 1], text)
    BY <2>1, Zenon DEF Laid
  <2>3. values[k][j + 1] \in Characters
    BY <1>2, <2>1, ElementOfSeq
  <2> QED
    BY <1>3, <1>4, <2>1, <2>2, <2>3 DEF NextCharacter
<1>5. CASE j = Len(values[k]) /\ k < Len(values)
  <2>1. k + 1 \in 1..Len(values) /\ k + 1 \in 2..Len(values)
    BY <1>1, <1>5
  <2>2. at[k + 1][0] = at[k][j] + 1 /\ text[at[k + 1][0]] = Comma
    BY <1>5, <2>1 DEF Laid
  <2>3. Len(values[k + 1]) \in Nat \ {0} /\ values[k + 1] \in Seq(Characters)
    BY <1>1, <2>1
  <2>4. 1 \in 1..Len(values[k + 1])
    BY <2>3
  <2>5. TokenAt(values[k + 1][1], at[k + 1][0], at[k + 1][1], text)
    <3>1. TokenAt(values[k + 1][1], at[k + 1][1 - 1], at[k + 1][1], text)
      BY <2>1, <2>4, Zenon DEF Laid
    <3>2. 1 - 1 = 0
      OBVIOUS
    <3> QED
      BY <3>1, <3>2
  <2>6. PICK c \in Characters : c = values[k + 1][1] /\ c # Comma
    <3>1. values[k + 1][1] \in Characters
      BY <2>3, <2>4, ElementOfSeq
    <3>2. values[k + 1][1] # Comma
      BY <2>1 DEF Values
    <3> QED
      BY <3>1, <3>2
  <2>7. PICK p \in Nat : p = at[k][j]
    BY <1>3
  <2>8. TokenAt(c, p + 1, at[k + 1][1], text)
    BY <2>2, <2>5, <2>6, <2>7
  <2>9. p + 2 <= Len(text) /\ text[p + 2] = c
    <3>1. Token(c) \in Seq(Characters) /\ Len(Token(c)) = 1 /\ Token(c)[1] = c
      BY <2>6, TokenFacts
    <3>2. (p + 1) + 1 = p + 2
      OBVIOUS
    <3> QED
      BY <2>8, <3>1, <3>2 DEF TokenAt
  <2>10. text[p + 1] = Comma
    BY <2>2, <2>7
  <2> QED
    BY <1>3, <1>5, <2>2, <2>6, <2>7, <2>9, <2>10 DEF NextValue
<1>6. CASE j = Len(values[k]) /\ k = Len(values)
  BY <1>3, <1>6 DEF Laid, AtEnd
<1> QED
  BY <1>1, <1>2, <1>4, <1>5, <1>6

-----------------------------------------------------------------------------
(* The inductive invariant                                                 *)

TypeInv ==
  /\ args \in Seq(Characters) /\ args # <<>>
  /\ it \in 1..(Len(args) + 2)
  /\ ssarg \in Seq(Characters)
  /\ added \in Seq(Seq(Characters))
  /\ list # <<>> => Values(list)

(* The letters in front of the loop have been taken.                       *)
TakenInv ==
  /\ IF Done THEN letters(FlattenSeq(added)) = letters(args)
     ELSE letters(FlattenSeq(added) \o ssarg) = letters(SubSeq(args, 1, it - 1))
  /\ \A i \in 1..Len(added) : added[i] # <<>>
  /\ IF it = 1 THEN args[1] # Comma
     ELSE added # <<>> \/ (ssarg # <<>> /\ ~Done)

(* The loop is behind character j of value k of the list.                  *)
Within(at, text, d, k, j) ==
  /\ Laid(at, list, text) /\ Shifted(args, text, d)
  /\ k \in 1..Len(list) /\ j \in 0..Len(list[k])
  /\ it + d = at[k][j] + 1
  /\ added = SubSeq(list, 1, k - 1) /\ ssarg = SubSeq(list[k], 1, j)

ListInv ==
  list # <<>> =>
    IF Done THEN added = list ELSE \E at, text, d, k, j : Within(at, text, d, k, j)

LEMMA LengthOne == ASSUME NEW S, NEW s \in Seq(S), s # <<>> PROVE Len(s) \in Nat \ {0} /\ 1 \in 1..Len(s) /\ s[1] \in S
<1>1. Len(s) \in Nat \ {0}
  BY LenProperties, EmptySeq
<1>2. 1 \in 1..Len(s)
  BY <1>1
<1> QED
  BY <1>1, <1>2, ElementOfSeq

(* How the prefixes of a sequence grow.                                    *)
LEMMA PrefixesGrow ==
  ASSUME NEW S, NEW s \in Seq(S)
  PROVE  /\ SubSeq(s, 1, 0) = <<>> /\ SubSeq(s, 1, Len(s)) = s
         /\ \A n \in 1..Len(s) : SubSeq(s, 1, n) = Append(SubSeq(s, 1, n - 1), s[n])
         /\ \A n \in 0..Len(s) : SubSeq(s, 1, n) \in Seq(S)
<1>1. SubSeq(s, 1, 0) = <<>> /\ SubSeq(s, 1, Len(s)) = s
  BY SubSeqEmpty, SubSeqFull
<1>2. ASSUME NEW n \in 0..Len(s) PROVE SubSeq(s, 1, n) \in Seq(S)
  <2>1. n \in Int /\ 1 \in Int /\ \A i \in 1..n : s[i] \in S
    BY ElementOfSeq, LenProperties
  <2> QED
    BY <2>1, SubSeqProperties
<1>3. ASSUME NEW n \in 1..Len(s) PROVE SubSeq(s, 1, n) = Append(SubSeq(s, 1, n - 1), s[n])
  <2>1. 1 \in 1..Len(s) /\ n \in 1..Len(s) /\ n - 1 \in 0..Len(s) /\ s[n] \in S
    BY ElementOfSeq, LenProperties
  <2>2. SubSeq(s, 1, n) = SubSeq(s, 1, n - 1) \o <<s[n]>>
    BY <2>1, SubSeqRecursiveSecond
  <2>3. SubSeq(s, 1, n - 1) \in Seq(S)
    BY <1>2, <2>1
  <2> QED
    BY <2>1, <2>2, <2>3, AppendIsConcat
<1> QED
  BY <1>1, <1>2, <1>3

LEMMA FunctionIsSeq ==
  ASSUME NEW S, NEW n \in Nat, NEW f \in [1..n -> S]
  PROVE  f \in Seq(S) /\ Len(f) = n
  OBVIOUS

LEMMA TextsAreSeqs ==
  ASSUME NEW n \in Nat, NEW text \in Texts(n)
  PROVE  text \in Seq(Characters) /\ text # <<>>
<1>1. PICK m \in 1..n : text \in [1..m -> Characters]
  BY DEF Texts, Characters
<1>2. m \in Nat \ {0}
  BY <1>1
<1>3. text \in Seq(Characters) /\ Len(text) = m
  BY <1>1, <1>2, FunctionIsSeq
<1> QED
  BY <1>2, <1>3

LEMMA ListsAreValues ==
  ASSUME NEW values \in WritableLists
  PROVE  Values(values)
<1>1. values \in Lists /\ Writable(values)
  BY DEF WritableLists
<1>2. PICK n \in 1..MaxValues : values \in [1..n -> Texts(MaxValueLength)]
  BY <1>1, Zenon DEF Lists
<1>3. n \in Nat \ {0}
  BY <1>2, TextAssumption
<1>4. \A t \in Texts(MaxValueLength) : t \in Seq(Characters) /\ t # <<>>
  BY TextAssumption, TextsAreSeqs
<1>5. values \in [1..n -> Seq(Characters)] /\ \A i \in 1..n : values[i] # <<>>
  BY <1>2, <1>4
<1>6. values \in Seq(Seq(Characters)) /\ Len(values) = n
  BY <1>3, <1>5, FunctionIsSeq
<1>7. values # <<>>
  BY <1>3, <1>6
<1> QED
  BY <1>1, <1>5, <1>6, <1>7 DEF Values, Writable

LEMMA InitInv == Init => TypeInv /\ TakenInv /\ ListInv
<1> SUFFICES ASSUME Init PROVE TypeInv /\ TakenInv /\ ListInv
  OBVIOUS
<1>1. list # <<>> => Values(list) /\ args = written(list)
  BY ListsAreValues DEF Init
<1>2. list # <<>> => \E at, text : /\ Laid(at, list, text)
                                   /\ Shifted(args, text, IF list[1][1] = Comma THEN 2 ELSE 1)
  BY <1>1, WrittenLaid
<1>3. args \in Seq(Characters) /\ args # <<>>
  <2>1. CASE list = <<>>
    <3>1. args \in Texts(MaxLength) \/ list \in WritableLists
      BY DEF Init
    <3>2. list \notin WritableLists
      BY <2>1, ListsAreValues DEF Values
    <3> QED
      BY <3>1, <3>2, TextsAreSeqs, TextAssumption
  <2>2. CASE list # <<>>
    BY <1>2, <2>2 DEF Shifted
  <2> QED
    BY <2>1, <2>2
<1>4. Len(args) \in Nat \ {0} /\ 1 \in 1..Len(args) /\ args[1] \in Characters
  BY <1>3, LengthOne
<1>5. Comma \in Characters
  BY DEF Characters
<1>6. TypeInv
  BY <1>1, <1>3, <1>4, <1>5 DEF TypeInv, Init
<1>7. ~Done
  BY <1>4 DEF Done, Init
<1>8. TakenInv
  <2>1. added = <<>> /\ FlattenSeq(added) = <<>>
    BY FlattenEmpty DEF Init
  <2>2. CASE args[1] = Comma
    <3>1. it = 2 /\ it # 1 /\ ssarg = <<Comma>>
      BY <2>2 DEF Init
    <3>2. SubSeq(args, 1, it - 1) = <<Comma>>
      <4>1. SubSeq(args, 1, 1) = Append(SubSeq(args, 1, 1 - 1), args[1])
        BY <1>3, <1>4, PrefixesGrow
      <4>2. SubSeq(args, 1, 0) = <<>> /\ 1 - 1 = 0 /\ it - 1 = 1
        BY <1>3, <3>1, PrefixesGrow
      <4>3. SubSeq(args, 1, 1) = Append(<<>>, args[1])
        BY <4>1, <4>2, Zenon
      <4>4. Append(<<>>, Comma) = <<Comma>>
        OBVIOUS
      <4> QED
        BY <2>2, <4>2, <4>3, <4>4, Zenon
    <3>3. <<Comma>> \in Seq(Characters) /\ <<Comma>> # <<>>
      BY <1>5
    <3>4. FlattenSeq(added) \o ssarg = <<Comma>>
      BY <2>1, <3>1, <3>3, ConcatEmptySeq
    <3>5. added = <<>> => \A i \in 1..Len(added) : added[i] # <<>>
      OBVIOUS
    <3> QED
      BY <1>7, <2>1, <3>1, <3>2, <3>3, <3>4, <3>5 DEF TakenInv
  <2>3. CASE args[1] # Comma
    <3>1. it = 1 /\ ssarg = <<>>
      BY <2>3 DEF Init
    <3>2. SubSeq(args, 1, it - 1) = <<>>
      BY <1>3, <3>1, PrefixesGrow
    <3>3. <<>> \in Seq(Characters)
      OBVIOUS
    <3>4. FlattenSeq(added) \o ssarg = <<>>
      BY <2>1, <3>1, <3>3, ConcatEmptySeq
    <3>5. added = <<>> => \A i \in 1..Len(added) : added[i] # <<>>
      OBVIOUS
    <3> QED
      BY <1>7, <2>1, <2>3, <3>1, <3>2, <3>4, <3>5 DEF TakenInv
  <2> QED
    BY <2>2, <2>3
<1>9. ASSUME list # <<>> PROVE \E at, text, d, k, j : Within(at, text, d, k, j)
  <2>1. PICK at, text : Laid(at, list, text) /\ Shifted(args, text, IF list[1][1] = Comma THEN 2 ELSE 1)
    BY <1>2, <1>9
  <2>2. Values(list)
    BY <1>1, <1>9
  <2>3. Len(list) \in Nat \ {0} /\ 1 \in 1..Len(list) /\ list[1] \in Seq(Characters) /\ list[1] # <<>>
    <3>1. list \in Seq(Seq(Characters)) /\ list # <<>>
      BY <2>2 DEF Values
    <3>2. Len(list) \in Nat \ {0} /\ 1 \in 1..Len(list) /\ list[1] \in Seq(Characters)
      BY <3>1, LengthOne
    <3> QED
      BY <2>2, <3>2 DEF Values
  <2>4. Len(list[1]) \in Nat \ {0} /\ 1 \in 1..Len(list[1]) /\ list[1][1] \in Characters
    BY <2>3, LengthOne
  <2>5. PICK n : n = Len(text)
    OBVIOUS
  <2>6. n \in Nat
    BY <1>4, <2>1, <2>5 DEF Shifted
  <2>7. 0 \in 0..Len(list[1]) /\ 1 \in 0..Len(list[1])
    BY <2>4
  <2>8. NextCharacter(at, list, text, 1, 0)
    <3>1. \/ NextCharacter(at, list, text, 1, 0)
          \/ NextValue(at, list, text, 1, 0)
          \/ AtEnd(at, list, text, 1, 0)
      BY <2>1, <2>2, <2>3, <2>5, <2>6, <2>7, WhatFollows
    <3> QED
      BY <2>4, <3>1 DEF NextValue, AtEnd
  <2>9. TokenAt(list[1][1], 1, at[1][1], text)
    <3>1. at[1][0] = 1
      BY <2>1 DEF Laid
    <3>2. 0 + 1 = 1
      OBVIOUS
    <3> QED
      BY <2>8, <3>1, <3>2 DEF NextCharacter
  <2>10. SubSeq(list, 1, 1 - 1) = <<>>
    BY <2>2, PrefixesGrow DEF Values
  <2>11. CASE list[1][1] = Comma
    <3>1. Len(Token(Comma)) = 2 /\ Token(Comma)[2] = Comma
      BY <1>5, TokenFacts
    <3>2. at[1][1] = 3 /\ text[3] = Comma
      <4>1. 1 + 2 = 3
        OBVIOUS
      <4> QED
        BY <2>9, <2>11, <3>1, <4>1 DEF TokenAt
    <3>3. args[1] = Comma
      <4>1. args[1] = text[1 + 2]
        BY <1>4, <2>1, <2>11 DEF Shifted
      <4> QED
        BY <3>2, <4>1
    <3>4. it = 2 /\ ssarg = <<Comma>> /\ added = <<>>
      BY <3>3 DEF Init
    <3>5. SubSeq(list[1], 1, 1) = <<Comma>>
      <4>1. SubSeq(list[1], 1, 1) = Append(SubSeq(list[1], 1, 1 - 1), list[1][1])
        BY <2>3, <2>4, PrefixesGrow
      <4>2. SubSeq(list[1], 1, 0) = <<>> /\ 1 - 1 = 0
        BY <2>3, PrefixesGrow
      <4>3. SubSeq(list[1], 1, 1) = Append(<<>>, list[1][1])
        BY <4>1, <4>2, Zenon
      <4>4. Append(<<>>, Comma) = <<Comma>>
        OBVIOUS
      <4> QED
        BY <2>11, <4>3, <4>4, Zenon
    <3>6. Within(at, text, 2, 1, 1)
      BY <2>1, <2>3, <2>4, <2>10, <2>11, <3>2, <3>4, <3>5, <2>7 DEF Within
    <3> QED
      BY <3>6
  <2>12. CASE list[1][1] # Comma
    <3>1. Len(Token(list[1][1])) = 1 /\ Token(list[1][1])[1] = list[1][1]
      BY <2>4, <2>12, TokenFacts
    <3>2. text[2] = list[1][1] /\ at[1][0] = 1
      <4>1. 1 + 1 = 2
        OBVIOUS
      <4> QED
        BY <2>1, <2>9, <3>1, <4>1 DEF TokenAt, Laid
    <3>3. args[1] # Comma
      <4>1. args[1] = text[1 + 1]
        BY <1>4, <2>1, <2>12 DEF Shifted
      <4> QED
        BY <2>12, <3>2, <4>1
    <3>4. it = 1 /\ ssarg = <<>> /\ added = <<>>
      BY <3>3 DEF Init
    <3>5. SubSeq(list[1], 1, 0) = <<>>
      BY <2>3, PrefixesGrow
    <3>6. Within(at, text, 1, 1, 0)
      BY <2>1, <2>3, <2>7, <2>10, <2>12, <3>2, <3>4, <3>5 DEF Within
    <3> QED
      BY <3>6
  <2> QED
    BY <2>11, <2>12
<1>10. ListInv
  BY <1>7, <1>9 DEF ListInv
<1> QED
  BY <1>6, <1>8, <1>10

(* Each action keeps the types.                                            *)
LEMMA TypeStep ==
  ASSUME TypeInv, [Next]_vars
  PROVE  TypeInv'
<1>1. Len(args) \in Nat \ {0} /\ it \in 1..(Len(args) + 2) /\ Comma \in Characters
  BY LengthOne DEF TypeInv, Characters
<1>2. addArg(ssarg) \in Seq(Seq(Characters))
  BY AppendProperties DEF TypeInv, addArg
<1>3. CASE Letter
  <2>1. args[it] \in Characters /\ it + 1 \in 1..(Len(args) + 2)
    <3>1. it \in 1..Len(args)
      BY <1>1, <1>3 DEF Letter, More
    <3> QED
      BY <1>1, <3>1, ElementOfSeq DEF TypeInv
  <2>2. Append(ssarg, args[it]) \in Seq(Characters)
    BY <2>1, AppendProperties DEF TypeInv
  <2> QED
    BY <1>3, <2>1, <2>2 DEF TypeInv, Letter
<1>4. CASE DoubledComma
  <2>1. it + 2 \in 1..(Len(args) + 2)
    BY <1>1, <1>4 DEF DoubledComma, IsDoubled
  <2>2. Append(ssarg, Comma) \in Seq(Characters)
    BY <1>1, AppendProperties DEF TypeInv
  <2> QED
    BY <1>4, <2>1, <2>2 DEF TypeInv, DoubledComma
<1>5. CASE SingleComma
  <2>1. it + 1 \in 1..(Len(args) + 2) /\ <<>> \in Seq(Characters)
    BY <1>1, <1>5 DEF SingleComma, More
  <2> QED
    BY <1>2, <1>5, <2>1 DEF TypeInv, SingleComma
<1>6. CASE Finish
  <2>1. it + 1 \in 1..(Len(args) + 2)
    BY <1>1, <1>6 DEF Finish
  <2> QED
    BY <1>2, <1>6, <2>1 DEF TypeInv, Finish
<1>7. CASE UNCHANGED vars
  BY <1>7 DEF TypeInv, vars
<1> QED
  BY <1>3, <1>4, <1>5, <1>6, <1>7 DEF Next

(* One more character is taken: by the value, or by nothing.               *)
LEMMA LettersOfPrefix ==
  ASSUME NEW s \in Seq(Characters), NEW n \in 1..Len(s)
  PROVE  letters(SubSeq(s, 1, n)) = letters(SubSeq(s, 1, n - 1)) \o Kept(s[n])
<1>1. SubSeq(s, 1, n) = Append(SubSeq(s, 1, n - 1), s[n]) /\ s[n] \in Characters
  BY PrefixesGrow, ElementOfSeq
<1>2. n - 1 \in 0..Len(s)
  BY LenProperties
<1>3. SubSeq(s, 1, n - 1) \in Seq(Characters)
  BY <1>2, PrefixesGrow
<1> QED
  BY <1>1, <1>3, LettersAppend

LEMMA LettersTyped ==
  ASSUME NEW s \in Seq(Characters)
  PROVE  letters(s) \in Seq(Characters)
<1> DEFINE ks == [i \in 1..Len(s) |-> Kept(s[i])]
<1>1. ks \in Seq(Seq(Characters))
  <2>1. \A i \in 1..Len(s) : s[i] \in Characters
    BY ElementOfSeq
  <2>2. \A c \in Characters : Kept(c) \in Seq(Characters)
    BY DEF Kept
  <2>3. Len(s) \in Nat
    BY LenProperties
  <2> QED
    BY <2>1, <2>2, <2>3
<1>2. letters(s) = FlattenSeq(ks)
  BY DEF letters, Kept
<1> HIDE DEF ks
<1> QED
  BY <1>1, <1>2, FlattenPlaces

(* flat \o ssarg grows with ssarg.                                         *)
LEMMA LettersOfValue ==
  ASSUME NEW flat \in Seq(Characters), NEW s \in Seq(Characters), NEW c \in Characters
  PROVE  letters(flat \o Append(s, c)) = letters(flat \o s) \o Kept(c)
<1>1. flat \o Append(s, c) = Append(flat \o s, c)
  <2>1. <<c>> \in Seq(Characters) /\ Append(s, c) = s \o <<c>>
    BY AppendIsConcat
  <2>2. flat \o s \in Seq(Characters)
    BY ConcatProperties
  <2>3. (flat \o s) \o <<c>> = flat \o (s \o <<c>>)
    BY <2>1, ConcatAssociative
  <2> QED
    BY <2>1, <2>2, <2>3, AppendIsConcat
<1>2. flat \o s \in Seq(Characters)
  BY ConcatProperties
<1> QED
  BY <1>1, <1>2, LettersAppend

LEMMA AddedGrows ==
  ASSUME TypeInv
  PROVE  /\ FlattenSeq(added) \in Seq(Characters)
         /\ FlattenSeq(addArg(ssarg)) = FlattenSeq(added) \o ssarg
         /\ (\A i \in 1..Len(added) : added[i] # <<>>)
              => \A i \in 1..Len(addArg(ssarg)) : addArg(ssarg)[i] # <<>>
         /\ added # <<>> \/ ssarg # <<>> => addArg(ssarg) # <<>>
<1>1. FlattenSeq(added) \in Seq(Characters)
  BY FlattenPlaces DEF TypeInv
<1>2. CASE ssarg = <<>>
  BY <1>1, <1>2, ConcatEmptySeq DEF addArg
<1>3. CASE ssarg # <<>>
  <2>1. addArg(ssarg) = Append(added, ssarg) /\ ssarg \in Seq(Characters) /\ added \in Seq(Seq(Characters))
    BY <1>3 DEF addArg, TypeInv
  <2>2. FlattenSeq(addArg(ssarg)) = FlattenSeq(added) \o ssarg
    BY <2>1, FlattenAppend
  <2>3. PICK u : u = Append(added, ssarg)
    OBVIOUS
  <2>4. /\ Len(u) = Len(added) + 1 /\ u # <<>> /\ u[Len(added) + 1] = ssarg
        /\ \A i \in 1..Len(added) : u[i] = added[i]
    BY <2>1, <2>3, AppendProperties
  <2>5. ASSUME \A i \in 1..Len(added) : added[i] # <<>>, NEW i \in 1..Len(u) PROVE u[i] # <<>>
    <3>1. i \in 1..Len(added) \/ i = Len(added) + 1
      BY <2>1, <2>4, LenProperties
    <3> QED
      BY <1>3, <2>4, <2>5, <3>1
  <2> QED
    BY <1>1, <2>1, <2>2, <2>3, <2>4, <2>5
<1> QED
  BY <1>2, <1>3

LEMMA TakenStep ==
  ASSUME TypeInv, TakenInv, [Next]_vars
  PROVE  TakenInv'
<1> DEFINE flat == FlattenSeq(added)
<1>1. /\ args \in Seq(Characters) /\ Len(args) \in Nat \ {0} /\ it \in 1..(Len(args) + 2)
      /\ Comma \in Characters /\ ssarg \in Seq(Characters) /\ flat \in Seq(Characters)
  BY LengthOne, AddedGrows DEF TypeInv, Characters
<1>2. it <= Len(args) + 1
      => letters(flat \o ssarg) = letters(SubSeq(args, 1, it - 1))
  BY <1>1 DEF TakenInv, Done
<1> HIDE DEF flat
<1>3. Kept(Comma) = <<>> /\ \A u \in Seq(Characters) : letters(u) \o <<>> = letters(u)
  BY LettersTyped, ConcatEmptySeq DEF Kept
<1>4. CASE Letter
  <2>1. /\ it \in 1..Len(args) /\ it' = it + 1 /\ args' = args /\ added' = added
        /\ ssarg' = Append(ssarg, args[it])
    BY <1>1, <1>4 DEF Letter, More
  <2>2. args[it] \in Characters /\ it <= Len(args) + 1
    BY <1>1, <2>1, ElementOfSeq
  <2>3. letters(flat \o ssarg') = letters(SubSeq(args, 1, it))
    <3>1. letters(flat \o ssarg') = letters(flat \o ssarg) \o Kept(args[it])
      BY <1>1, <2>1, <2>2, LettersOfValue
    <3>2. letters(SubSeq(args, 1, it)) = letters(SubSeq(args, 1, it - 1)) \o Kept(args[it])
      BY <1>1, <2>1, LettersOfPrefix
    <3> QED
      BY <1>2, <2>2, <3>1, <3>2, Zenon
  <2>4. ~Done' /\ it' # 1 /\ it' - 1 = it /\ ssarg' # <<>>
    <3>1. ssarg' # <<>>
      BY <1>1, <2>1, <2>2, AppendProperties
    <3> QED
      BY <1>1, <2>1, <3>1 DEF Done
  <2> QED
    BY <2>1, <2>3, <2>4 DEF TakenInv, flat
<1>5. CASE DoubledComma
  <2>1. /\ it \in 1..Len(args) /\ it + 1 \in 1..Len(args) /\ it' = it + 2 /\ args' = args /\ added' = added
        /\ ssarg' = Append(ssarg, Comma) /\ args[it] = Comma /\ args[it + 1] = Comma
    BY <1>1, <1>5 DEF DoubledComma, IsDoubled
  <2>2. letters(flat \o ssarg') = letters(flat \o ssarg) \o <<>>
    BY <1>1, <1>3, <2>1, LettersOfValue
  <2>3. letters(SubSeq(args, 1, it)) = letters(SubSeq(args, 1, it - 1)) \o <<>>
    BY <1>1, <1>3, <2>1, LettersOfPrefix
  <2>4. letters(SubSeq(args, 1, it + 1)) = letters(SubSeq(args, 1, it)) \o <<>>
    <3>1. (it + 1) - 1 = it
      BY <1>1
    <3>2. letters(SubSeq(args, 1, it + 1)) = letters(SubSeq(args, 1, (it + 1) - 1)) \o Kept(args[it + 1])
      BY <1>1, <2>1, LettersOfPrefix
    <3> QED
      BY <1>3, <2>1, <3>1, <3>2
  <2>5. /\ SubSeq(args, 1, it) \in Seq(Characters) /\ SubSeq(args, 1, it - 1) \in Seq(Characters)
        /\ flat \o ssarg \in Seq(Characters)
    <3>1. it \in 0..Len(args) /\ it - 1 \in 0..Len(args)
      BY <1>1, <2>1
    <3> QED
      BY <1>1, <3>1, PrefixesGrow, ConcatProperties
  <2>6. letters(flat \o ssarg') = letters(SubSeq(args, 1, it + 1))
    <3>1. it <= Len(args) + 1
      BY <1>1, <2>1
    <3> QED
      BY <1>2, <1>3, <2>2, <2>3, <2>4, <2>5, <3>1
  <2>7. ~Done' /\ it' # 1 /\ it' - 1 = it + 1 /\ ssarg' # <<>>
    <3>1. ssarg' # <<>>
      BY <1>1, <2>1, AppendProperties
    <3> QED
      BY <1>1, <2>1, <3>1 DEF Done
  <2> QED
    BY <2>1, <2>6, <2>7 DEF TakenInv, flat
<1>6. CASE SingleComma
  <2>1. /\ it \in 1..Len(args) /\ it' = it + 1 /\ args' = args /\ added' = addArg(ssarg)
        /\ ssarg' = <<>> /\ args[it] = Comma
    BY <1>1, <1>6 DEF SingleComma, More
  <2>2. FlattenSeq(added') = flat \o ssarg /\ flat \o ssarg \in Seq(Characters)
    BY <1>1, <2>1, AddedGrows, ConcatProperties DEF flat
  <2>3. FlattenSeq(added') \o ssarg' = flat \o ssarg
    BY <2>1, <2>2, ConcatEmptySeq
  <2>4. letters(SubSeq(args, 1, it)) = letters(SubSeq(args, 1, it - 1)) \o <<>>
    BY <1>1, <1>3, <2>1, LettersOfPrefix
  <2>5. SubSeq(args, 1, it - 1) \in Seq(Characters)
    <3>1. it - 1 \in 0..Len(args)
      BY <1>1, <2>1
    <3> QED
      BY <1>1, <3>1, PrefixesGrow
  <2>6. letters(FlattenSeq(added') \o ssarg') = letters(SubSeq(args, 1, it))
    <3>1. it <= Len(args) + 1
      BY <1>1, <2>1
    <3> QED
      BY <1>2, <1>3, <2>3, <2>4, <2>5, <3>1
  <2>7. ~Done' /\ ~Done /\ it' # 1 /\ it' - 1 = it /\ it # 1
    <3>1. it # 1
      BY <2>1 DEF TakenInv
    <3> QED
      BY <1>1, <2>1, <3>1 DEF Done
  <2>8. added' # <<>> /\ \A i \in 1..Len(added') : added'[i] # <<>>
    BY <2>1, <2>7, AddedGrows DEF TakenInv
  <2> QED
    BY <2>1, <2>6, <2>7, <2>8 DEF TakenInv
<1>7. CASE Finish
  <2>1. it = Len(args) + 1 /\ it' = it + 1 /\ args' = args /\ added' = addArg(ssarg) /\ ssarg' = ssarg
    BY <1>7 DEF Finish
  <2>2. FlattenSeq(added') = flat \o ssarg
    BY <2>1, AddedGrows DEF flat
  <2>3. letters(FlattenSeq(added')) = letters(args)
    <3>1. it - 1 = Len(args) /\ it <= Len(args) + 1
      BY <1>1, <2>1
    <3> QED
      BY <1>1, <1>2, <2>2, <3>1, PrefixesGrow
  <2>4. Done' /\ ~Done /\ it' # 1 /\ it # 1
    BY <1>1, <2>1 DEF Done
  <2>5. added' # <<>> /\ \A i \in 1..Len(added') : added'[i] # <<>>
    BY <2>1, <2>4, AddedGrows DEF TakenInv
  <2> QED
    BY <2>1, <2>3, <2>4, <2>5 DEF TakenInv
<1>8. CASE UNCHANGED vars
  BY <1>8 DEF TakenInv, Done, vars
<1> QED
  BY <1>4, <1>5, <1>6, <1>7, <1>8 DEF Next

LEMMA ListStep ==
  ASSUME TypeInv, ListInv, [Next]_vars
  PROVE  ListInv'
<1> SUFFICES ASSUME list # <<>>, list' = list
             PROVE  IF Done' THEN added' = list ELSE \E at, text, d, k, j : Within(at, text, d, k, j)'
  BY DEF ListInv, Next, Letter, DoubledComma, SingleComma, Finish, vars
<1>1. Values(list) /\ list \in Seq(Seq(Characters)) /\ Len(list) \in Nat
  BY LenProperties DEF TypeInv, Values
<1>2. /\ args \in Seq(Characters) /\ Len(args) \in Nat
      /\ it \in Nat /\ it >= 1 /\ it <= Len(args) + 2
  BY LenProperties DEF TypeInv
<1>3. CASE UNCHANGED vars
  BY <1>3 DEF ListInv, Within, Done, vars
<1>4. ASSUME Next PROVE ~Done
  BY <1>2, <1>4 DEF Done, Next, Letter, DoubledComma, SingleComma, Finish, More, IsDoubled
<1>5. SUFFICES ASSUME Next PROVE IF Done' THEN added' = list ELSE \E at, text, d, k, j : Within(at, text, d, k, j)'
  BY <1>3
<1>6. PICK at, text, d, k, j : Within(at, text, d, k, j)
  BY <1>4, <1>5 DEF ListInv
<1>7. /\ Laid(at, list, text) /\ Shifted(args, text, d) /\ k \in 1..Len(list) /\ j \in 0..Len(list[k])
      /\ it + d = at[k][j] + 1 /\ added = SubSeq(list, 1, k - 1) /\ ssarg = SubSeq(list[k], 1, j)
  BY <1>6 DEF Within
<1>8. /\ d \in 1..2 /\ Len(text) = Len(args) + d
      /\ \A x \in 1..Len(args) : args[x] = text[x + d]
  BY <1>7 DEF Shifted
<1>9. /\ at[k][j] \in Nat
      /\ \/ NextCharacter(at, list, text, k, j)
         \/ NextValue(at, list, text, k, j)
         \/ AtEnd(at, list, text, k, j)
  <2>1. Len(text) \in Nat
    BY <1>2, <1>8
  <2> QED
    BY <1>1, <1>7, <2>1, WhatFollows
<1>10. list[k] \in Seq(Characters) /\ list[k] # <<>>
  BY <1>1, <1>7, ElementOfSeq DEF Values
<1>11. PICK p \in Nat : p = at[k][j]
  BY <1>9
<1>12. it + d = p + 1
  BY <1>7, <1>11
<1>13. it <= Len(args) => args[it] = text[p + 1]
  <2>1. it <= Len(args) => it \in 1..Len(args)
    BY <1>2
  <2> QED
    BY <1>8, <1>12, <2>1
<1>14. it < Len(args) => args[it + 1] = text[p + 2]
  <2>1. it < Len(args) => it + 1 \in 1..Len(args) /\ (it + 1) + d = p + 2
    BY <1>2, <1>8, <1>12
  <2> QED
    BY <1>8, <2>1
<1>15. CASE NextCharacter(at, list, text, k, j)
  <2>1. PICK c \in Characters : c = list[k][j + 1]
    BY <1>15 DEF NextCharacter
  <2>2. j + 1 \in 1..Len(list[k]) /\ TokenAt(c, p, at[k][j + 1], text)
    BY <1>11, <1>15, <2>1 DEF NextCharacter
  <2>3. at[k][j + 1] = p + Len(Token(c)) /\ at[k][j + 1] <= Len(text)
    BY <2>2 DEF TokenAt
  <2>4. /\ Len(Token(c)) = (IF c = Comma THEN 2 ELSE 1)
        /\ text[p + 1] = c /\ (c = Comma => text[p + 2] = Comma)
    BY <2>2, TokenFacts DEF TokenAt
  <2>5. it <= Len(args) /\ (c = Comma => it < Len(args))
    BY <1>2, <1>8, <1>12, <2>3, <2>4
  <2>6. SubSeq(list[k], 1, j + 1) = Append(SubSeq(list[k], 1, j), c)
    <3>1. (j + 1) - 1 = j
      BY <1>7
    <3>2. SubSeq(list[k], 1, j + 1) = Append(SubSeq(list[k], 1, (j + 1) - 1), list[k][j + 1])
      BY <1>10, <2>2, PrefixesGrow
    <3> QED
      BY <2>1, <3>1, <3>2
  <2>7. ASSUME ssarg' = Append(ssarg, c), it' = it + Len(Token(c)), args' = args, added' = added
        PROVE  ~Done' /\ \E a, t, e, l, m : Within(a, t, e, l, m)'
    <3>1. it' + d = at[k][j + 1] + 1
      <4>1. PICK l \in Nat : l = Len(Token(c))
        BY <2>4
      <4>2. it + l + d = p + l + 1
        BY <1>2, <1>8, <1>12
      <4> QED
        BY <2>3, <2>7, <4>1, <4>2
    <3>2. it' <= Len(args) + 1
      <4>1. PICK l \in Nat : l = Len(Token(c))
        BY <2>4
      <4>2. p + l <= Len(text) /\ it' = it + l
        BY <2>3, <2>7, <4>1
      <4>3. it + l <= Len(args) + 1
        BY <1>2, <1>8, <1>12, <4>2
      <4> QED
        BY <4>2, <4>3
    <3>3. ~Done'
      BY <1>2, <2>7, <3>2, <2>4 DEF Done
    <3>4. ssarg' = SubSeq(list[k], 1, j + 1)
      BY <1>7, <2>6, <2>7
    <3>5. j + 1 \in 0..Len(list[k])
      BY <2>2
    <3>6. Within(at, text, d, k, j + 1)'
      BY <1>7, <2>7, <3>1, <3>4, <3>5 DEF Within
    <3> QED
      BY <3>3, <3>6
  <2>8. CASE Letter
    <3>1. c # Comma
      BY <1>13, <2>4, <2>5, <2>8 DEF Letter
    <3> QED
      BY <1>13, <2>4, <2>5, <2>7, <2>8, <3>1 DEF Letter
  <2>9. CASE DoubledComma
    <3>1. c = Comma
      BY <1>13, <2>4, <2>5, <2>9 DEF DoubledComma, IsDoubled
    <3> QED
      BY <2>4, <2>7, <2>9, <3>1 DEF DoubledComma
  <2>10. ~SingleComma
    BY <1>13, <1>14, <2>4, <2>5 DEF SingleComma, IsDoubled
  <2>11. ~Finish
    BY <1>2, <2>5 DEF Finish
  <2> QED
    BY <1>5, <2>8, <2>9, <2>10, <2>11 DEF Next
<1>16. CASE NextValue(at, list, text, k, j)
  <2>1. /\ j = Len(list[k]) /\ k < Len(list)
        /\ at[k + 1][0] = p + 1 /\ p + 2 <= Len(text)
        /\ text[p + 1] = Comma /\ text[p + 2] # Comma
    BY <1>11, <1>16 DEF NextValue
  <2>2. it < Len(args)
    BY <1>2, <1>8, <1>12, <2>1
  <2>3. args[it] = Comma /\ args[it + 1] # Comma
    BY <1>2, <1>13, <1>14, <2>1, <2>2
  <2>4. SingleComma
    BY <1>2, <1>5, <2>2, <2>3 DEF Next, Letter, DoubledComma, Finish, IsDoubled
  <2>5. ssarg = list[k]
    BY <1>7, <1>10, <2>1, PrefixesGrow
  <2>6. added' = Append(added, list[k]) /\ ssarg' = <<>> /\ it' = it + 1 /\ args' = args
    BY <1>10, <2>4, <2>5 DEF SingleComma, addArg
  <2>7. added' = SubSeq(list, 1, k)
    BY <1>1, <1>7, <2>6, PrefixesGrow
  <2>8. k + 1 \in 1..Len(list) /\ (k + 1) - 1 = k /\ list[k + 1] \in Seq(Characters)
    BY <1>1, <1>7, <2>1, ElementOfSeq
  <2>9. SubSeq(list[k + 1], 1, 0) = <<>> /\ 0 \in 0..Len(list[k + 1])
    BY <2>8, PrefixesGrow, LenProperties
  <2>10. it' + d = at[k + 1][0] + 1
    BY <1>2, <1>8, <1>12, <2>1, <2>6
  <2>11. Within(at, text, d, k + 1, 0)'
    BY <1>7, <2>6, <2>7, <2>8, <2>9, <2>10 DEF Within
  <2>12. ~Done'
    BY <1>2, <2>2, <2>6 DEF Done
  <2> QED
    BY <2>11, <2>12
<1>17. CASE AtEnd(at, list, text, k, j)
  <2>1. j = Len(list[k]) /\ k = Len(list) /\ p = Len(text)
    BY <1>11, <1>17 DEF AtEnd
  <2>2. it = Len(args) + 1
    BY <1>2, <1>8, <1>12, <2>1
  <2>3. Finish
    BY <1>2, <1>5, <2>2 DEF Next, Letter, DoubledComma, SingleComma, More, IsDoubled
  <2>4. ssarg = list[k]
    BY <1>7, <1>10, <2>1, PrefixesGrow
  <2>5. added' = Append(added, list[k])
    BY <1>10, <2>3, <2>4 DEF Finish, addArg
  <2>6. added' = SubSeq(list, 1, k)
    BY <1>1, <1>7, <2>5, PrefixesGrow
  <2>7. added' = list
    BY <1>1, <2>1, <2>6, PrefixesGrow
  <2>8. Done'
    BY <1>2, <2>2, <2>3 DEF Done, Finish
  <2> QED
    BY <2>7, <2>8
<1> QED
  BY <1>9, <1>15, <1>16, <1>17

-----------------------------------------------------------------------------
(* The theorems                                                            *)

(* The types, the letters taken so far and the place in the written list   *)
(* hold at every step of the loop.                                         *)
THEOREM ForwardedInvariant == Spec => [](TypeInv /\ TakenInv /\ ListInv)
<1>1. Init => TypeInv /\ TakenInv /\ ListInv
  BY InitInv
<1>2. (TypeInv /\ TakenInv /\ ListInv) /\ [Next]_vars => (TypeInv /\ TakenInv /\ ListInv)'
  BY TypeStep, TakenStep, ListStep
<1> QED
  BY <1>1, <1>2, PTL DEF Spec

(* Any list of values that can be written at all, of any length and over   *)
(* any alphabet, arrives at the option as it was written.                  *)
THEOREM ListsAreDelivered == Spec => []ListsArrive
<1>1. ListInv => ListsArrive
  BY DEF ListInv, ListsArrive
<1> QED
  BY <1>1, ForwardedInvariant, PTL

(* Whatever the text is, its letters arrive in their order and no value is *)
(* empty.                                                                  *)
THEOREM LettersAreDelivered == Spec => []LettersArrive
<1>1. TypeInv /\ TakenInv => LettersArrive
  <2> SUFFICES ASSUME TypeInv, TakenInv, Done PROVE LettersArrive
    BY DEF LettersArrive
  <2>1. letters(FlattenSeq(added)) = letters(args) /\ \A i \in 1..Len(added) : added[i] # <<>>
    BY DEF TakenInv
  <2>2. it # 1
    BY LenProperties DEF TypeInv, Done
  <2> QED
    BY <2>1, <2>2 DEF TakenInv, LettersArrive
<1> QED
  BY <1>1, ForwardedInvariant, PTL
=============================================================================
