------------------------------ MODULE ReadsProofs ------------------------------
(***************************************************************************)
(* Theorems about the readers of MCReads, for any limit of a message, any  *)
(* text, any table of rows, any page limit, any stretch of days, any       *)
(* registry of entries and any question:                                   *)
(*   an answer arrives whole, in messages that fit        (Replies)        *)
(*   a walk misses no more rows than left the listing     (Listing)        *)
(*   exports of consecutive ranges meet without a gap     (Listing)        *)
(*   entries asked for by name come first                 (Knowledge)      *)
(*   a student asked back chooses among all the best      (Knowledge)      *)
(***************************************************************************)
EXTENDS MCReads, FiniteSetTheorems, WellFoundedInduction, TLAPS

-----------------------------------------------------------------------------
(* Arithmetic and least elements *)

\* A set of naturals has a least element.
LEMMA LeastOf ==
  ASSUME NEW S, S \subseteq Nat, S # {}
  PROVE  \E x \in S : \A y \in S : x <= y
<1>1. PICK x \in S : \A y \in S : ~ (<<y, x>> \in OpToRel(<, Nat))
  BY NatLessThanWellFounded, WFMin
<1>2. \A y \in S : ~ (y < x)
  BY <1>1 DEF OpToRel
<1>3. QED
  BY <1>2

\* A bounded set of naturals has a greatest element, the one Max chooses.
LEMMA MaxIsMember ==
  ASSUME NEW S, S \subseteq Nat, S # {}, NEW n \in Nat, \A x \in S : x <= n
  PROVE  Max(S) \in S
<1> DEFINE gap(x) == n - x
           Gaps == {gap(x) : x \in S}
<1>1. Gaps \subseteq Nat /\ Gaps # {}
  <2>1. \A x \in S : gap(x) \in Nat
    <3>1. TAKE x \in S
    <3>2. x \in Nat /\ x <= n
      OBVIOUS
    <3>3. QED
      BY <3>2
  <2> HIDE DEF gap
  <2>2. QED
    BY <2>1
<1>2. PICK g \in Gaps : \A h \in Gaps : g <= h
  <2> HIDE DEF Gaps
  <2>. QED BY <1>1, LeastOf
<1>3. PICK m \in S : g = gap(m)
  OBVIOUS
<1>4. \A y \in S : m >= y
  <2>1. TAKE y \in S
  <2>2. gap(m) <= gap(y)
    BY <1>2, <1>3
  <2>. QED BY <2>2
<1>5. QED
  BY <1>4 DEF Max

\* A number is below the quotient exactly if its multiple is below the dividend.
LEMMA DivFloor ==
  ASSUME NEW s \in Nat, NEW d \in Nat \ {0}, NEW a \in Nat
  PROVE  a * d <= s <=> a <= s \div d
<1> DEFINE q == s \div d
<1>1. q \in Nat /\ q * d <= s /\ s < q * d + d
  BY SMT
<1> HIDE DEF q
<1>2. CASE a <= q
  <2>1. a * d <= q * d
    BY <1>1, <1>2, SMT
  <2>2. a * d \in Nat /\ q * d \in Nat
    BY <1>1, SMT
  <2>. QED BY <1>1, <1>2, <2>1, <2>2 DEF q
<1>3. CASE q + 1 <= a
  <2>1. (q + 1) * d <= a * d
    BY <1>1, <1>3, SMT
  <2>2. a * d \in Nat /\ q * d \in Nat /\ (q + 1) * d = q * d + d
    BY <1>1, SMT
  <2>. QED BY <1>1, <1>3, <2>1, <2>2 DEF q
<1>. QED BY <1>1, <1>2, <1>3 DEF q

-----------------------------------------------------------------------------
(* An answer arrives whole *)

TextOK ==
  /\ text.len \in Nat
  /\ text.breaks \subseteq 1..text.len

\* The chunks received are messages that join up, in order.
Joined ==
  \A k \in DOMAIN shown :
     /\ Fits(shown[k][2] - shown[k][1])
     /\ shown[k][1] = IF k = 1 THEN 0 ELSE shown[k - 1][2]

\* What is received ends where the sending stands, as long as it goes on.
UpTo == IF shown = <<>> THEN 0 ELSE shown[Len(shown)][2]

Delivered ==
  /\ TextOK
  /\ at \in 0..text.len
  /\ outcome = "none" => at < text.len \/ text.len = 0
  /\ shown \in Seq(Nat \X Nat)
  /\ Joined
  /\ outcome = "none" => at = UpTo
  /\ AnswerArrives

\* Wherever a text that is not yet sent is cut, the chunk is a message.
LEMMA CutFits ==
  ASSUME TextOK, at \in Nat, at < text.len
  PROVE  /\ CutAfter(at) \in Nat
         /\ CutAfter(at) <= text.len
         /\ Fits(CutAfter(at) - at)
<1> DEFINE quarter == (Limit * 3) \div 4
           near == {b \in text.breaks : at + quarter < b /\ b <= at + Limit}
<1>1. Limit \in Nat /\ Limit >= 1 /\ text.len \in Nat
  BY LimitAssumption DEF TextOK
<1>2. quarter \in Nat
  BY <1>1
<1>3. near \subseteq Nat /\ \A b \in near : b <= text.len /\ at < b /\ b <= at + Limit
  BY <1>1, <1>2 DEF TextOK
<1>4. CutAfter(at) = IF at + Limit >= text.len THEN text.len
                     ELSE IF near # {} THEN Max(near) ELSE at + Limit
  BY DEF CutAfter
<1> HIDE DEF near
<1>5. CASE at + Limit >= text.len
  <2>1. CutAfter(at) = text.len
    BY <1>4, <1>5
  <2>2. QED
    BY <1>1, <1>5, <2>1 DEF Fits
<1>6. CASE ~ (at + Limit >= text.len) /\ near # {}
  <2>1. Max(near) \in near
    BY <1>1, <1>3, <1>6, MaxIsMember
  <2>2. CutAfter(at) \in near
    BY <1>4, <1>6, <2>1
  <2> DEFINE cut == CutAfter(at)
  <2>3. cut \in Nat /\ cut <= text.len /\ at < cut /\ cut <= at + Limit
    BY <1>3, <2>2
  <2> HIDE DEF cut
  <2>4. cut - at \in 1..Limit
    BY <1>1, <2>3
  <2>5. QED
    BY <2>3, <2>4 DEF Fits, cut
<1>7. CASE ~ (at + Limit >= text.len) /\ near = {}
  <2>1. CutAfter(at) = at + Limit
    BY <1>4, <1>7
  <2>2. QED
    BY <1>1, <1>7, <2>1 DEF Fits
<1>8. QED
  BY <1>5, <1>6, <1>7

LEMMA DeliveredFits == Delivered => ChunksFit
<1>1. ASSUME Delivered, outcome = "none", text.len > 0
      PROVE  Fits(CutAfter(at) - at)
  <2>1. TextOK /\ at \in Nat /\ at < text.len
    BY <1>1 DEF Delivered, TextOK
  <2>2. QED
    BY <2>1, CutFits
<1>2. QED
  BY <1>1 DEF ChunksFit, Delivered, Joined

\* The next chunk joins those received.
LEMMA DeliversJoins ==
  ASSUME Delivered, outcome = "none", Fits(CutAfter(at) - at), Delivers
  PROVE  /\ CutAfter(at) \in Nat /\ CutAfter(at) <= text.len
         /\ text.len > 0
         /\ shown' \in Seq(Nat \X Nat)
         /\ shown' # <<>> /\ shown'[Len(shown')][2] = CutAfter(at)
         /\ \A k \in DOMAIN shown' :
              /\ Fits(shown'[k][2] - shown'[k][1])
              /\ shown'[k][1] = IF k = 1 THEN 0 ELSE shown'[k - 1][2]
<1>1. TextOK /\ at \in Nat /\ text.len \in Nat /\ at <= text.len
  BY DEF Delivered, TextOK
<1>2. at < text.len
  <2>1. CASE text.len = 0
    <3>1. at = 0 /\ Limit \in Nat
      BY <1>1, <2>1, LimitAssumption
    <3>2. CutAfter(at) = 0
      BY <2>1, <3>1 DEF CutAfter
    <3>3. QED
      BY <3>1, <3>2 DEF Fits
  <2>2. QED
    BY <2>1 DEF Delivered
<1>3. CutAfter(at) \in Nat /\ CutAfter(at) <= text.len
  BY <1>1, <1>2, CutFits
<1> DEFINE next == CutAfter(at)
           chunk == <<at, next>>
<1> HIDE DEF next
<1>4. chunk \in Nat \X Nat /\ chunk[1] = at /\ chunk[2] = next
  BY <1>1, <1>3 DEF next
<1>5. shown \in Seq(Nat \X Nat) /\ shown' = Append(shown, chunk) /\ Len(shown) \in Nat
  BY DEF Delivered, Delivers, next
<1> HIDE DEF chunk
<1>6. /\ shown' \in Seq(Nat \X Nat)
      /\ Len(shown') = Len(shown) + 1
      /\ shown'[Len(shown) + 1] = chunk
      /\ \A k \in 1..Len(shown) : shown'[k] = shown[k]
  BY <1>4, <1>5
<1>7. shown' # <<>> /\ shown'[Len(shown')][2] = next
  <2>1. shown'[Len(shown')] = chunk
    BY <1>6
  <2>2. Len(shown') > 0 /\ chunk[2] = next
    BY <1>4, <1>5, <1>6
  <2>3. QED
    BY <2>1, <2>2
<1>8. ASSUME NEW k \in DOMAIN shown'
      PROVE  /\ Fits(shown'[k][2] - shown'[k][1])
             /\ shown'[k][1] = IF k = 1 THEN 0 ELSE shown'[k - 1][2]
  <2>1. k \in 1..(Len(shown) + 1)
    BY <1>6
  <2>2. CASE k \in 1..Len(shown)
    <3>1. shown'[k] = shown[k] /\ k \in DOMAIN shown
      BY <1>5, <1>6, <2>2
    <3>2. k # 1 => shown'[k - 1] = shown[k - 1]
      <4>1. k # 1 => k - 1 \in 1..Len(shown)
        BY <1>5, <2>2
      <4>2. QED
        BY <1>6, <4>1
    <3>3. QED
      BY <3>1, <3>2 DEF Delivered, Joined
  <2>3. CASE k = Len(shown) + 1
    <3>1. shown'[k][1] = at /\ shown'[k][2] = next
      BY <1>4, <1>6, <2>3
    <3>2. Fits(shown'[k][2] - shown'[k][1])
      BY <3>1 DEF next
    <3>3. at = UpTo
      BY DEF Delivered
    <3>4. CASE shown = <<>>
      BY <2>3, <3>1, <3>2, <3>3, <3>4 DEF UpTo
    <3>5. CASE shown # <<>>
      <4>1. Len(shown) \in 1..Len(shown) /\ k # 1 /\ k - 1 = Len(shown)
        BY <1>5, <2>3, <3>5
      <4>2. shown'[k - 1] = shown[Len(shown)]
        BY <1>6, <4>1
      <4>3. QED
        BY <3>1, <3>2, <3>3, <3>5, <4>1, <4>2 DEF UpTo
    <3>6. QED
      BY <3>4, <3>5
  <2>4. QED
    BY <1>5, <2>1, <2>2, <2>3
<1>9. QED
  BY <1>1, <1>2, <1>3, <1>6, <1>7, <1>8 DEF next

LEMMA AcceptedDelivered ==
  ASSUME Delivered, Accepted
  PROVE  Delivered'
<1>1. outcome = "none" /\ Fits(CutAfter(at) - at) /\ Delivers
  BY DEF Accepted
<1>2. /\ at' = CutAfter(at) /\ text' = text /\ plain' = plain
      /\ outcome' = IF at' = text.len THEN "nil" ELSE "none"
  BY DEF Accepted
<1>3. /\ at' \in Nat /\ at' <= text.len /\ text.len \in Nat /\ TextOK
  BY <1>1, <1>2, DeliversJoins DEF Delivered, TextOK
<1>4. TextOK' /\ at' \in 0..text'.len
  BY <1>2, <1>3 DEF TextOK
<1>5. (outcome = "none" => at < text.len \/ text.len = 0)'
  BY <1>2, <1>3
<1>6. shown' \in Seq(Nat \X Nat) /\ Joined'
  BY <1>1, DeliversJoins DEF Joined, Fits
<1>7. shown' # <<>> /\ shown'[Len(shown')][2] = at'
  BY <1>1, <1>2, DeliversJoins
<1>8. (outcome = "none" => at = UpTo)' /\ AnswerArrives'
  BY <1>2, <1>7 DEF UpTo, AnswerArrives
<1>9. QED
  BY <1>4, <1>5, <1>6, <1>8 DEF Delivered

LEMMA RefusedDelivered ==
  ASSUME Delivered, Refused
  PROVE  Delivered'
<1>1. /\ outcome = "none" /\ text' = text /\ at' = at
      /\ outcome' # "none" /\ (outcome' = "nil" => plain')
  BY DEF Refused
<1>2. shown' \in Seq(Nat \X Nat) /\ Joined'
  <2>1. CASE Fits(CutAfter(at) - at) /\ Delivers
    BY <1>1, <2>1, DeliversJoins DEF Joined, Fits
  <2>2. CASE shown' = shown
    BY <2>2 DEF Delivered, Joined, Fits
  <2>3. QED
    BY <2>1, <2>2 DEF Refused
<1>3. QED
  BY <1>1, <1>2 DEF Delivered, TextOK, AnswerArrives

LEMMA InitDelivered == Init => Delivered
<1> SUFFICES ASSUME Init PROVE Delivered
  OBVIOUS
<1>1. PICK n \in Nat : ReplyInit(Texts(n))
  BY ReadsAssumption DEF Init
<1>2. TextOK
  <2>1. PICK l \in 0..n : text \in [len : {l}, breaks : SUBSET (1..l), plainFits : BOOLEAN]
    BY <1>1 DEF ReplyInit, Texts
  <2>2. QED
    BY <2>1 DEF TextOK
<1>3. at = 0 /\ shown = <<>> /\ outcome = "none"
  BY <1>1 DEF ReplyInit
<1>4. QED
  BY <1>2, <1>3 DEF Delivered, TextOK, Joined, UpTo, AnswerArrives

LEMMA NextDelivered == Delivered /\ [Next]_vars => Delivered'
<1> SUFFICES ASSUME Delivered, [Next]_vars PROVE Delivered'
  OBVIOUS
<1>1. CASE UNCHANGED replyVars
  BY <1>1 DEF replyVars, Delivered, TextOK, Joined, Fits, UpTo, AnswerArrives
<1>2. CASE ReplyNext
  BY <1>2, AcceptedDelivered, RefusedDelivered DEF ReplyNext
<1>3. QED
  BY <1>1, <1>2 DEF Next, vars

\* However a text is cut, what is sent next is a message Telegram can take, and what the
\* student has received is the text in order, without a gap and without an overlap.
THEOREM ChunksAlwaysFit == Spec => []ChunksFit
BY InitDelivered, NextDelivered, DeliveredFits, PTL DEF Spec

\* askAI reports success only when the student has the whole answer.
THEOREM AnswersArrive == Spec => []AnswerArrives
<1>1. Delivered => AnswerArrives
  BY DEF Delivered
<1>2. QED
  BY <1>1, InitDelivered, NextDelivered, PTL DEF Spec

-----------------------------------------------------------------------------
(* The order of a listing *)

TableOK ==
  /\ stamp \in [RowId -> Instant \cup {Ghost}]
  /\ listed \subseteq Rows /\ IsFiniteSet(listed)

NewerThan(r) == {s \in listed : Newer(s, r)}

LEMMA RowTimes ==
  ASSUME TableOK, NEW r \in Rows
  PROVE  r \in Nat /\ stamp[r] \in Nat
BY ListingAssumption DEF TableOK, Rows

LEMMA NewerIsAnOrder ==
  ASSUME TableOK, NEW r \in Rows, NEW s \in Rows, NEW t \in Rows
  PROVE  /\ ~ Newer(r, r)
         /\ r = s \/ Newer(r, s) \/ Newer(s, r)
         /\ Newer(r, s) /\ Newer(s, t) => Newer(r, t)
<1>1. /\ r \in Nat /\ stamp[r] \in Nat
      /\ s \in Nat /\ stamp[s] \in Nat
      /\ t \in Nat /\ stamp[t] \in Nat
  BY RowTimes
<1>2. QED
  BY <1>1 DEF Newer

LEMMA PositionIsNat ==
  ASSUME TableOK, NEW r
  PROVE  /\ IsFiniteSet(NewerThan(r))
         /\ Position(r) = Cardinality(NewerThan(r))
         /\ Position(r) \in Nat
<1>1. NewerThan(r) \in SUBSET listed /\ Position(r) = Cardinality(NewerThan(r))
  BY DEF NewerThan, Position
<1>2. IsFiniteSet(NewerThan(r))
  BY <1>1, FS_Subset DEF TableOK
<1>3. QED
  BY <1>1, <1>2, FS_CardinalityType

LEMMA PositionsAreNat ==
  TableOK => \A r : /\ IsFiniteSet(NewerThan(r))
                    /\ Position(r) = Cardinality(NewerThan(r)) /\ Position(r) \in Nat
BY PositionIsNat

\* The same after a step.
LEMMA PositionsThere ==
  TableOK' => \A r : /\ IsFiniteSet(NewerThan(r)')
                     /\ Position(r)' = Cardinality(NewerThan(r)') /\ Position(r)' \in Nat
<1>1. (TableOK => \A r : /\ IsFiniteSet(NewerThan(r))
                         /\ Position(r) = Cardinality(NewerThan(r)) /\ Position(r) \in Nat)'
  BY PositionsAreNat, PTL
<1>2. QED
  BY <1>1

\* A newer row stands before an older one, and every row within the listing.
LEMMA PositionsGrow ==
  ASSUME TableOK, NEW r \in listed, NEW s \in listed, Newer(r, s)
  PROVE  Position(r) < Position(s)
<1>1. r \in Rows /\ s \in Rows /\ listed \subseteq Rows
  BY DEF TableOK
<1>2. NewerThan(r) \in SUBSET NewerThan(s)
  BY <1>1, NewerIsAnOrder DEF NewerThan
<1>3. r \in NewerThan(s) /\ r \notin NewerThan(r)
  BY <1>1, NewerIsAnOrder DEF NewerThan
<1>4. /\ IsFiniteSet(NewerThan(s))
      /\ Position(r) = Cardinality(NewerThan(r)) /\ Position(r) \in Nat
      /\ Position(s) = Cardinality(NewerThan(s)) /\ Position(s) \in Nat
  BY PositionIsNat
<1>5. /\ Cardinality(NewerThan(r)) <= Cardinality(NewerThan(s))
      /\ Cardinality(NewerThan(r)) # Cardinality(NewerThan(s))
  BY <1>2, <1>3, <1>4, FS_Subset
<1>6. QED
  BY <1>4, <1>5

LEMMA PositionsInside ==
  ASSUME TableOK, NEW r \in listed
  PROVE  Position(r) < Cardinality(listed)
<1>1. NewerThan(r) \in SUBSET listed /\ r \notin NewerThan(r)
  BY NewerIsAnOrder DEF NewerThan, TableOK
<1>2. /\ Cardinality(NewerThan(r)) <= Cardinality(listed)
      /\ Cardinality(NewerThan(r)) # Cardinality(listed)
  BY <1>1, FS_Subset DEF TableOK
<1>3. Cardinality(listed) \in Nat
  BY FS_CardinalityType DEF TableOK
<1>4. QED
  BY <1>2, <1>3, PositionIsNat

LEMMA PositionsUnique ==
  ASSUME TableOK, NEW r \in listed, NEW s \in listed, Position(r) = Position(s)
  PROVE  r = s
<1>1. r \in Rows /\ s \in Rows /\ Position(r) \in Nat
  BY PositionIsNat DEF TableOK
<1>2. ~ Newer(r, s) /\ ~ Newer(s, r)
  BY <1>1, PositionsGrow
<1>3. QED
  BY <1>1, <1>2, NewerIsAnOrder

\* No position is left out.
LEMMA PositionsClose ==
  ASSUME TableOK, NEW r \in listed, Position(r) > 0
  PROVE  \E s \in listed : Position(s) = Position(r) - 1
<1> DEFINE behind(s) == Position(r) - Position(s)
           Gaps == {behind(s) : s \in NewerThan(r)}
<1>1. r \in Rows /\ listed \subseteq Rows
  BY DEF TableOK
<1>2. NewerThan(r) \subseteq listed /\ NewerThan(r) # {}
  <2>1. Cardinality(NewerThan(r)) # 0
    BY PositionIsNat
  <2>2. QED
    BY <2>1, FS_EmptySet DEF NewerThan
<1>3. \A s \in NewerThan(r) : behind(s) \in Nat
  <2>1. TAKE s \in NewerThan(r)
  <2>2. s \in listed /\ Newer(s, r)
    BY DEF NewerThan
  <2>3. Position(s) < Position(r)
    BY <2>2, PositionsGrow
  <2>4. Position(s) \in Nat /\ Position(r) \in Nat
    BY PositionIsNat
  <2>5. QED
    BY <2>3, <2>4
<1>4. PICK g \in Gaps : \A h \in Gaps : g <= h
  <2>1. Gaps \subseteq Nat /\ Gaps # {}
    <3> HIDE DEF behind
    <3>1. QED
      BY <1>2, <1>3
  <2> HIDE DEF Gaps
  <2>2. QED
    BY <2>1, LeastOf
<1>5. PICK s \in NewerThan(r) : g = behind(s)
  OBVIOUS
<1>6. s \in listed /\ s \in Rows /\ Newer(s, r)
  BY <1>1 DEF NewerThan
<1>7. NewerThan(s) = NewerThan(r) \ {s}
  <2>1. NewerThan(s) \subseteq NewerThan(r) \ {s}
    BY <1>1, <1>6, NewerIsAnOrder DEF NewerThan
  <2>2. ASSUME NEW t \in NewerThan(r), t # s
        PROVE  t \in NewerThan(s)
    <3>1. t \in listed /\ t \in Rows
      BY <1>1 DEF NewerThan
    <3>2. ~ Newer(s, t)
      <4>1. SUFFICES ASSUME Newer(s, t) PROVE FALSE
        OBVIOUS
      <4>2. Position(s) < Position(t)
        BY <1>6, <3>1, <4>1, PositionsGrow
      <4>3. behind(s) <= behind(t)
        BY <1>4, <1>5
      <4>4. Position(s) \in Nat /\ Position(t) \in Nat /\ Position(r) \in Nat
        BY PositionIsNat
      <4>5. QED
        BY <4>2, <4>3, <4>4
    <3>3. QED
      BY <1>6, <2>2, <3>1, <3>2, NewerIsAnOrder DEF NewerThan
  <2>3. QED
    BY <2>1, <2>2
<1>8. Cardinality(NewerThan(s)) = Cardinality(NewerThan(r)) - 1
  BY <1>7, PositionIsNat, FS_RemoveElement
<1>9. QED
  BY <1>6, <1>8, PositionIsNat

\* A page is empty only behind the end of the listing.
LEMMA EmptyPageIsLast ==
  ASSUME TableOK, NEW o \in Nat, NEW n \in Nat \ {0},
         \A r \in listed : Position(r) \notin o..(o + n - 1)
  PROVE  \A r \in listed : Position(r) < o
<1> SUFFICES ASSUME NEW far \in listed, ~ (Position(far) < o)
             PROVE  FALSE
  OBVIOUS
<1> DEFINE Far == {Position(r) : r \in {s \in listed : ~ (Position(s) < o)}}
<1>1. Far \subseteq Nat /\ Far # {}
  BY PositionIsNat
<1>2. PICK m \in Far : \A k \in Far : m <= k
  <2> HIDE DEF Far
  <2>1. QED
    BY <1>1, LeastOf
<1>3. PICK r \in listed : m = Position(r) /\ ~ (Position(r) < o)
  OBVIOUS
<1>4. m \in Nat /\ m > o
  <2>1. m \in Nat /\ m \notin o..(o + n - 1)
    BY <1>1, <1>3
  <2>2. ~ (m < o)
    BY <1>3
  <2>3. QED
    BY <2>1, <2>2
<1>5. PICK s \in listed : Position(s) = m - 1
  <2>1. Position(r) > 0
    BY <1>3, <1>4
  <2>2. QED
    BY <1>3, <2>1, PositionsClose
<1>6. ~ (Position(s) < o)
  BY <1>4, <1>5
<1>7. m <= m - 1
  BY <1>2, <1>5, <1>6
<1>8. QED
  BY <1>4, <1>7

-----------------------------------------------------------------------------
(* A walk misses no more than what left *)

WalkOK ==
  walk \in [page : Nat \ {0}, asked : Nat \ {0}, seen : SUBSET RowId, kept : SUBSET listed,
            departed : Nat, done : BOOLEAN]

\* The rows before the page that is read next, kept and not seen: they will be missed.
Passed == {r \in walk.kept \ walk.seen : Position(r) < Offset(walk.page, walk.asked)}

Walked ==
  /\ TableOK
  /\ WalkOK
  /\ ~ walk.done => Cardinality(Passed) <= walk.departed
  /\ WalkMissesDeparted

LEMMA PageOffsets ==
  ASSUME WalkOK
  PROVE  /\ Capped(walk.asked) \in Nat \ {0}
         /\ Offset(walk.page, walk.asked) \in Nat
         /\ Offset(walk.page + 1, walk.asked)
              = Offset(walk.page, walk.asked) + Capped(walk.asked)
         /\ Offset(walk.page + 1, walk.asked) = walk.page * Capped(walk.asked)
<1>1. walk.page \in Nat \ {0} /\ walk.asked \in Nat \ {0}
  BY DEF WalkOK
<1>2. Capped(walk.asked) \in Nat \ {0}
  BY <1>1, ListingAssumption DEF Capped
<1> DEFINE n == Capped(walk.asked)
           p == walk.page
<1> HIDE DEF n, p
<1>3. n \in Nat \ {0} /\ p \in Nat \ {0} /\ p + 1 - 1 = p /\ p - 1 \in Nat
  BY <1>1, <1>2 DEF n, p
<1>4. (p - 1) * n \in Nat /\ p * n = (p - 1) * n + n
  BY <1>3, SMT
<1>5. QED
  BY <1>3, <1>4 DEF Offset, n, p

LEMMA PassedFinite ==
  ASSUME TableOK, WalkOK
  PROVE  /\ IsFiniteSet(walk.kept) /\ IsFiniteSet(Passed)
         /\ Cardinality(Passed) \in Nat
<1>1. walk.kept \in SUBSET listed /\ Passed \in SUBSET listed
  BY DEF WalkOK, Passed
<1>2. QED
  BY <1>1, FS_Subset, FS_CardinalityType DEF TableOK

\* The page that is read holds the kept rows from its offset up to the next.
LEMMA PageSees ==
  ASSUME TableOK, WalkOK, NEW r \in walk.kept \ (walk.seen \cup Items(walk.page, walk.asked)),
         Position(r) < Offset(walk.page + 1, walk.asked)
  PROVE  r \in Passed
<1> DEFINE n == Capped(walk.asked)
           o == Offset(walk.page, walk.asked)
<1>1. /\ n \in Nat \ {0} /\ o \in Nat /\ Position(r) \in Nat
      /\ Position(r) < o + n
  BY PageOffsets, PositionIsNat
<1>2. r \in listed
  BY DEF WalkOK
<1>3. Position(r) \notin o..(o + n - 1)
  BY <1>2 DEF Items
<1> HIDE DEF n, o
<1>4. Position(r) < o
  BY <1>1, <1>3
<1>5. QED
  BY <1>4 DEF Passed, o

\* Behind the last page there is nothing.
LEMMA LastPageIsLast ==
  ASSUME TableOK, WalkOK, walk.page >= TotalPages(walk.page, walk.asked)
  PROVE  \A r \in listed : Position(r) < Offset(walk.page + 1, walk.asked)
<1> DEFINE n == Capped(walk.asked)
           p == walk.page
           o == Offset(p, walk.asked)
           size == Cardinality(listed)
<1>1. /\ n \in Nat \ {0} /\ o \in Nat /\ p \in Nat \ {0}
      /\ Offset(p + 1, walk.asked) = o + n /\ Offset(p + 1, walk.asked) = p * n
  BY PageOffsets DEF WalkOK
<1>2. size \in Nat
  BY FS_CardinalityType DEF TableOK
<1>3. CASE Items(p, walk.asked) = {}
  <2>1. \A r \in listed : Position(r) \notin o..(o + n - 1)
    BY <1>3 DEF Items
  <2> HIDE DEF n, o
  <2>2. \A r \in listed : Position(r) < o
    BY <1>1, <2>1, EmptyPageIsLast
  <2>3. \A r \in listed : Position(r) < o + n
    <3>1. TAKE r \in listed
    <3>2. Position(r) < o /\ Position(r) \in Nat
      BY <2>2, PositionIsNat
    <3>3. QED
      BY <1>1, <3>2
  <2>4. QED
    BY <1>1, <2>3 DEF o
<1>4. CASE Items(p, walk.asked) # {}
  <2>1. p >= (size + n - 1) \div n
    BY <1>4 DEF TotalPages
  <2> HIDE DEF n, o, size, p
  <2>2. size + n - 1 \in Nat /\ p + 1 \in Nat /\ (size + n - 1) \div n \in Int
    BY <1>1, <1>2, SMT
  <2>3. (p + 1) * n <= size + n - 1 <=> p + 1 <= (size + n - 1) \div n
    BY <1>1, <2>2, DivFloor
  <2>4. ~ ((p + 1) * n <= size + n - 1)
    BY <1>1, <2>1, <2>2, <2>3
  <2>5. (p + 1) * n = p * n + n /\ p * n \in Nat
    BY <1>1, SMT
  <2>6. size <= p * n
    BY <1>1, <1>2, <2>4, <2>5
  <2>7. \A r \in listed : Position(r) < p * n
    <3>1. TAKE r \in listed
    <3>2. Position(r) < size /\ Position(r) \in Nat
      BY PositionIsNat, PositionsInside DEF size
    <3>3. QED
      BY <1>2, <2>5, <2>6, <3>2
  <2>8. QED
    BY <1>1, <2>7 DEF p
<1>5. QED
  BY <1>3, <1>4

LEMMA ReadsPageWalked ==
  ASSUME Walked, ReadsPage
  PROVE  Walked'
<1>1. TableOK /\ WalkOK /\ ~ walk.done /\ Cardinality(Passed) <= walk.departed
  BY DEF Walked, ReadsPage
<1> DEFINE items == Items(walk.page, walk.asked)
           last == walk.page >= TotalPages(walk.page, walk.asked)
<1>2. /\ stamp' = stamp /\ listed' = listed
      /\ walk' = [walk EXCEPT !.seen = @ \cup items, !.page = @ + 1, !.done = last]
  BY DEF ReadsPage
<1>3. items \subseteq RowId /\ last \in BOOLEAN
  BY <1>1 DEF Items, TableOK, Rows
<1> HIDE DEF items, last
<1>4. /\ walk'.page = walk.page + 1 /\ walk'.asked = walk.asked
      /\ walk'.seen = walk.seen \cup items /\ walk'.kept = walk.kept
      /\ walk'.departed = walk.departed /\ walk'.done = last
  BY <1>1, <1>2 DEF WalkOK
<1>5. TableOK'
  BY <1>1, <1>2 DEF TableOK, Rows
<1>6. WalkOK'
  <2>1. /\ walk.page + 1 \in Nat \ {0} /\ walk.seen \cup items \in SUBSET RowId
        /\ walk.kept \in SUBSET listed'
    BY <1>1, <1>2, <1>3 DEF WalkOK
  <2>2. QED
    BY <1>1, <1>2, <1>3, <2>1 DEF WalkOK
<1>7. \A r : Position(r)' = Position(r)
  BY <1>2 DEF Position, Newer
<1>8. Passed' \in SUBSET Passed
  <2>1. ASSUME NEW r \in Passed'
        PROVE  r \in Passed
    <3>1. /\ r \in walk.kept \ (walk.seen \cup items)
          /\ Position(r) < Offset(walk.page + 1, walk.asked)
      BY <1>4, <1>7 DEF Passed, Offset, Capped
    <3>2. QED
      BY <1>1, <3>1, PageSees DEF items
  <2>2. QED
    BY <2>1
<1>9. Cardinality(Passed') <= walk'.departed
  BY <1>1, <1>4, <1>8, PassedFinite, FS_Subset, FS_CardinalityType DEF WalkOK
<1>10. ASSUME last
       PROVE  Cardinality(walk'.kept \ walk'.seen) <= walk'.departed
  <2>1. \A r \in listed : Position(r) < Offset(walk.page + 1, walk.asked)
    BY <1>1, <1>10, LastPageIsLast DEF last
  <2>2. walk'.kept \ walk'.seen \in SUBSET Passed
    <3>1. ASSUME NEW r \in walk.kept \ (walk.seen \cup items)
          PROVE  r \in Passed
      <4>1. r \in listed
        BY <1>1 DEF WalkOK
      <4>2. QED
        BY <1>1, <2>1, <4>1, PageSees DEF items
    <3>2. QED
      BY <1>4, <3>1
  <2>3. QED
    BY <1>1, <1>4, <2>2, PassedFinite, FS_Subset, FS_CardinalityType DEF WalkOK
<1>11. QED
  BY <1>4, <1>5, <1>6, <1>9, <1>10 DEF Walked, WalkMissesDeparted

\* A row that joins the listing pushes others back, never forward.
LEMMA JoinsWalked ==
  ASSUME Walked, TableOK', walk' = walk, ~ walk.done,
         listed \subseteq listed', \A r \in listed : stamp'[r] = stamp[r]
  PROVE  Walked'
<1>1. TableOK /\ WalkOK /\ Cardinality(Passed) <= walk.departed
  BY DEF Walked
<1>2. WalkOK'
  BY <1>1 DEF WalkOK
<1>3. ASSUME NEW r \in listed
      PROVE  Position(r) <= Position(r)'
  <2>1. NewerThan(r) \in SUBSET NewerThan(r)'
    BY <1>3 DEF NewerThan, Newer
  <2>2. Position(r) = Cardinality(NewerThan(r))
    BY <1>1, PositionIsNat
  <2>3. IsFiniteSet(NewerThan(r)') /\ Position(r)' = Cardinality(NewerThan(r)')
    BY PositionsThere
  <2>4. QED
    BY <2>1, <2>2, <2>3, FS_Subset
<1>4. Passed' \in SUBSET Passed
  <2>1. ASSUME NEW r \in Passed'
        PROVE  r \in Passed
    <3>1. /\ r \in walk.kept \ walk.seen /\ r \in listed
          /\ Position(r)' < Offset(walk.page, walk.asked)
      BY <1>1 DEF Passed, Offset, Capped, WalkOK
    <3>2. Position(r) <= Position(r)' /\ Position(r) \in Nat
      BY <1>1, <1>3, <3>1, PositionIsNat
    <3>3. Position(r)' \in Nat
      BY PositionsThere
    <3>4. Offset(walk.page, walk.asked) \in Nat
      BY <1>1, PageOffsets
    <3>5. Position(r) < Offset(walk.page, walk.asked)
      BY <3>1, <3>2, <3>3, <3>4
    <3>6. QED
      BY <3>1, <3>5 DEF Passed
  <2>2. QED
    BY <2>1
<1>5. Cardinality(Passed') <= walk'.departed
  BY <1>1, <1>4, PassedFinite, FS_Subset, FS_CardinalityType DEF WalkOK
<1>6. QED
  BY <1>2, <1>5 DEF Walked, WalkMissesDeparted

LEMMA InsertedWalked ==
  ASSUME Walked, NEW r \in RowId, NEW t \in Instant, Inserted(r, t)
  PROVE  Walked'
<1>1. TableOK /\ WalkOK /\ r \notin Rows
  BY DEF Walked, Inserted, Rows
<1>2. /\ stamp' = [stamp EXCEPT ![r] = t] /\ listed' = listed \cup {r}
      /\ walk' = walk /\ ~ walk.done
  BY DEF Inserted
<1>3. \A s \in listed : s \in Rows /\ s # r /\ stamp'[s] = stamp[s]
  BY <1>1, <1>2 DEF TableOK, Rows
<1>4. stamp' \in [RowId -> Instant \cup {Ghost}] /\ stamp'[r] = t /\ t # Ghost
  BY <1>1, <1>2, ListingAssumption DEF TableOK
<1>5. listed' \subseteq Rows'
  BY <1>2, <1>3, <1>4 DEF Rows
<1>6. IsFiniteSet(listed')
  BY <1>1, <1>2, FS_AddElement DEF TableOK
<1>7. TableOK'
  BY <1>4, <1>5, <1>6 DEF TableOK
<1>8. QED
  BY <1>2, <1>3, <1>7, JoinsWalked

LEMMA EntersWalked ==
  ASSUME Walked, NEW r \in RowId, Enters(r)
  PROVE  Walked'
<1>1. TableOK /\ r \in Rows
  BY DEF Walked, Enters
<1>2. stamp' = stamp /\ listed' = listed \cup {r} /\ walk' = walk /\ ~ walk.done
  BY DEF Enters
<1>3. TableOK'
  <2>1. IsFiniteSet(listed')
    BY <1>1, <1>2, FS_AddElement DEF TableOK
  <2>2. QED
    BY <1>1, <1>2, <2>1 DEF TableOK, Rows
<1>4. QED
  BY <1>2, <1>3, JoinsWalked

\* A row that leaves brings at most one other in front of the page that is read next.
LEMMA DepartsWalked ==
  ASSUME Walked, NEW gone \in RowId, Departs(gone)
  PROVE  Walked'
<1> DEFINE o == Offset(walk.page, walk.asked)
           Edge == {r \in listed : Position(r) = o}
<1>1. TableOK /\ WalkOK /\ ~ walk.done /\ Cardinality(Passed) <= walk.departed
  BY DEF Walked, Departs
<1>2. /\ stamp' = stamp /\ listed' = listed \ {gone} /\ gone \in listed
      /\ walk' = [walk EXCEPT !.kept = @ \ {gone}, !.departed = @ + 1]
  BY DEF Departs
<1>3. /\ walk'.page = walk.page /\ walk'.asked = walk.asked /\ walk'.seen = walk.seen
      /\ walk'.kept = walk.kept \ {gone}
      /\ walk'.departed = walk.departed + 1 /\ walk'.done = walk.done
  BY <1>1, <1>2 DEF WalkOK
<1>4. TableOK'
  <2>1. IsFiniteSet(listed')
    BY <1>1, <1>2, FS_RemoveElement DEF TableOK
  <2>2. QED
    BY <1>1, <1>2, <2>1 DEF TableOK, Rows
<1>5. WalkOK'
  <2>1. walk.departed + 1 \in Nat /\ walk.kept \ {gone} \in SUBSET listed'
    BY <1>1, <1>2 DEF WalkOK
  <2>2. QED
    BY <1>1, <1>2, <2>1 DEF WalkOK
<1>6. o \in Nat
  BY <1>1, PageOffsets
<1>7. ASSUME NEW r \in listed
      PROVE  Position(r)' >= Position(r) - 1
  <2>1. NewerThan(r)' = NewerThan(r) \ {gone}
    BY <1>2 DEF NewerThan, Newer
  <2>2. /\ IsFiniteSet(NewerThan(r)) /\ Position(r) = Cardinality(NewerThan(r))
        /\ Position(r) \in Nat
    BY <1>1, PositionIsNat
  <2>3. Position(r)' = Cardinality(NewerThan(r)') /\ Position(r)' \in Nat
    BY <1>4, PositionsThere
  <2>4. Cardinality(NewerThan(r) \ {gone}) = IF gone \in NewerThan(r)
                                               THEN Cardinality(NewerThan(r)) - 1
                                               ELSE Cardinality(NewerThan(r))
    BY <2>2, FS_RemoveElement
  <2>5. QED
    BY <2>1, <2>2, <2>3, <2>4
<1>8. Passed' \subseteq Passed \cup Edge
  <2>1. ASSUME NEW r \in Passed'
        PROVE  r \in Passed \cup Edge
    <3>1. r \in walk.kept \ walk.seen /\ r \in listed /\ Position(r)' < o
      BY <1>1, <1>3 DEF Passed, Offset, Capped, WalkOK
    <3>2. Position(r)' >= Position(r) - 1 /\ Position(r) \in Nat /\ Position(r)' \in Nat
      BY <1>1, <1>4, <1>7, <3>1, PositionIsNat, PositionsThere
    <3> HIDE DEF o
    <3>3. Position(r) < o \/ Position(r) = o
      BY <1>6, <3>1, <3>2
    <3>4. QED
      BY <3>1, <3>3 DEF Passed, o
  <2>2. QED
    BY <2>1
<1>9. IsFiniteSet(Passed) /\ Cardinality(Passed) \in Nat /\ walk.departed \in Nat
  BY <1>1, PassedFinite DEF WalkOK
<1> HIDE DEF Edge, o
<1>10. Cardinality(Passed') <= walk'.departed
  <2>1. CASE Edge = {}
    <3>1. Passed' \in SUBSET Passed
      BY <1>8, <2>1
    <3>2. Cardinality(Passed') <= Cardinality(Passed) /\ Cardinality(Passed') \in Nat
      BY <1>9, <3>1, FS_Subset, FS_CardinalityType
    <3>3. QED
      BY <1>1, <1>3, <1>9, <3>2
  <2>2. CASE Edge # {}
    <3>1. PICK e : e \in Edge
      BY <2>2
    <3>2. Edge = {e}
      BY <1>1, <3>1, PositionsUnique DEF Edge
    <3>3. Passed' \in SUBSET (Passed \cup {e})
      BY <1>8, <3>2
    <3>4. /\ IsFiniteSet(Passed \cup {e})
          /\ Cardinality(Passed \cup {e}) \in {Cardinality(Passed), Cardinality(Passed) + 1}
      BY <1>9, FS_AddElement
    <3>5. /\ Cardinality(Passed') <= Cardinality(Passed \cup {e})
          /\ Cardinality(Passed') \in Nat
      BY <3>3, <3>4, FS_Subset, FS_CardinalityType
    <3>6. QED
      BY <1>1, <1>3, <1>9, <3>4, <3>5
  <2>3. QED
    BY <2>1, <2>2
<1>11. QED
  BY <1>1, <1>3, <1>4, <1>5, <1>10 DEF Walked, WalkMissesDeparted

\* A table begins with finitely many rows.
LEMMA StampsFinite ==
  ASSUME stamp \in Stamps \cup {NoRowYet}
  PROVE  stamp \in [RowId -> Instant \cup {Ghost}] /\ IsFiniteSet(Rows)
<1>1. CASE stamp = NoRowYet
  <2>1. Rows = {}
    BY <1>1 DEF Rows, NoRowYet
  <2>2. QED
    BY <1>1, <2>1, FS_EmptySet DEF NoRowYet
<1>2. CASE stamp \in Stamps
  <2>0. PICK n \in {0} \cup RowId :
          stamp \in {[r \in RowId |-> IF r \in DOMAIN f THEN f[r] ELSE Ghost] :
                      f \in [{r \in RowId : r <= n} -> Instant]}
    BY <1>2 DEF Stamps
  <2>1. PICK f \in [{r \in RowId : r <= n} -> Instant] :
          stamp = [r \in RowId |-> IF r \in DOMAIN f THEN f[r] ELSE Ghost]
    BY <2>0
  <2>2. stamp \in [RowId -> Instant \cup {Ghost}]
    BY <2>1
  <2>3. n \in Nat /\ RowId \subseteq Nat
    BY ListingAssumption
  <2>4. \A r \in Rows : r \in Nat /\ r <= n
    BY <2>1, <2>3 DEF Rows
  <2>5. IsFiniteSet(Rows)
    BY <2>3, <2>4, FS_BoundedSetOfNaturals
  <2>6. QED
    BY <2>2, <2>5
<1>3. QED
  BY <1>1, <1>2

LEMMA InitWalked == Init => Walked
<1> SUFFICES ASSUME Init PROVE Walked
  OBVIOUS
<1>1. /\ stamp \in Stamps \cup {NoRowYet} /\ listed \in SUBSET Rows
      /\ walk \in {[page |-> 1, asked |-> n, seen |-> {}, kept |-> listed, departed |-> 0,
                    done |-> FALSE] : n \in AskedLimits}
  BY ReadsAssumption DEF Init, ListInit
<1>2. TableOK
  <2>1. stamp \in [RowId -> Instant \cup {Ghost}] /\ IsFiniteSet(Rows)
    BY <1>1, StampsFinite
  <2>2. QED
    BY <1>1, <2>1, FS_Subset DEF TableOK
<1>3. PICK n \in Nat \ {0} :
        walk = [page |-> 1, asked |-> n, seen |-> {}, kept |-> listed, departed |-> 0,
                done |-> FALSE]
  BY <1>1, ReadsAssumption
<1>4. WalkOK
  BY <1>3 DEF WalkOK
<1>5. Passed = {}
  <2>1. Offset(walk.page, walk.asked) = 0
    <3>1. walk.page = 1 /\ Capped(walk.asked) \in Nat
      BY <1>3, <1>4, PageOffsets
    <3>2. QED
      BY <3>1 DEF Offset
  <2>2. \A r : Position(r) \in Nat
    BY <1>2, PositionIsNat
  <2>3. QED
    BY <2>1, <2>2 DEF Passed
<1>6. QED
  BY <1>2, <1>3, <1>4, <1>5, FS_EmptySet DEF Walked, WalkMissesDeparted

LEMMA NextWalked == Walked /\ [Next]_vars => Walked'
<1> SUFFICES ASSUME Walked, [Next]_vars PROVE Walked'
  OBVIOUS
<1>1. CASE UNCHANGED listVars
  BY <1>1 DEF listVars, Walked, TableOK, WalkOK, Rows, Passed, Position, Newer, Offset, Capped,
              WalkMissesDeparted
<1>2. CASE ListNext
  BY <1>2, ReadsPageWalked, InsertedWalked, EntersWalked, DepartsWalked DEF ListNext
<1>3. QED
  BY <1>1, <1>2 DEF Next, vars

\* A walk misses a row that was listed from its beginning to its end only when another
\* row left the listing meanwhile, and no more rows than left.
THEOREM MissesAreDepartures == Spec => []WalkMissesDeparted
<1>1. Walked => WalkMissesDeparted
  BY DEF Walked
<1>2. QED
  BY <1>1, InitWalked, NextWalked, PTL DEF Spec

-----------------------------------------------------------------------------
(* Exports meet *)

LEMMA WalkedExportsMeet == Walked => ExportsMeet
<1> SUFFICES ASSUME Walked, NEW from \in Days, NEW last \in Days, NEW to \in Days,
                    from <= last, last < to
             PROVE  /\ Exported(from, last) \cap Exported(last + 1, to) = {}
                    /\ Exported(from, last) \cup Exported(last + 1, to)
                         = {r \in Rows : stamp[r] \div InstantsOfDay \in from..to}
  BY DEF ExportsMeet, Allowed
<1>1. InstantsOfDay \in Nat \ {0}
  BY ListingAssumption
<1>2. from \in Nat /\ last \in Nat /\ to \in Nat
  <2>1. \A t \in Instant : t \in Nat
    BY ListingAssumption
  <2>2. \A t \in Nat : t \div InstantsOfDay \in Nat
    BY <1>1, SMT
  <2>3. QED
    BY <2>1, <2>2 DEF Days
<1>3. ASSUME NEW r \in Rows, NEW a \in Nat, NEW b \in Nat
      PROVE  r \in Exported(a, b) <=> a <= stamp[r] \div InstantsOfDay
                                      /\ stamp[r] \div InstantsOfDay <= b
  <2> DEFINE s == stamp[r]
             q == s \div InstantsOfDay
  <2>1. s \in Nat
    BY RowTimes DEF Walked
  <2> HIDE DEF s
  <2>2. a * InstantsOfDay <= s <=> a <= q
    BY <1>1, <2>1, DivFloor
  <2>3. (b + 1) * InstantsOfDay <= s <=> b + 1 <= q
    BY <1>1, <2>1, DivFloor
  <2>4. q \in Int /\ (b + 1) * InstantsOfDay \in Int
    BY <1>1, <2>1, SMT
  <2> HIDE DEF q
  <2> DEFINE end == (b + 1) * InstantsOfDay
  <2> HIDE DEF end
  <2>5. s < end <=> q <= b
    <3>1. end <= s <=> b + 1 <= q
      BY <2>3 DEF end
    <3>2. end \in Int
      BY <2>4 DEF end
    <3>3. QED
      BY <2>1, <2>4, <3>1, <3>2
  <2>6. r \in Exported(a, b) <=> a * InstantsOfDay <= s /\ s < end
    BY DEF Exported, s, end
  <2>7. QED
    BY <2>2, <2>5, <2>6 DEF q, s
<1> DEFINE day(r) == stamp[r] \div InstantsOfDay
<1>4. ASSUME NEW r \in Rows
      PROVE  /\ day(r) \in Int
             /\ r \in Exported(from, last) <=> from <= day(r) /\ day(r) <= last
             /\ r \in Exported(last + 1, to) <=> last + 1 <= day(r) /\ day(r) <= to
  <2>1. stamp[r] \in Nat
    BY RowTimes DEF Walked
  <2>2. day(r) \in Int
    BY <1>1, <2>1, SMT
  <2>3. last + 1 \in Nat
    BY <1>2
  <2>4. QED
    BY <1>2, <1>3, <2>2, <2>3
<1>5. Exported(from, last) \subseteq Rows /\ Exported(last + 1, to) \subseteq Rows
  BY DEF Exported
<1> HIDE DEF day
<1>6. Exported(from, last) \cap Exported(last + 1, to) = {}
  <2>1. ASSUME NEW r \in Exported(from, last), r \in Exported(last + 1, to)
        PROVE  FALSE
    <3>1. day(r) \in Int /\ day(r) <= last /\ last + 1 <= day(r)
      BY <1>4, <1>5, <2>1
    <3>2. QED
      BY <1>2, <3>1
  <2>2. QED
    BY <2>1
<1>7. ASSUME NEW r \in Rows
      PROVE  r \in Exported(from, last) \/ r \in Exported(last + 1, to)
               <=> day(r) \in from..to
  BY <1>2, <1>4
<1>8. Exported(from, last) \cup Exported(last + 1, to) = {r \in Rows : day(r) \in from..to}
  BY <1>5, <1>7
<1>9. QED
  BY <1>6, <1>8 DEF day

\* Exports of consecutive date ranges share no row and lose none, on any day and at any
\* instant of it, however long a day is and however the wanted range is cut.
THEOREM ExportsAlwaysMeet == Spec => []ExportsMeet
BY WalkedExportsMeet, InitWalked, NextWalked, PTL DEF Spec

-----------------------------------------------------------------------------
(* The order of the search results *)

RegistryOK ==
  /\ DOMAIN scores = DOMAIN Registry
  /\ scores \in [DOMAIN Registry -> Nat]

\* Whoever is asked for by name has the points of a name.
Scored ==
  /\ RegistryOK
  /\ \A i \in Named : scores[i] >= directNameScore

AheadOf(i, S) == {j \in S : Ahead(j, i)}

LEMMA RegistryEntries ==
  /\ Registry \in Seq(EntryType)
  /\ DOMAIN Registry = 1..Len(Registry) /\ Len(Registry) \in Nat
  /\ \A i \in DOMAIN Exercises : i \in DOMAIN Registry /\ Registry[i] = Exercises[i]
  /\ \A i \in DOMAIN Registry : IsExercise(i) <=> i \in DOMAIN Exercises
<1>1. Exercises \in Seq(EntryType) /\ Concepts \in Seq(EntryType)
  BY RegistryAssumption
<1> HIDE DEF EntryType
<1>2. QED
  BY <1>1 DEF Registry, IsExercise

LEMMA AheadIsAnOrder ==
  ASSUME RegistryOK, NEW i \in DOMAIN Registry, NEW j \in DOMAIN Registry,
         NEW k \in DOMAIN Registry
  PROVE  /\ ~ Ahead(i, i)
         /\ i = j \/ Ahead(i, j) \/ Ahead(j, i)
         /\ Ahead(i, j) /\ Ahead(j, k) => Ahead(i, k)
<1>1. i \in Nat /\ j \in Nat /\ k \in Nat
  BY RegistryEntries
<1>2. scores[i] \in Nat /\ scores[j] \in Nat /\ scores[k] \in Nat
  BY DEF RegistryOK
<1>3. QED
  BY <1>1, <1>2 DEF Ahead

LEMMA RankIsNat ==
  ASSUME NEW S \in SUBSET DOMAIN Registry, NEW i
  PROVE  /\ IsFiniteSet(S) /\ Cardinality(S) \in Nat
         /\ IsFiniteSet(AheadOf(i, S))
         /\ Rank(i, S) = Cardinality(AheadOf(i, S)) /\ Rank(i, S) \in Nat
<1>1. IsFiniteSet(DOMAIN Registry)
  BY RegistryEntries, FS_Interval
<1>2. IsFiniteSet(S) /\ AheadOf(i, S) \in SUBSET S
  BY <1>1, FS_Subset DEF AheadOf
<1>3. IsFiniteSet(AheadOf(i, S)) /\ Rank(i, S) = Cardinality(AheadOf(i, S))
  BY <1>2, FS_Subset DEF Rank, AheadOf
<1>4. QED
  BY <1>2, <1>3, FS_CardinalityType

\* An entry that is ahead of another has the smaller rank.
LEMMA RanksGrow ==
  ASSUME RegistryOK, NEW S \in SUBSET DOMAIN Registry, NEW i \in S, NEW j \in S, Ahead(i, j)
  PROVE  Rank(i, S) < Rank(j, S)
<1>1. AheadOf(i, S) \in SUBSET AheadOf(j, S)
  BY AheadIsAnOrder DEF AheadOf
<1>2. i \in AheadOf(j, S) /\ i \notin AheadOf(i, S)
  BY AheadIsAnOrder DEF AheadOf
<1>3. /\ Cardinality(AheadOf(i, S)) <= Cardinality(AheadOf(j, S))
      /\ Cardinality(AheadOf(i, S)) # Cardinality(AheadOf(j, S))
  BY <1>1, <1>2, RankIsNat, FS_Subset
<1>4. QED
  BY <1>3, RankIsNat

LEMMA RanksUnique ==
  ASSUME RegistryOK, NEW S \in SUBSET DOMAIN Registry, NEW i \in S, NEW j \in S
  PROVE  /\ Rank(i, S) = Rank(j, S) => i = j
         /\ Rank(i, S) < Rank(j, S) => Ahead(i, j)
<1>1. Rank(i, S) \in Nat /\ Rank(j, S) \in Nat
  BY RankIsNat
<1>2. ~ (Ahead(i, j) /\ Rank(i, S) >= Rank(j, S)) /\ ~ (Ahead(j, i) /\ Rank(j, S) >= Rank(i, S))
  BY <1>1, RanksGrow
<1>3. i = j \/ Ahead(i, j) \/ Ahead(j, i)
  BY AheadIsAnOrder
<1>4. QED
  BY <1>1, <1>2, <1>3

LEMMA RanksInside ==
  ASSUME RegistryOK, NEW S \in SUBSET DOMAIN Registry, NEW i \in S
  PROVE  Rank(i, S) \in 0..(Cardinality(S) - 1)
<1>1. AheadOf(i, S) \in SUBSET S /\ i \notin AheadOf(i, S)
  BY AheadIsAnOrder DEF AheadOf
<1>2. Cardinality(AheadOf(i, S)) <= Cardinality(S) /\ Cardinality(AheadOf(i, S)) # Cardinality(S)
  BY <1>1, RankIsNat, FS_Subset
<1>3. QED
  BY <1>2, RankIsNat

\* Every place is taken: as many ranks as entries, and no two entries share one.
LEMMA RanksTaken ==
  ASSUME RegistryOK, NEW S \in SUBSET DOMAIN Registry, NEW m \in 0..(Cardinality(S) - 1)
  PROVE  \E i \in S : Rank(i, S) = m
<1> DEFINE places == 0..(Cardinality(S) - 1)
           f == [i \in S |-> Rank(i, S)]
<1>1. IsFiniteSet(S) /\ Cardinality(S) \in Nat
  BY RankIsNat
<1>2. IsFiniteSet(places) /\ Cardinality(places) = Cardinality(S)
  BY <1>1, FS_Interval
<1>3. f \in Injection(S, places)
  <2>1. f \in [S -> places]
    BY RanksInside
  <2>2. \A i, j \in S : f[i] = f[j] => i = j
    BY RanksUnique
  <2>3. QED
    BY <2>1, <2>2 DEF Injection, IsInjective
<1> HIDE DEF places, f
<1>4. f \in Surjection(S, places)
  BY <1>2, <1>3, FS_Injection
<1>5. PICK i \in S : f[i] = m
  BY <1>4 DEF Surjection, places
<1>6. QED
  BY <1>5 DEF f

\* What InOrder lists: every entry of the set once, at its rank.
LEMMA InOrderLists ==
  ASSUME RegistryOK, NEW S \in SUBSET DOMAIN Registry
  PROVE  /\ InOrder(S) \in Seq(S) /\ Len(InOrder(S)) = Cardinality(S)
         /\ \A k \in 1..Cardinality(S) :
              InOrder(S)[k] \in S /\ Rank(InOrder(S)[k], S) = k - 1
         /\ \A i \in S :
              Rank(i, S) + 1 \in 1..Cardinality(S) /\ InOrder(S)[Rank(i, S) + 1] = i
<1>1. Cardinality(S) \in Nat
  BY RankIsNat
<1>2. \A k \in 1..Cardinality(S) : InOrder(S)[k] \in S /\ Rank(InOrder(S)[k], S) = k - 1
  <2>1. TAKE k \in 1..Cardinality(S)
  <2>2. k - 1 \in 0..(Cardinality(S) - 1)
    BY <1>1
  <2>3. \E i \in S : Rank(i, S) = k - 1
    BY <2>2, RanksTaken
  <2>4. InOrder(S)[k] = CHOOSE i \in S : Rank(i, S) = k - 1
    BY DEF InOrder
  <2>5. QED
    BY <2>3, <2>4
<1>3. InOrder(S) \in [1..Cardinality(S) -> S]
  BY <1>2 DEF InOrder
<1>4. InOrder(S) \in Seq(S) /\ Len(InOrder(S)) = Cardinality(S)
  BY <1>1, <1>3
<1>5. ASSUME NEW i \in S
      PROVE  Rank(i, S) + 1 \in 1..Cardinality(S) /\ InOrder(S)[Rank(i, S) + 1] = i
  <2>1. Rank(i, S) \in 0..(Cardinality(S) - 1)
    BY RanksInside
  <2>2. Rank(i, S) + 1 \in 1..Cardinality(S) /\ (Rank(i, S) + 1) - 1 = Rank(i, S)
    BY <1>1, <2>1
  <2>3. /\ InOrder(S)[Rank(i, S) + 1] \in S
        /\ Rank(InOrder(S)[Rank(i, S) + 1], S) = Rank(i, S)
    BY <1>2, <2>2
  <2>4. QED
    BY <2>2, <2>3, RanksUnique
<1>6. QED
  BY <1>2, <1>4, <1>5

-----------------------------------------------------------------------------
(* The points of an entry *)

LEMMA CreditIsNat ==
  ASSUME NEW points \in Nat, NEW list \in Seq(STRING), NEW found
  PROVE  Credit(points, list, found) \in Nat
<1> DEFINE hit == {n \in DOMAIN list : list[n] \in found}
<1>1. IsFiniteSet(DOMAIN list)
  <2>1. DOMAIN list = 1..Len(list) /\ Len(list) \in Nat
    OBVIOUS
  <2>2. QED
    BY <2>1, FS_Interval
<1>2. hit \in SUBSET DOMAIN list
  OBVIOUS
<1> HIDE DEF hit
<1>3. Cardinality(hit) \in Nat
  BY <1>1, <1>2, FS_Subset, FS_CardinalityType
<1>4. points * Cardinality(hit) \in Nat
  BY <1>3, SMT
<1>5. QED
  BY <1>4 DEF Credit, hit

LEMMA NamesScore ==
  ASSUME NEW entry \in EntryType, NEW said, NEW heard
  PROVE  /\ Score(entry, said, heard) \in Nat
         /\ entry.name \in said => Score(entry, said, heard) >= directNameScore
<1>1. entry.keywords \in Seq(STRING) /\ entry.description \in Seq(STRING)
  BY DEF EntryType
<1> DEFINE kw == Credit(10, entry.keywords, heard)
           ds == Credit(2, entry.description, said)
<1>2. kw \in Nat /\ ds \in Nat
  BY <1>1, CreditIsNat
<1> HIDE DEF kw, ds
<1>3. Score(entry, said, heard) = NameHit(entry, said, heard)
        + (IF entry.display # entry.name /\ entry.display \in said THEN 50 ELSE 0) + kw + ds
  BY DEF Score, kw, ds
<1>4. QED
  BY <1>2, <1>3 DEF NameHit, directNameScore

LEMMA AskedScored ==
  ASSUME NEW said, NEW heard, SearchInit(said, heard)
  PROVE  Scored
<1>1. words = said /\ scores = [i \in DOMAIN Registry |-> Score(Registry[i], said, heard)]
  BY DEF SearchInit
<1>2. \A i \in DOMAIN Registry : Registry[i] \in EntryType
  <2> HIDE DEF Registry, EntryType
  <2>1. QED
    BY RegistryEntries
<1>3. RegistryOK
  BY <1>1, <1>2, NamesScore DEF RegistryOK
<1>4. ASSUME NEW i \in Named
      PROVE  scores[i] >= directNameScore
  <2>1. i \in DOMAIN Registry /\ Registry[i].name \in said
    BY <1>1 DEF Named
  <2>2. QED
    BY <1>1, <1>2, <2>1, NamesScore
<1>5. QED
  BY <1>3, <1>4 DEF Scored

LEMMA InitScored == Init => Scored
BY AskedScored DEF Init, AnyQuestion, Asked

LEMMA NextScored == Scored /\ [Next]_vars => Scored'
<1> SUFFICES ASSUME Scored, [Next]_vars PROVE Scored'
  OBVIOUS
<1>1. words' = words /\ scores' = scores
  BY DEF Next, vars, searchVars
<1>2. QED
  BY <1>1 DEF Scored, RegistryOK, Named, Registry, directNameScore

Hits == {i \in DOMAIN scores : scores[i] > 0}

\* What the results are: the first of all entries with a point.
LEMMA SearchResults ==
  ASSUME RegistryOK, NEW max \in Nat
  PROVE  /\ Hits \in SUBSET DOMAIN Registry /\ Cardinality(Hits) \in Nat
         /\ DOMAIN Search(max) = {k \in 1..Cardinality(Hits) : k <= max}
         /\ \A k \in DOMAIN Search(max) : /\ Search(max)[k] \in Hits
                                          /\ Rank(Search(max)[k], Hits) = k - 1
         /\ \A i \in Hits : Rank(i, Hits) + 1 \in DOMAIN Search(max) =>
                              Search(max)[Rank(i, Hits) + 1] = i
<1>1. Hits \in SUBSET DOMAIN Registry
  BY DEF Hits, RegistryOK
<1>2. Cardinality(Hits) \in Nat
  BY <1>1, RankIsNat
<1>3. Search(max) = [k \in {n \in 1..Cardinality(Hits) : n <= max} |-> InOrder(Hits)[k]]
  BY DEF Search, Hits
<1>4. QED
  BY <1>1, <1>2, <1>3, InOrderLists

-----------------------------------------------------------------------------
(* The entries asked for by name *)

\* No entry reaches the points of a name by its display name, keywords and description
\* alone.
KeywordsStayBelow == \A i \in DOMAIN Registry : i \notin Named => scores[i] < directNameScore

LEMMA ScoredNamesFirst == Scored /\ KeywordsStayBelow => NamedReferenced
<1> SUFFICES ASSUME Scored, KeywordsStayBelow, NEW k \in 1..2, k <= Cardinality(Named)
             PROVE  k \in DOMAIN Search(2) /\ Search(2)[k] \in Named
  BY DEF NamedReferenced
<1>1. RegistryOK
  BY DEF Scored
<1>2. /\ Hits \in SUBSET DOMAIN Registry /\ Cardinality(Hits) \in Nat
      /\ DOMAIN Search(2) = {n \in 1..Cardinality(Hits) : n <= 2}
      /\ \A n \in DOMAIN Search(2) : Search(2)[n] \in Hits /\ Rank(Search(2)[n], Hits) = n - 1
  BY <1>1, SearchResults
<1>3. Named \in SUBSET Hits
  BY DEF Named, Hits, Scored, RegistryOK, directNameScore
<1>4. Cardinality(Named) \in Nat /\ Cardinality(Named) <= Cardinality(Hits)
  BY <1>2, <1>3, RankIsNat, FS_Subset
<1>5. k \in DOMAIN Search(2)
  BY <1>2, <1>4
<1>6. PICK x \in Hits : x = Search(2)[k] /\ Rank(x, Hits) = k - 1
  BY <1>2, <1>5
<1>7. ASSUME x \notin Named
      PROVE  FALSE
  <2>1. Named \in SUBSET AheadOf(x, Hits)
    <3>1. ASSUME NEW i \in Named
          PROVE  Ahead(i, x)
      <4>1. scores[i] \in Nat /\ scores[x] \in Nat
        BY <1>1, <1>2, <1>3 DEF RegistryOK
      <4>2. scores[i] >= directNameScore /\ scores[x] < directNameScore
        BY <1>2, <1>7 DEF Scored, KeywordsStayBelow
      <4>3. QED
        BY <4>1, <4>2 DEF Ahead, directNameScore
    <3>2. QED
      BY <1>3, <3>1 DEF AheadOf
  <2>2. Cardinality(Named) <= Cardinality(AheadOf(x, Hits))
    BY <1>2, <2>1, RankIsNat, FS_Subset
  <2>3. QED
    BY <1>2, <1>4, <1>6, <2>2, RankIsNat
<1>8. QED
  BY <1>5, <1>6, <1>7

\* Whatever the registry holds: as long as no entry reaches the points of a name without
\* being named, the entries a question names come first in the reference of two, as many
\* as fit (knowledge.go:107-145, ai_service.go:512). The questions of the model meet the
\* condition; one that mentions ten keywords of an entry may not.
THEOREM NamesComeFirst == Spec => [](KeywordsStayBelow => NamedAreReferenced)
<1>1. Scored => (KeywordsStayBelow => NamedAreReferenced)
  BY ScoredNamesFirst DEF NamedAreReferenced
<1>2. QED
  BY <1>1, InitScored, NextScored, PTL DEF Spec

-----------------------------------------------------------------------------
(* The choice the student is offered *)

\* No entry of the registry has more points than the first result.
LEMMA FirstIsBest ==
  ASSUME RegistryOK, 1 \in DOMAIN Search(5), NEW j \in DOMAIN Registry
  PROVE  scores[j] <= scores[Search(5)[1]]
<1> DEFINE first == Search(5)[1]
<1>1. first \in Hits /\ Rank(first, Hits) = 0 /\ Hits \in SUBSET DOMAIN Registry
  <2>1. 5 \in Nat /\ 1 - 1 = 0
    OBVIOUS
  <2>2. QED
    BY <2>1, SearchResults
<1> HIDE DEF first
<1>2. scores[first] \in Nat /\ scores[j] \in Nat /\ scores[first] > 0
  BY <1>1 DEF Hits, RegistryOK
<1>3. CASE j \in Hits
  <2>1. ~ Ahead(j, first)
    <3>1. Rank(j, Hits) \in Nat
      BY <1>1, RankIsNat
    <3>2. QED
      BY <1>1, <1>3, <3>1, RanksGrow
  <2>2. QED
    BY <1>2, <2>1 DEF Ahead, first
<1>4. CASE j \notin Hits
  BY <1>2, <1>4 DEF Hits, RegistryOK, first
<1>5. QED
  BY <1>3, <1>4

LEMMA ScoredChoiceFair == Scored => ChoiceFair
<1> DEFINE matches == Search(5)
           top     == scores[matches[1]]
           tie     == {n \in DOMAIN matches : \A h \in 1..n : scores[matches[h]] = top}
           E       == {i \in {matches[n] : n \in tie} : IsExercise(i)}
           offered == Disambiguate
           best    == {i \in DOMAIN Exercises : \A j \in DOMAIN Registry : scores[j] <= scores[i]}
<1> SUFFICES ASSUME Scored, offered # <<>>
             PROVE  /\ Named = {}
                    /\ Len(offered) >= 2
                    /\ \A k \in DOMAIN offered :
                         /\ offered[k] \in best
                         /\ {i \in best : i < offered[k]} = {offered[h] : h \in 1..(k - 1)}
  BY DEF ChoiceFair
<1>1. RegistryOK
  BY DEF Scored
<1>2. /\ Cardinality(DOMAIN matches) >= 2
      /\ top \in ambiguityFloor..(directNameScore - 1)
      /\ Len(InOrder(E)) >= 2
      /\ offered = InOrder(E)
  BY DEF Disambiguate
<1>3. /\ Hits \in SUBSET DOMAIN Registry /\ Cardinality(Hits) \in Nat
      /\ DOMAIN matches = {k \in 1..Cardinality(Hits) : k <= 5}
      /\ \A k \in DOMAIN matches : matches[k] \in Hits /\ Rank(matches[k], Hits) = k - 1
      /\ \A i \in Hits : Rank(i, Hits) + 1 \in DOMAIN matches => matches[Rank(i, Hits) + 1] = i
  BY <1>1, SearchResults
<1> HIDE DEF matches, top, offered
<1>4. 1 \in DOMAIN matches
  <2>1. DOMAIN matches # {}
    <3>1. Cardinality(DOMAIN matches) # 0
      BY <1>2
    <3>2. QED
      BY <3>1, FS_EmptySet
  <2>2. PICK k \in DOMAIN matches : TRUE
    BY <2>1
  <2>3. k \in 1..Cardinality(Hits)
    BY <1>3, <2>2
  <2>4. 1 \in 1..Cardinality(Hits) /\ 1 <= 5
    BY <1>3, <2>3
  <2>5. QED
    BY <1>3, <2>4
<1>5. top \in Nat /\ top < 100 /\ top > 0
  <2>1. top \in ambiguityFloor..(directNameScore - 1)
    BY <1>2
  <2>2. ambiguityFloor = 10 /\ directNameScore = 100
    BY DEF ambiguityFloor, directNameScore
  <2>3. QED
    BY <2>1, <2>2
<1>6. \A j \in DOMAIN Registry : scores[j] \in Nat /\ scores[j] <= top
  BY <1>1, <1>4, FirstIsBest DEF RegistryOK, matches, top
<1>7. ASSUME NEW i \in E
      PROVE  i \in Hits /\ i \in DOMAIN Exercises /\ scores[i] = top
  <2>1. PICK n \in tie : i = matches[n]
    BY <1>7
  <2>2. n \in DOMAIN matches /\ n \in 1..n
    BY <1>3, <2>1
  <2>3. QED
    BY <1>3, <1>7, <2>1, <2>2, RegistryEntries
<1>8. \A i \in best : i \in DOMAIN Exercises /\ i \in DOMAIN Registry /\ i \in Hits /\ scores[i] = top
  <2>1. TAKE i \in best
  <2>2. i \in DOMAIN Exercises /\ i \in DOMAIN Registry /\ scores[i] \in Nat /\ scores[i] <= top
    BY <1>6, RegistryEntries
  <2>3. matches[1] \in DOMAIN Registry
    BY <1>3, <1>4
  <2>4. top <= scores[i]
    BY <2>3 DEF top
  <2>5. scores[i] = top
    BY <1>5, <2>2, <2>4
  <2>6. QED
    BY <1>1, <1>5, <2>2, <2>5 DEF Hits, RegistryOK
<1>9. E \in SUBSET DOMAIN Registry /\ E \subseteq best
  BY <1>3, <1>6, <1>7
<1>10. /\ Len(offered) = Cardinality(E) /\ DOMAIN offered = 1..Cardinality(E)
       /\ \A k \in 1..Cardinality(E) : offered[k] \in E /\ Rank(offered[k], E) = k - 1
       /\ \A i \in E : Rank(i, E) + 1 \in 1..Cardinality(E) /\ offered[Rank(i, E) + 1] = i
  <2> HIDE DEF E
  <2>1. QED
    BY <1>1, <1>2, <1>9, InOrderLists
<1>11. ASSUME NEW i \in best, NEW e \in E, i < e
       PROVE  i \in E /\ Ahead(i, e)
  <2>1. PICK m \in tie : e = matches[m]
    BY <1>11
  <2>2. m \in DOMAIN matches /\ e \in Hits /\ Rank(e, Hits) = m - 1
    BY <1>3, <2>1
  <2>3. i \in Hits /\ i \in DOMAIN Exercises /\ scores[i] = top /\ scores[e] = top
    BY <1>7, <1>8
  <2>4. Ahead(i, e)
    BY <1>11, <2>3 DEF Ahead
  <2>5. Rank(i, Hits) < Rank(e, Hits) /\ Rank(i, Hits) \in Nat
    BY <1>1, <1>3, <2>2, <2>3, <2>4, RanksGrow, RankIsNat
  <2> DEFINE n == Rank(i, Hits) + 1
  <2>6. n \in DOMAIN matches /\ n < m
    BY <1>3, <2>2, <2>5
  <2>7. matches[n] = i
    BY <1>3, <2>3, <2>6
  <2>8. n \in tie
    <3>1. \A h \in 1..n : h \in 1..m
      BY <1>3, <2>2, <2>6
    <3>2. QED
      BY <2>1, <2>6, <3>1
  <2>9. IsExercise(i)
    BY <2>3, RegistryEntries
  <2> HIDE DEF n
  <2>10. QED
    BY <2>4, <2>7, <2>8, <2>9
<1> HIDE DEF E, tie, best
<1>12. ASSUME NEW k \in DOMAIN offered
       PROVE  {i \in best : i < offered[k]} = {offered[h] : h \in 1..(k - 1)}
  <2>1. k \in 1..Cardinality(E) /\ offered[k] \in E /\ Rank(offered[k], E) = k - 1
    BY <1>10
  <2>2. Cardinality(E) \in Nat
    BY <1>9, RankIsNat
  <2>3. ASSUME NEW h \in 1..(k - 1)
        PROVE  offered[h] \in best /\ offered[h] < offered[k]
    <3>1. h \in 1..Cardinality(E) /\ h < k
      BY <2>1, <2>2
    <3>2. offered[h] \in E /\ Rank(offered[h], E) = h - 1
      BY <1>10, <3>1
    <3>3. Ahead(offered[h], offered[k])
      BY <1>1, <1>9, <2>1, <2>2, <3>1, <3>2, RanksUnique
    <3>4. QED
      BY <1>5, <1>7, <1>9, <2>1, <3>2, <3>3 DEF Ahead
  <2>4. ASSUME NEW i \in best, i < offered[k]
        PROVE  \E h \in 1..(k - 1) : i = offered[h]
    <3>1. i \in E /\ Ahead(i, offered[k])
      BY <1>11, <2>1, <2>4
    <3>2. Rank(i, E) < k - 1 /\ Rank(i, E) \in Nat
      BY <1>1, <1>9, <2>1, <3>1, RanksGrow, RankIsNat
    <3>3. Rank(i, E) + 1 \in 1..(k - 1) /\ offered[Rank(i, E) + 1] = i
      BY <1>10, <2>1, <3>1, <3>2
    <3>4. QED
      BY <3>3
  <2>5. QED
    BY <2>3, <2>4
<1>13. Named = {}
  <2>1. ASSUME NEW i \in Named
        PROVE  FALSE
    <3>1. i \in DOMAIN Registry /\ scores[i] >= 100
      BY RegistryEntries DEF Named, Scored, directNameScore
    <3>2. QED
      BY <1>5, <1>6, <3>1
  <2>2. QED
    BY <2>1
<1>14. QED
  BY <1>2, <1>9, <1>10, <1>12, <1>13

\* Whatever the registry holds, whatever words a question has and whatever keywords are
\* heard in it: the student is asked back only when nothing was named, and then to
\* choose among exercises no entry of the registry beats, in registry order from the
\* first of them, although only five results were looked at (knowledge.go:165-207).
THEOREM AnyChoiceIsFair ==
  ASSUME NEW said, NEW heard, SearchInit(said, heard)
  PROVE  ChoiceFair
BY AskedScored, ScoredChoiceFair

\* So it is for the questions of MCReads, in every state, for any registry.
THEOREM ChoicesAlwaysFair == Spec => []ChoicesAreFair
<1>1. Scored => ChoicesAreFair
  BY ScoredChoiceFair DEF ChoicesAreFair
<1>2. QED
  BY <1>1, InitScored, NextScored, PTL DEF Spec
================================================================================
