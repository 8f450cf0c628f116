---------------------------- MODULE ChatTurnProofs ----------------------------
(***************************************************************************)
(* Theorems about turns, for any number of turns, conversations, messages   *)
(* and tool calls: what is stored of a conversation that its turns had to   *)
(* themselves is whole turns, and whatever is cut from it for the model     *)
(* pairs calls and results.                                                 *)
(***************************************************************************)
EXTENDS ChatTurn, FiniteSetTheorems, SequenceTheorems, WellFoundedInduction, TLAPS

------------------------------------------------------------------------------
(* Entries of a sequence at some positions.                                 *)
UpTo(K, i) == {j \in K : j <= i}

LEMMA CountsUp ==
  ASSUME NEW K \in SUBSET Nat, IsFiniteSet(K), NEW i \in K
  PROVE  /\ Cardinality(UpTo(K, i)) \in 1..Cardinality(K)
         /\ \A j \in K : j < i => Cardinality(UpTo(K, j)) < Cardinality(UpTo(K, i))
<1>1. \A j \in K : /\ IsFiniteSet(UpTo(K, j)) /\ Cardinality(UpTo(K, j)) \in Nat
                   /\ Cardinality(UpTo(K, j)) <= Cardinality(K)
  BY FS_Subset, FS_CardinalityType DEF UpTo
<1>2. i \in UpTo(K, i)
  BY DEF UpTo
<1>3. Cardinality(UpTo(K, i)) # 0
  BY <1>1, <1>2, FS_EmptySet
<1>4. ASSUME NEW j \in K, j < i
      PROVE  Cardinality(UpTo(K, j)) < Cardinality(UpTo(K, i))
  <2>0. i \in Nat /\ j \in Nat /\ \A n \in K : n \in Nat
    OBVIOUS
  <2>3. ~(i <= j) /\ \A n \in K : n <= j => n <= i
    BY <1>4, <2>0
  <2>1. UpTo(K, j) \subseteq UpTo(K, i) /\ i \notin UpTo(K, j)
    BY <2>3, Zenon DEF UpTo
  <2>2. /\ Cardinality(UpTo(K, j)) <= Cardinality(UpTo(K, i))
        /\ Cardinality(UpTo(K, j)) # Cardinality(UpTo(K, i))
    BY <1>1, <1>2, <2>1, FS_Subset
  <2> QED BY <1>1, <2>2
<1>5. Cardinality(K) \in Nat
  BY FS_CardinalityType
<1> QED BY <1>1, <1>3, <1>4, <1>5

(* The n-th number of a set is in the set, and every one is the n-th for    *)
(* some n.                                                                  *)
LEMMA AscendingIs ==
  ASSUME NEW K \in SUBSET Nat, IsFiniteSet(K)
  PROVE  /\ Cardinality(K) \in Nat
         /\ Ascending(K) \in [1..Cardinality(K) -> K]
         /\ \A i \in K : /\ Cardinality(UpTo(K, i)) \in 1..Cardinality(K)
                         /\ Ascending(K)[Cardinality(UpTo(K, i))] = i
<1> DEFINE f == [i \in K |-> Cardinality(UpTo(K, i))]
           N == 1..Cardinality(K)
<1>1. Cardinality(K) \in Nat
  BY FS_CardinalityType
<1>2. f \in [K -> N]
  BY CountsUp
<1>3. \A i, j \in K : f[i] = f[j] => i = j
  <2>1. ASSUME NEW i \in K, NEW j \in K, i < j PROVE f[i] # f[j]
    <3>1. f[i] < f[j]
      BY <2>1, CountsUp
    <3>2. f[i] \in Nat /\ f[j] \in Nat
      BY <1>1, <1>2
    <3> QED BY <3>1, <3>2
  <2>2. \A i, j \in K : i # j => i < j \/ j < i
    OBVIOUS
  <2> QED BY <2>1, <2>2
<1>4. f \in Injection(K, N)
  BY <1>2, <1>3 DEF Injection, IsInjective
<1>5. IsFiniteSet(N) /\ Cardinality(N) = Cardinality(K)
  BY <1>1, FS_Interval
<1>6. f \in Surjection(K, N)
  BY <1>4, <1>5, FS_Injection
<1>7. \A n \in N : \E i \in K : f[i] = n
  BY <1>6 DEF Surjection
<1>8. \A n \in N : Ascending(K)[n] = CHOOSE i \in K : f[i] = n
  <2>1. \A n \in N : Ascending(K)[n] = CHOOSE i \in K : Cardinality(UpTo(K, i)) = n
    BY DEF Ascending, UpTo
  <2> QED BY <2>1
<1>9. \A n \in N : Ascending(K)[n] \in K /\ f[Ascending(K)[n]] = n
  BY <1>7, <1>8
<1>10. Ascending(K) \in [N -> K]
  <2>1. PICK g : g = Ascending(K)
    OBVIOUS
  <2>2. g = [n \in N |-> CHOOSE i \in K : Cardinality({j \in K : j <= i}) = n]
    BY <2>1 DEF Ascending
  <2>3. \A n \in N : g[n] \in K
    BY <1>9, <2>1
  <2> HIDE DEF N
  <2>4. g \in [N -> K]
    BY <2>2, <2>3
  <2> QED BY <2>1, <2>4
<1>11. \A i \in K : Ascending(K)[f[i]] = i
  BY <1>2, <1>3, <1>9
<1> QED BY <1>1, <1>2, <1>9, <1>10, <1>11

LEMMA PickedIs ==
  ASSUME NEW S, NEW s \in Seq(S), NEW K \in SUBSET (1..Len(s))
  PROVE  /\ Picked(s, K) \in Seq(S)
         /\ \A n \in 1..Len(Picked(s, K)) : \E i \in K : Picked(s, K)[n] = s[i]
         /\ \A i \in K : \E n \in 1..Len(Picked(s, K)) : Picked(s, K)[n] = s[i]
<1>1. K \in SUBSET Nat /\ IsFiniteSet(K)
  <2>1. Len(s) \in Nat /\ K \subseteq 1..Len(s)
    BY LenProperties
  <2>2. IsFiniteSet(1..Len(s))
    BY <2>1, FS_Interval
  <2>3. IsFiniteSet(K)
    BY <2>1, <2>2, FS_Subset
  <2> QED BY <2>1, <2>3
<1>2. PICK a : a = Ascending(K)
  OBVIOUS
<1>3. PICK N \in Nat : N = Cardinality(K)
  BY <1>1, AscendingIs
<1>4. a \in [1..N -> K] /\ \A i \in K : \E n \in 1..N : a[n] = i
  BY <1>1, <1>2, <1>3, AscendingIs
<1>5. Picked(s, K) = [n \in 1..N |-> s[a[n]]]
  BY <1>2, <1>3 DEF Picked
<1>6. \A i \in K : s[i] \in S
  OBVIOUS
<1>7. Picked(s, K) \in [1..N -> S]
  BY <1>4, <1>5, <1>6
<1>8. Picked(s, K) \in Seq(S) /\ Len(Picked(s, K)) = N
  BY <1>7, SeqDef, LenProperties
<1>9. PICK q : q = Picked(s, K)
  OBVIOUS
<1>10. \A n \in 1..N : a[n] \in K /\ q[n] = s[a[n]]
  BY <1>4, <1>5, <1>9
<1>11. \A i \in K : \E n \in 1..N : q[n] = s[i]
  BY <1>4, <1>10
<1> QED BY <1>8, <1>9, <1>10, <1>11

LEMMA PickedHead ==
  ASSUME NEW S, NEW s \in Seq(S), NEW c \in 0..Len(s)
  PROVE  Picked(s, 1..c) = SubSeq(s, 1, c)
<1>1. IsFiniteSet(1..c) /\ Cardinality(1..c) = c
  BY FS_Interval
<1>2. \A i \in 1..c : UpTo(1..c, i) = 1..i
  BY DEF UpTo
<1>3. \A i \in 1..c : Cardinality(UpTo(1..c, i)) = i
  BY <1>2, FS_Interval
<1>4. \A i \in 1..c : Ascending(1..c)[i] = i
  BY <1>1, <1>3, AscendingIs
<1>5. Picked(s, 1..c) = [n \in 1..c |-> s[n]]
  BY <1>1, <1>4 DEF Picked
<1>6. SubSeq(s, 1, c) = [n \in 1..c |-> s[n]]
  BY SubSeqProperties, LenProperties
<1> QED BY <1>5, <1>6

------------------------------------------------------------------------------
(* The answers in a part of a sequence of rows, and a part that no question *)
(* ends.                                                                    *)
AnswersIn(p, i, j) == {n \in i..j : p[n].role = "assistant"}
SameTurn(p, i, j) == \A n \in (i + 1)..j : p[n].role # "user"

(* Whole turns, but for the last one: so many results are yet to come       *)
(* there, and it has had at most so many answers.                           *)
Asked(p) == p # <<>> => p[1].role = "user"

CallsPaired(p, left) ==
  \A i \in 1..Len(p) : p[i].calls > 0 =>
    /\ i + p[i].calls <= Len(p) + left
    /\ \A j \in 1..Len(p) : i < j /\ j <= i + p[i].calls => p[j].role = "tool"
    /\ i > 1 => p[i - 1].role \in {"user", "tool"}

CallsOpen(p, left) ==
  left > 0 => \E i \in 1..Len(p) : p[i].calls > 0 /\ i + p[i].calls = Len(p) + left

ResultsPaired(p) ==
  \A j \in 1..Len(p) : p[j].role = "tool" => \E i \in 1..(j - 1) : p[i].calls >= j - i

AnswersCapped(p) ==
  \A i, j \in 1..Len(p) :
    SameTurn(p, i, j) => Cardinality(AnswersIn(p, i, j)) <= MaxIterations

LastCapped(p, round) ==
  \A i \in 1..Len(p) :
    SameTurn(p, i, Len(p)) => Cardinality(AnswersIn(p, i, Len(p))) <= round

Whole(p, left, round) ==
  /\ Asked(p) /\ CallsPaired(p, left) /\ CallsOpen(p, left) /\ ResultsPaired(p)
  /\ AnswersCapped(p) /\ LastCapped(p, round)

LEMMA AnswersAreFinite ==
  ASSUME NEW p, NEW i \in Int, NEW j \in Int
  PROVE  IsFiniteSet(AnswersIn(p, i, j)) /\ Cardinality(AnswersIn(p, i, j)) \in Nat
BY FS_Interval, FS_Subset, FS_CardinalityType DEF AnswersIn

LEMMA RowsOf ==
  ASSUME NEW p \in Seq(Message)
  PROVE  /\ Len(p) \in Nat
         /\ \A i \in 1..Len(p) : p[i] \in Message /\ p[i].calls \in Nat
<1>1. MaxCalls \in Nat
  BY ChatAssumption
<1>2. \A m \in Message : m.calls \in Nat
  BY <1>1 DEF Message
<1>3. Len(p) \in Nat /\ \A i \in 1..Len(p) : p[i] \in Message
  BY LenProperties
<1> QED BY <1>2, <1>3

LEMMA NoAnswer == Cardinality({}) = 0
BY FS_EmptySet

(* One more row.                                                            *)
LEMMA OneMore ==
  ASSUME NEW p \in Seq(Message), NEW m \in Message
  PROVE  /\ Append(p, m) \in Seq(Message) /\ Len(Append(p, m)) = Len(p) + 1
         /\ Append(p, m)[Len(p) + 1] = m
         /\ \A i \in 1..Len(p) : Append(p, m)[i] = p[i]
BY AppendProperties, LenProperties

LEMMA OneMoreAnswers ==
  ASSUME NEW p \in Seq(Message), NEW m \in Message,
         NEW i \in 1..(Len(p) + 1)
  PROVE  /\ \A j \in 1..Len(p) :
              /\ AnswersIn(Append(p, m), i, j) = AnswersIn(p, i, j)
              /\ SameTurn(Append(p, m), i, j) <=> SameTurn(p, i, j)
         /\ AnswersIn(Append(p, m), i, Len(p) + 1) =
              IF m.role = "assistant" THEN AnswersIn(p, i, Len(p)) \cup {Len(p) + 1}
              ELSE AnswersIn(p, i, Len(p))
         /\ SameTurn(Append(p, m), i, Len(p) + 1) /\ i <= Len(p) =>
              SameTurn(p, i, Len(p)) /\ m.role # "user"
<1>1. PICK q : q = Append(p, m)
  OBVIOUS
<1>2. PICK l \in Nat : l = Len(p)
  BY RowsOf
<1>3. q[l + 1] = m /\ \A n \in 1..l : q[n] = p[n]
  BY <1>1, <1>2, OneMore
<1>4. i \in 1..(l + 1)
  BY <1>2
<1>5. \A j \in 1..l : AnswersIn(q, i, j) = AnswersIn(p, i, j)
  BY <1>3, <1>4 DEF AnswersIn
<1>6. \A j \in 1..l : SameTurn(q, i, j) <=> SameTurn(p, i, j)
  BY <1>3, <1>4 DEF SameTurn
<1>7. AnswersIn(q, i, l + 1) =
        IF m.role = "assistant" THEN AnswersIn(p, i, l) \cup {l + 1} ELSE AnswersIn(p, i, l)
  <2>1. /\ \A n \in i..l : n \in 1..l /\ n \in i..(l + 1) /\ q[n] = p[n]
        /\ \A n \in i..(l + 1) : n \in i..l \/ n = l + 1
        /\ l + 1 \in i..(l + 1)
    BY <1>3, <1>4
  <2> QED BY <1>3, <2>1, Zenon DEF AnswersIn
<1>8. ASSUME SameTurn(q, i, l + 1), i <= l
      PROVE  SameTurn(p, i, l) /\ m.role # "user"
  BY <1>3, <1>4, <1>8 DEF SameTurn
<1> QED BY <1>1, <1>2, <1>5, <1>6, <1>7, <1>8

LEMMA QuestionMore ==
  ASSUME NEW p \in Seq(Message), NEW m \in Message, NEW round \in Nat,
         NEW next \in Nat, Whole(p, 0, round), m.role = "user", m.calls = 0
  PROVE  Whole(Append(p, m), 0, next)
<1>1. PICK q : q = Append(p, m)
  OBVIOUS
<1>2. PICK l \in Nat : l = Len(p)
  BY RowsOf
<1>3. q[l + 1] = m /\ (\A n \in 1..l : q[n] = p[n]) /\ Len(q) = l + 1
  BY <1>1, <1>2, OneMore
<1>4. \A n \in 1..l : p[n].calls \in Nat
  BY <1>2, RowsOf
<1>5. Asked(q)
  <2>1. CASE l = 0
    BY <1>3, <2>1 DEF Asked
  <2>2. CASE l > 0
    <3>1. p # <<>>
      BY <1>2, <2>2
    <3> QED BY <1>3, <2>2, <3>1 DEF Asked, Whole
  <2> QED BY <2>1, <2>2
<1>6. CallsPaired(q, 0)
  <2>1. CallsPaired(p, 0)
    BY DEF Whole
  <2> QED BY <1>2, <1>3, <1>4, <2>1 DEF CallsPaired
<1>7. CallsOpen(q, 0)
  BY DEF CallsOpen
<1>8. ResultsPaired(q)
  <2>1. ResultsPaired(p)
    BY DEF Whole
  <2>2. ASSUME NEW j \in 1..(l + 1), q[j].role = "tool"
        PROVE  \E i \in 1..(j - 1) : q[i].calls >= j - i
    <3>1. j \in 1..l
      BY <1>3, <2>2
    <3>2. PICK i \in 1..(j - 1) : p[i].calls >= j - i
      BY <1>2, <1>3, <2>1, <2>2, <3>1 DEF ResultsPaired
    <3>3. i \in 1..l
      BY <3>1, <3>2
    <3> QED BY <1>3, <3>2, <3>3
  <2> QED BY <1>3, <2>2 DEF ResultsPaired
<1>9. AnswersCapped(q) /\ LastCapped(q, next)
  <2>1. AnswersCapped(p)
    BY DEF Whole
  <2>2. ASSUME NEW i \in 1..(l + 1), NEW j \in 1..l, SameTurn(q, i, j)
        PROVE  Cardinality(AnswersIn(q, i, j)) <= MaxIterations
    <3>1. AnswersIn(q, i, j) = AnswersIn(p, i, j) /\ SameTurn(p, i, j)
      BY <1>1, <1>2, <2>2, OneMoreAnswers
    <3>2. CASE i \in 1..l
      BY <1>2, <2>1, <3>1, <3>2 DEF AnswersCapped
    <3>3. CASE i = l + 1
      <4>1. AnswersIn(q, i, j) = {}
        BY <3>3 DEF AnswersIn
      <4> QED BY <4>1, NoAnswer, ChatAssumption
    <3> QED BY <3>2, <3>3
  <2>3. ASSUME NEW i \in 1..(l + 1), SameTurn(q, i, l + 1)
        PROVE  Cardinality(AnswersIn(q, i, l + 1)) = 0
    <3>1. i = l + 1
      BY <1>3, <2>3 DEF SameTurn
    <3>2. AnswersIn(q, i, l + 1) = {}
      BY <1>3, <3>1 DEF AnswersIn
    <3> QED BY <3>2, NoAnswer, Zenon
  <2>4. \A i \in 1..(l + 1) : SameTurn(q, i, l + 1) => Cardinality(AnswersIn(q, i, l + 1)) <= MaxIterations
    <3> QED BY <2>3, ChatAssumption
  <2> QED BY <1>3, <2>2, <2>3, <2>4 DEF AnswersCapped, LastCapped
<1> QED BY <1>1, <1>5, <1>6, <1>7, <1>8, <1>9 DEF Whole

LEMMA AnswerMore ==
  ASSUME NEW p \in Seq(Message), NEW m \in Message, NEW round \in Nat,
         Whole(p, 0, round), p # <<>>, p[Len(p)].role \in {"user", "tool"},
         m.role = "assistant", round < MaxIterations
  PROVE  Whole(Append(p, m), m.calls, round + 1)
<1>1. PICK q : q = Append(p, m)
  OBVIOUS
<1>2. PICK l \in Nat : l = Len(p)
  BY RowsOf
<1>3. q[l + 1] = m /\ (\A n \in 1..l : q[n] = p[n]) /\ Len(q) = l + 1
  BY <1>1, <1>2, OneMore
<1>4. m.calls \in Nat /\ \A n \in 1..l : p[n].calls \in Nat
  <2>1. MaxCalls \in Nat
    BY ChatAssumption
  <2>2. m.calls \in Nat
    BY <2>1 DEF Message
  <2> QED BY <1>2, <2>2, RowsOf
<1>5. l > 0 /\ q[l].role \in {"user", "tool"}
  <2>1. l # 0
    BY <1>2, EmptySeq
  <2> QED BY <1>2, <1>3, <2>1
<1>6. Asked(q)
  BY <1>3, <1>5 DEF Asked, Whole
<1>7. CallsPaired(q, m.calls)
  <2>1. CallsPaired(p, 0)
    BY DEF Whole
  <2>2. ASSUME NEW i \in 1..l, q[i].calls > 0
        PROVE  /\ i + q[i].calls <= l
               /\ \A j \in 1..l : i < j /\ j <= i + q[i].calls => q[j].role = "tool"
               /\ i > 1 => q[i - 1].role \in {"user", "tool"}
    BY <1>2, <1>3, <2>1, <2>2 DEF CallsPaired
  <2>3. ASSUME NEW i \in 1..(l + 1), q[i].calls > 0
        PROVE  /\ i + q[i].calls <= (l + 1) + m.calls
               /\ \A j \in 1..(l + 1) : i < j /\ j <= i + q[i].calls => q[j].role = "tool"
               /\ i > 1 => q[i - 1].role \in {"user", "tool"}
    <3>1. CASE i = l + 1
      BY <1>3, <1>4, <1>5, <3>1
    <3>2. CASE i \in 1..l
      <4>1. q[i].calls \in Nat
        BY <1>3, <1>4, <3>2
      <4>2. \A j \in 1..(l + 1) : i < j /\ j <= i + q[i].calls => j \in 1..l
        BY <2>2, <2>3, <3>2, <4>1
      <4> QED BY <1>4, <2>2, <2>3, <3>2, <4>1, <4>2
    <3> QED BY <3>1, <3>2
  <2> QED BY <1>3, <2>3 DEF CallsPaired
<1>8. CallsOpen(q, m.calls)
  BY <1>3 DEF CallsOpen
<1>9. ResultsPaired(q)
  <2>1. ResultsPaired(p)
    BY DEF Whole
  <2>2. ASSUME NEW j \in 1..(l + 1), q[j].role = "tool"
        PROVE  \E i \in 1..(j - 1) : q[i].calls >= j - i
    <3>1. j \in 1..l
      BY <1>3, <2>2
    <3>2. PICK i \in 1..(j - 1) : p[i].calls >= j - i
      BY <1>2, <1>3, <2>1, <2>2, <3>1 DEF ResultsPaired
    <3>3. i \in 1..l
      BY <3>1, <3>2
    <3> QED BY <1>3, <3>2, <3>3
  <2> QED BY <1>3, <2>2 DEF ResultsPaired
<1>10. AnswersCapped(q) /\ LastCapped(q, round + 1)
  <2>1. AnswersCapped(p) /\ LastCapped(p, round)
    BY DEF Whole
  <2>2. ASSUME NEW i \in 1..(l + 1), NEW j \in 1..l, SameTurn(q, i, j)
        PROVE  Cardinality(AnswersIn(q, i, j)) <= MaxIterations
    <3>1. AnswersIn(q, i, j) = AnswersIn(p, i, j) /\ SameTurn(p, i, j)
      BY <1>1, <1>2, <2>2, OneMoreAnswers
    <3>2. CASE i \in 1..l
      BY <1>2, <2>1, <3>1, <3>2 DEF AnswersCapped
    <3>3. CASE i = l + 1
      <4>1. AnswersIn(q, i, j) = {}
        BY <3>3 DEF AnswersIn
      <4> QED BY <4>1, NoAnswer, ChatAssumption
    <3> QED BY <3>2, <3>3
  <2>3. ASSUME NEW i \in 1..(l + 1), SameTurn(q, i, l + 1)
        PROVE  Cardinality(AnswersIn(q, i, l + 1)) <= round + 1
    <3>1. AnswersIn(q, i, l + 1) = AnswersIn(p, i, l) \cup {l + 1}
      BY <1>1, <1>2, <1>5, OneMoreAnswers
    <3>2. IsFiniteSet(AnswersIn(p, i, l)) /\ Cardinality(AnswersIn(p, i, l)) \in Nat
      BY AnswersAreFinite
    <3>3. l + 1 \notin AnswersIn(p, i, l)
      BY DEF AnswersIn
    <3>4. Cardinality(AnswersIn(q, i, l + 1)) = Cardinality(AnswersIn(p, i, l)) + 1
      BY <3>1, <3>2, <3>3, FS_AddElement
    <3>5. Cardinality(AnswersIn(p, i, l)) <= round
      <4>1. CASE i \in 1..l
        <5>1. i <= l /\ i \in 1..(l + 1)
          BY <4>1
        <5>2. SameTurn(p, i, l)
          BY <1>1, <1>2, <2>3, <5>1, OneMoreAnswers
        <5> QED BY <1>2, <2>1, <4>1, <5>2 DEF LastCapped
      <4>2. CASE i = l + 1
        <5>1. AnswersIn(p, i, l) = {}
          BY <4>2 DEF AnswersIn
        <5> QED BY <5>1, NoAnswer
      <4> QED BY <4>1, <4>2
    <3> QED BY <3>2, <3>4, <3>5
  <2>4. \A i \in 1..(l + 1) : SameTurn(q, i, l + 1) => Cardinality(AnswersIn(q, i, l + 1)) <= MaxIterations
    <3>1. \A i \in 1..(l + 1) : Cardinality(AnswersIn(q, i, l + 1)) \in Nat
      BY AnswersAreFinite
    <3> QED BY <2>3, <3>1, ChatAssumption
  <2> QED BY <1>3, <2>2, <2>3, <2>4 DEF AnswersCapped, LastCapped
<1> QED BY <1>1, <1>6, <1>7, <1>8, <1>9, <1>10 DEF Whole

LEMMA ResultMore ==
  ASSUME NEW p \in Seq(Message), NEW m \in Message, NEW left \in Nat, NEW round \in Nat,
         Whole(p, left, round), left > 0, round <= MaxIterations,
         m.role = "tool", m.calls = 0
  PROVE  Whole(Append(p, m), left - 1, round)
<1>1. PICK q : q = Append(p, m)
  OBVIOUS
<1>2. PICK l \in Nat : l = Len(p)
  BY RowsOf
<1>3. q[l + 1] = m /\ (\A n \in 1..l : q[n] = p[n]) /\ Len(q) = l + 1
  BY <1>1, <1>2, OneMore
<1>4. \A n \in 1..l : p[n].calls \in Nat
  BY <1>2, RowsOf
<1>5. PICK o \in 1..l : p[o].calls > 0 /\ o + p[o].calls = l + left
  BY <1>2 DEF Whole, CallsOpen
<1>6. Asked(q)
  <2>1. p # <<>>
    BY <1>2, <1>5
  <2> QED BY <1>3, <1>5, <2>1 DEF Asked, Whole
<1>7. CallsPaired(q, left - 1)
  <2>1. CallsPaired(p, left)
    BY DEF Whole
  <2>2. ASSUME NEW i \in 1..l, q[i].calls > 0
        PROVE  /\ i + q[i].calls <= l + left
               /\ \A j \in 1..l : i < j /\ j <= i + q[i].calls => q[j].role = "tool"
               /\ i > 1 => q[i - 1].role \in {"user", "tool"}
    BY <1>2, <1>3, <2>1, <2>2 DEF CallsPaired
  <2>3. ASSUME NEW i \in 1..(l + 1), q[i].calls > 0
        PROVE  /\ i + q[i].calls <= (l + 1) + (left - 1)
               /\ \A j \in 1..(l + 1) : i < j /\ j <= i + q[i].calls => q[j].role = "tool"
               /\ i > 1 => q[i - 1].role \in {"user", "tool"}
    <3>1. i \in 1..l
      BY <1>3, <2>3
    <3>2. q[i].calls \in Nat
      BY <1>3, <1>4, <3>1
    <3>3. \A j \in 1..(l + 1) : j \in 1..l \/ q[j].role = "tool"
      BY <1>3
    <3> QED BY <2>2, <2>3, <3>1, <3>2, <3>3
  <2> QED BY <1>3, <2>3 DEF CallsPaired
<1>8. CallsOpen(q, left - 1)
  <2>1. o \in 1..(l + 1) /\ q[o] = p[o] /\ o + q[o].calls = (l + 1) + (left - 1)
    BY <1>3, <1>4, <1>5
  <2> QED BY <1>3, <1>5, <2>1 DEF CallsOpen
<1>9. ResultsPaired(q)
  <2>1. ResultsPaired(p)
    BY DEF Whole
  <2>2. o \in 1..((l + 1) - 1) /\ q[o].calls >= (l + 1) - o
    BY <1>3, <1>4, <1>5
  <2> QED BY <1>2, <1>3, <2>1, <2>2 DEF ResultsPaired
<1>10. AnswersCapped(q) /\ LastCapped(q, round)
  <2>1. AnswersCapped(p) /\ LastCapped(p, round)
    BY DEF Whole
  <2>2. ASSUME NEW i \in 1..(l + 1), NEW j \in 1..l, SameTurn(q, i, j)
        PROVE  Cardinality(AnswersIn(q, i, j)) <= MaxIterations
    <3>1. AnswersIn(q, i, j) = AnswersIn(p, i, j) /\ SameTurn(p, i, j)
      BY <1>1, <1>2, <2>2, OneMoreAnswers
    <3>2. CASE i \in 1..l
      BY <1>2, <2>1, <3>1, <3>2 DEF AnswersCapped
    <3>3. CASE i = l + 1
      <4>1. AnswersIn(q, i, j) = {}
        BY <3>3 DEF AnswersIn
      <4> QED BY <4>1, NoAnswer, ChatAssumption
    <3> QED BY <3>2, <3>3
  <2>3. ASSUME NEW i \in 1..(l + 1), SameTurn(q, i, l + 1)
        PROVE  Cardinality(AnswersIn(q, i, l + 1)) <= round
    <3>1. AnswersIn(q, i, l + 1) = AnswersIn(p, i, l)
      BY <1>1, <1>2, <1>5, OneMoreAnswers
    <3>2. CASE i \in 1..l
      <4>1. i <= l /\ i \in 1..(l + 1)
        BY <3>2
      <4>2. SameTurn(p, i, l)
        BY <1>1, <1>2, <2>3, <4>1, OneMoreAnswers
      <4> QED BY <1>2, <2>1, <3>1, <3>2, <4>2 DEF LastCapped
    <3>3. CASE i = l + 1
      <4>1. AnswersIn(p, i, l) = {}
        BY <3>3 DEF AnswersIn
      <4>2. Cardinality(AnswersIn(q, i, l + 1)) = 0
        BY <3>1, <4>1, NoAnswer, Zenon
      <4> QED BY <4>2
    <3> QED BY <3>2, <3>3
  <2>4. \A i \in 1..(l + 1) : SameTurn(q, i, l + 1) => Cardinality(AnswersIn(q, i, l + 1)) <= MaxIterations
    <3>1. \A i \in 1..(l + 1) : Cardinality(AnswersIn(q, i, l + 1)) \in Nat
      BY AnswersAreFinite
    <3> QED BY <2>3, <3>1, ChatAssumption
  <2> QED BY <1>3, <2>2, <2>3, <2>4 DEF AnswersCapped, LastCapped
<1> QED BY <1>1, <1>6, <1>7, <1>8, <1>9, <1>10 DEF Whole

(* Who wrote the rows does not matter to this.                              *)
LEMMA WholeAlike ==
  ASSUME NEW p \in Seq(Message), NEW q \in Seq(Message), NEW left \in Nat, NEW round \in Nat,
         Whole(p, left, round), round <= MaxIterations, Len(q) = Len(p),
         \A i \in 1..Len(p) : q[i].role = p[i].role /\ q[i].calls = p[i].calls
  PROVE  Whole(q, left, MaxIterations)
<1>1. PICK l \in Nat : l = Len(p) /\ l = Len(q)
  BY RowsOf
<1>2. \A i \in 1..l : q[i].role = p[i].role /\ q[i].calls = p[i].calls
  BY <1>1
<1>3. \A i \in 1..l : q[i].calls \in Nat
  BY <1>1, RowsOf
<1>4. Asked(q)
  <2>1. CASE l = 0
    BY <1>1, <2>1, EmptySeq DEF Asked
  <2>2. CASE l > 0
    <3>1. p # <<>>
      BY <1>1, <2>2
    <3> QED BY <1>2, <2>2, <3>1 DEF Asked, Whole
  <2> QED BY <2>1, <2>2
<1>5. CallsPaired(q, left)
  <2>1. CallsPaired(p, left)
    BY DEF Whole
  <2>2. ASSUME NEW i \in 1..l, q[i].calls > 0
        PROVE  /\ i + q[i].calls <= l + left
               /\ \A j \in 1..l : i < j /\ j <= i + q[i].calls => q[j].role = "tool"
               /\ i > 1 => q[i - 1].role \in {"user", "tool"}
    <3>1. i > 1 => i - 1 \in 1..l
      OBVIOUS
    <3> QED BY <1>1, <1>2, <2>1, <2>2, <3>1 DEF CallsPaired
  <2> QED BY <1>1, <2>2 DEF CallsPaired
<1>6. CallsOpen(q, left)
  <2>1. CallsOpen(p, left)
    BY DEF Whole
  <2> QED BY <1>1, <1>2, <2>1 DEF CallsOpen
<1>7. ResultsPaired(q)
  <2>1. ResultsPaired(p)
    BY DEF Whole
  <2>2. ASSUME NEW j \in 1..l, q[j].role = "tool"
        PROVE  \E i \in 1..(j - 1) : q[i].calls >= j - i
    <3>1. PICK i \in 1..(j - 1) : p[i].calls >= j - i
      BY <1>1, <1>2, <2>1, <2>2 DEF ResultsPaired
    <3>2. i \in 1..l
      BY <3>1
    <3> QED BY <1>2, <3>1, <3>2
  <2> QED BY <1>1, <2>2 DEF ResultsPaired
<1>8. \A i, j \in 1..l : AnswersIn(q, i, j) = AnswersIn(p, i, j)
  <2>1. \A i, j \in 1..l : \A n \in i..j : n \in 1..l
    OBVIOUS
  <2> QED BY <1>2, <2>1 DEF AnswersIn
<1>9. \A i, j \in 1..l : SameTurn(q, i, j) => SameTurn(p, i, j)
  <2>1. \A i, j \in 1..l : \A n \in (i + 1)..j : n \in 1..l
    OBVIOUS
  <2> QED BY <1>2, <2>1 DEF SameTurn
<1>10. AnswersCapped(q)
  <2>1. AnswersCapped(p)
    BY DEF Whole
  <2> QED BY <1>1, <1>8, <1>9, <2>1 DEF AnswersCapped
<1>11. LastCapped(q, MaxIterations)
  <2>1. \A i \in 1..l : SameTurn(q, i, l) => Cardinality(AnswersIn(q, i, l)) <= MaxIterations
    <3>1. \A i \in 1..l : l \in 1..l
      OBVIOUS
    <3> QED BY <1>1, <1>10, <3>1 DEF AnswersCapped
  <2> QED BY <1>1, <2>1 DEF LastCapped
<1> QED BY <1>4, <1>5, <1>6, <1>7, <1>10, <1>11 DEF Whole

LEMMA NoRowsAreWhole == Whole(<<>>, 0, MaxIterations)
<1>1. Len(<<>>) = 0
  BY EmptySeq
<1>2. 1..0 = {}
  OBVIOUS
<1> QED BY <1>1, <1>2 DEF Whole, Asked, CallsPaired, CallsOpen, ResultsPaired,
                          AnswersCapped, LastCapped

(* Whole turns with no result to come are well formed.                      *)
LEMMA RowsWellFormed ==
  ASSUME NEW p \in Seq(Message), NEW round, Whole(p, 0, round)
  PROVE  /\ WellFormed(p)
         /\ p # <<>> => p[1].role = "user"
<1>1. PICK l \in Nat : l = Len(p)
  BY RowsOf
<1>2. ASSUME NEW i \in 1..l, p[i].calls > 0
      PROVE  /\ i + p[i].calls <= l
             /\ \A j \in (i + 1)..(i + p[i].calls) : p[j].role = "tool"
             /\ i > 1 => p[i - 1].role \in {"user", "tool"}
  <2>1. p[i].calls \in Nat
    BY <1>1, RowsOf
  <2>2. /\ i + p[i].calls <= l
        /\ \A j \in 1..l : i < j /\ j <= i + p[i].calls => p[j].role = "tool"
        /\ i > 1 => p[i - 1].role \in {"user", "tool"}
    BY <1>1, <1>2 DEF Whole, CallsPaired
  <2> QED BY <2>1, <2>2
<1>3. \A j \in 1..l : p[j].role = "tool" => \E i \in 1..(j - 1) : p[i].calls >= j - i
  BY <1>1 DEF Whole, ResultsPaired
<1>4. WellFormed(p)
  BY <1>1, <1>2, <1>3 DEF WellFormed
<1>5. p # <<>> => p[1].role = "user"
  BY DEF Whole, Asked
<1> QED BY <1>4, <1>5

(* Whole turns are what WholeTurns asks for.                                *)
LEMMA WholeIsPaired ==
  ASSUME NEW p \in Seq(Message), Whole(p, 0, MaxIterations)
  PROVE  /\ WellFormed(p)
         /\ p # <<>> => p[1].role = "user"
         /\ \A i, j \in 1..Len(p) :
              (\A n \in (i + 1)..j : p[n].role # "user") =>
                Cardinality({n \in i..j : p[n].role = "assistant"}) <= MaxIterations
<1>1. WellFormed(p) /\ (p # <<>> => p[1].role = "user")
  BY RowsWellFormed
<1>2. \A i, j \in 1..Len(p) :
        (\A n \in (i + 1)..j : p[n].role # "user") =>
          Cardinality({n \in i..j : p[n].role = "assistant"}) <= MaxIterations
  BY Zenon DEF Whole, AnswersCapped, SameTurn, AnswersIn
<1> QED BY <1>1, <1>2

------------------------------------------------------------------------------
(* What is cut from paired rows at their head stays paired, when it starts  *)
(* at a row that is no result.                                              *)
LEMMA RestOfRows ==
  ASSUME NEW p \in Seq(Message), NEW a \in 1..Len(p)
  PROVE  /\ SubSeq(p, a, Len(p)) \in Seq(Message)
         /\ Len(SubSeq(p, a, Len(p))) = Len(p) - a + 1
         /\ \A i \in 1..(Len(p) - a + 1) : SubSeq(p, a, Len(p))[i] = p[a + i - 1]
<1>1. Len(p) \in Nat /\ \A i \in 1..Len(p) : p[i] \in Message
  BY RowsOf
<1>2. \A i \in a..Len(p) : p[i] \in Message
  BY <1>1
<1>3. a \in Int /\ Len(p) \in Int /\ a <= Len(p)
  BY <1>1
<1>4. PICK l : l = Len(p)
  OBVIOUS
<1>5. /\ SubSeq(p, a, l) \in Seq(Message)
      /\ Len(SubSeq(p, a, l)) = IF a <= l THEN l - a + 1 ELSE 0
      /\ \A i \in 1..(l - a + 1) : SubSeq(p, a, l)[i] = p[a + i - 1]
  BY <1>2, <1>3, <1>4, SubSeqProperties
<1> QED BY <1>3, <1>4, <1>5

LEMMA TailIsPaired ==
  ASSUME NEW p \in Seq(Message), NEW a \in 1..Len(p), WellFormed(p), p[a].role # "tool"
  PROVE  WellFormed(SubSeq(p, a, Len(p)))
<1>1. PICK l \in Nat : l = Len(p)
  BY RowsOf
<1>2. PICK q : q = SubSeq(p, a, l)
  OBVIOUS
<1>3. a \in 1..l /\ Len(q) = l - a + 1 /\ \A i \in 1..(l - a + 1) : q[i] = p[a + i - 1]
  BY <1>1, <1>2, RestOfRows
<1>4. \A i \in 1..l : p[i].calls \in Nat
  BY <1>1, RowsOf
<1>5. ASSUME NEW i \in 1..(l - a + 1), q[i].calls > 0
      PROVE  /\ i + q[i].calls <= l - a + 1
             /\ \A j \in (i + 1)..(i + q[i].calls) : q[j].role = "tool"
             /\ i > 1 => q[i - 1].role \in {"user", "tool"}
  <2>1. PICK n \in 1..l : n = a + i - 1
    BY <1>3
  <2>2. q[i] = p[n] /\ p[n].calls > 0 /\ p[n].calls \in Nat
    BY <1>3, <1>4, <1>5, <2>1
  <2>3. /\ n + p[n].calls <= l
        /\ \A j \in (n + 1)..(n + p[n].calls) : p[j].role = "tool"
        /\ n > 1 => p[n - 1].role \in {"user", "tool"}
    BY <1>1, <2>2 DEF WellFormed
  <2>4. i + q[i].calls <= l - a + 1
    BY <1>3, <2>1, <2>2, <2>3
  <2>5. ASSUME NEW j \in (i + 1)..(i + q[i].calls)
        PROVE  q[j].role = "tool"
    <3>1. PICK c \in Nat : c = q[i].calls /\ c = p[n].calls
      BY <2>2
    <3>2. j \in (i + 1)..(i + c) /\ i + c <= l - a + 1
      BY <2>4, <2>5, <3>1
    <3>3. j \in 1..(l - a + 1) /\ a + j - 1 \in (n + 1)..(n + c)
      BY <1>3, <2>1, <3>2
    <3> QED BY <1>3, <2>3, <3>1, <3>3
  <2>6. ASSUME i > 1 PROVE q[i - 1].role \in {"user", "tool"}
    <3>1. i - 1 \in 1..(l - a + 1) /\ a + (i - 1) - 1 = n - 1 /\ n > 1
      BY <1>3, <2>1, <2>6
    <3> QED BY <1>3, <2>3, <3>1
  <2> QED BY <2>4, <2>5, <2>6
<1>6. ASSUME NEW j \in 1..(l - a + 1), q[j].role = "tool"
      PROVE  \E i \in 1..(j - 1) : q[i].calls >= j - i
  <2>1. PICK m \in 1..l : m = a + j - 1
    BY <1>3
  <2>2. p[m].role = "tool"
    BY <1>3, <1>6, <2>1
  <2>3. PICK n \in 1..(m - 1) : p[n].calls >= m - n
    BY <1>1, <2>1, <2>2 DEF WellFormed
  <2>4. n \in 1..l /\ p[n].calls \in Nat
    BY <1>4, <2>1, <2>3
  <2>5. n >= a
    <3>1. SUFFICES ASSUME n < a PROVE FALSE
      BY <1>3, <2>4
    <3>2. a \in (n + 1)..(n + p[n].calls) /\ p[n].calls > 0
      BY <1>3, <2>1, <2>3, <2>4, <3>1
    <3>3. \A i \in (n + 1)..(n + p[n].calls) : p[i].role = "tool"
      BY <1>1, <2>4, <3>2 DEF WellFormed
    <3> QED BY <3>2, <3>3
  <2>6. PICK i \in 1..(j - 1) : i = n - a + 1
    <3>1. n \in Nat /\ a \in Nat /\ j \in Nat /\ m = a + j - 1
      BY <1>3, <2>1, <2>4
    <3>2. n <= m - 1
      BY <2>1, <2>3
    <3>3. n - a + 1 \in 1..(j - 1)
      BY <2>5, <3>1, <3>2
    <3> QED BY <3>3
  <2>7. i \in 1..(l - a + 1) /\ a + i - 1 = n /\ m - n = j - i
    <3>1. n \in Nat /\ a \in Nat /\ l \in Nat
      BY <1>3, <2>4
    <3>5. j \in Nat /\ i \in Nat /\ i >= 1 /\ i <= j - 1 /\ j <= l - a + 1
      BY <3>1
    <3>2. i = n - a + 1 /\ m = a + j - 1
      BY <2>1, <2>6
    <3>3. a + i - 1 = n /\ m - n = j - i
      BY <3>1, <3>2, <3>5
    <3>4. i <= l - a + 1
      BY <3>1, <3>5
    <3> QED BY <3>1, <3>3, <3>4, <3>5
  <2>8. q[i].calls >= j - i
    BY <1>3, <2>3, <2>7
  <2> QED BY <2>6, <2>8
<1>7. WellFormed(q)
  BY <1>3, <1>5, <1>6 DEF WellFormed
<1> QED BY <1>1, <1>2, <1>7

(* A question ends the rows, so the prompt starts at a question and ends at *)
(* that one.                                                                *)
LEMMA DropsToQuestion ==
  ASSUME NEW q \in Seq(Message), Len(q) > 0, q[Len(q)].role = "user"
  PROVE  \E a \in 1..Len(q) :
           /\ q[a].role = "user"
           /\ FromQuestion(q) = SubSeq(q, a, Len(q))
<1> DEFINE K == {i \in 1..Len(q) : q[i].role = "user"}
<1>1. Len(q) \in Nat /\ Len(q) \in K
  BY RowsOf
<1>2. K \subseteq Nat
  OBVIOUS
<1>3. \E i \in K : \A j \in K : i <= j
  <2>1. PICK i \in K : \A j \in K : <<j, i>> \notin OpToRel(<, Nat)
    BY <1>1, <1>2, WFMin, NatLessThanWellFounded
  <2>2. \A j \in K : ~(j < i)
    BY <1>2, <2>1 DEF OpToRel
  <2> QED BY <1>2, <2>2
<1>4. PICK a : a = CHOOSE i \in K : \A j \in K : i <= j
  OBVIOUS
<1>5. a \in K
  BY <1>3, <1>4
<1>6. FromQuestion(q) = SubSeq(q, a, Len(q))
  BY <1>1, <1>4 DEF FromQuestion
<1> QED BY <1>5, <1>6

LEMMA PromptIsTail ==
  ASSUME NEW r \in Seq(Message), Len(r) > 0, r[Len(r)].role = "user"
  PROVE  \E c \in 1..Len(r) : r[c].role = "user" /\ Prompt(r) = SubSeq(r, c, Len(r))
<1>1. PICK l \in Nat : l = Len(r) /\ l > 0
  BY RowsOf
<1>2. PICK b \in 1..l : b = IF l > HistoryTurns THEN l - HistoryTurns + 1 ELSE 1
  <2>1. PICK h \in Nat : h = HistoryTurns /\ h > 0
    BY ChatAssumption
  <2>2. (IF l > h THEN l - h + 1 ELSE 1) \in 1..l
    BY <1>1, <2>1
  <2> QED BY <2>1, <2>2
<1>3. PICK q : q = SubSeq(r, b, l)
  OBVIOUS
<1>4. q \in Seq(Message) /\ Len(q) = l - b + 1 /\ \A i \in 1..(l - b + 1) : q[i] = r[b + i - 1]
  BY <1>1, <1>3, RestOfRows
<1>5. q[Len(q)] = r[l] /\ Len(q) > 0
  <2>1. l - b + 1 \in 1..(l - b + 1) /\ b + (l - b + 1) - 1 = l
    BY <1>2
  <2> QED BY <1>4, <2>1
<1>6. PICK a \in 1..Len(q) :
        /\ q[a].role = "user"
        /\ FromQuestion(q) = SubSeq(q, a, Len(q))
  BY <1>1, <1>4, <1>5, DropsToQuestion
<1>7. PICK c \in 1..l : c = b + a - 1
  BY <1>4, <1>6
<1>8. r[c].role = "user"
  BY <1>4, <1>6, <1>7
<1>9. SubSeq(q, a, Len(q)) = SubSeq(r, c, l)
  <2>1. /\ SubSeq(q, a, Len(q)) \in Seq(Message) /\ SubSeq(r, c, l) \in Seq(Message)
        /\ Len(SubSeq(q, a, Len(q))) = l - c + 1 /\ Len(SubSeq(r, c, l)) = l - c + 1
    BY <1>1, <1>4, <1>6, <1>7, RestOfRows
  <2>2. \A i \in 1..(l - c + 1) : SubSeq(q, a, Len(q))[i] = SubSeq(r, c, l)[i]
    <3> TAKE i \in 1..(l - c + 1)
    <3>4. a \in Nat /\ b \in Nat /\ l \in Nat /\ i \in Nat /\ c = b + a - 1 /\ a >= 1
      BY <1>4, <1>7
    <3>5. i >= 1 /\ i <= l - c + 1 /\ Len(q) = l - b + 1
      BY <1>4
    <3>6. i <= Len(q) - a + 1 /\ a + i - 1 <= l - b + 1 /\ a + i - 1 >= 1
      BY <3>4, <3>5
    <3>7. b + (a + i - 1) - 1 = c + i - 1
      BY <3>4
    <3>1. i \in 1..(Len(q) - a + 1) /\ a + i - 1 \in 1..(l - b + 1) /\ b + (a + i - 1) - 1 = c + i - 1
      BY <3>4, <3>5, <3>6, <3>7
    <3>2. SubSeq(q, a, Len(q))[i] = q[a + i - 1]
      BY <1>4, <1>6, <3>1, RestOfRows
    <3>3. SubSeq(r, c, l)[i] = r[c + i - 1]
      BY <1>1, RestOfRows
    <3> QED BY <1>4, <3>1, <3>2, <3>3
  <2> QED BY <2>1, <2>2, SeqEqual
<1>10. PICK s : s = SubSeq(r, c, l)
  OBVIOUS
<1>11. s \in Seq(Message) /\ Len(s) = l - c + 1 /\ \A i \in 1..(l - c + 1) : s[i] = r[c + i - 1]
  BY <1>1, <1>10, RestOfRows
<1>12. Prompt(r) = s
  <2>1. s[Len(s)].role = "user"
    <3>1. l - c + 1 \in 1..(l - c + 1) /\ c + (l - c + 1) - 1 = l
      BY <1>7
    <3> QED BY <1>1, <1>11, <3>1
  <2>2. Sanitized(q) = s
    BY <1>6, <1>9, <1>10, <2>1 DEF Sanitized, Orphan
  <2> QED BY <1>1, <1>2, <1>3, <2>2 DEF Prompt
<1> QED BY <1>1, <1>8, <1>10, <1>12

LEMMA LastQuestionIs ==
  ASSUME NEW q \in Seq(Message), Len(q) > 0, q[1].role = "user"
  PROVE  LastQuestion(q) \in 1..Len(q) /\ q[LastQuestion(q)].role = "user"
<1> DEFINE K == {i \in 1..Len(q) : q[i].role = "user"}
           D == {Len(q) - i : i \in K}
<1>1. Len(q) \in Nat /\ 1 \in K
  BY RowsOf
<1>2. D \subseteq Nat /\ Len(q) - 1 \in D
  BY <1>1
<1>3. PICK d \in D : \A e \in D : <<e, d>> \notin OpToRel(<, Nat)
  BY <1>2, WFMin, NatLessThanWellFounded
<1>4. \A e \in D : ~(e < d)
  BY <1>2, <1>3 DEF OpToRel
<1>5. \E i \in K : \A j \in K : j <= i
  <2>1. PICK i \in K : d = Len(q) - i
    BY <1>3
  <2>2. ASSUME NEW j \in K PROVE j <= i
    <3>1. ~(Len(q) - j < Len(q) - i)
      BY <1>4, <2>1
    <3>2. i \in Nat /\ j \in Nat
      BY <2>1
    <3> QED BY <1>1, <3>1, <3>2
  <2> QED BY <2>1, <2>2
<1>6. LastQuestion(q) = CHOOSE i \in K : \A j \in K : j <= i
  BY DEF LastQuestion
<1>7. LastQuestion(q) \in K
  BY <1>5, <1>6
<1> QED BY <1>7

(* The two ends of a sequence, joined again.                                *)
LEMMA Rejoined ==
  ASSUME NEW q \in Seq(Message), NEW n \in 1..Len(q), NEW c \in 1..n
  PROVE  SubSeq(SubSeq(q, 1, n), c, n) \o SubSeq(q, n + 1, Len(q)) = SubSeq(q, c, Len(q))
<1>1. PICK l \in Nat : l = Len(q)
  BY RowsOf
<1>2. n \in 1..l /\ c \in 1..l /\ n \in Nat /\ c \in Nat /\ c <= n /\ n <= l /\ 1 <= c
  BY <1>1
<1>3. \A i \in 1..l : q[i] \in Message
  BY <1>1, RowsOf
<1>4. PICK h : h = SubSeq(q, 1, n)
  OBVIOUS
<1>5. h \in Seq(Message) /\ Len(h) = n /\ \A i \in 1..n : h[i] = q[i]
  <2>1. \A i \in 1..n : q[i] \in Message
    BY <1>2, <1>3
  <2>2. /\ h \in Seq(Message) /\ Len(h) = IF 1 <= n THEN n - 1 + 1 ELSE 0
        /\ \A i \in 1..(n - 1 + 1) : h[i] = q[1 + i - 1]
    BY <1>2, <1>4, <2>1, SubSeqProperties
  <2>3. n - 1 + 1 = n /\ \A i \in 1..n : 1 + i - 1 = i
    BY <1>2
  <2> QED BY <1>2, <2>2, <2>3
<1>6. PICK a : a = SubSeq(h, c, n)
  OBVIOUS
<1>7. a \in Seq(Message) /\ Len(a) = n - c + 1 /\ \A i \in 1..(n - c + 1) : a[i] = h[c + i - 1]
  <2>1. c \in 1..Len(h) /\ a = SubSeq(h, c, Len(h))
    BY <1>2, <1>5, <1>6
  <2> QED BY <1>5, <2>1, RestOfRows
<1>8. PICK b : b = SubSeq(q, n + 1, l)
  OBVIOUS
<1>9. b \in Seq(Message) /\ Len(b) = l - n /\ \A i \in 1..(l - n) : b[i] = q[n + i]
  <2>1. \A i \in (n + 1)..l : q[i] \in Message
    BY <1>2, <1>3
  <2>2. /\ b \in Seq(Message) /\ Len(b) = IF n + 1 <= l THEN l - (n + 1) + 1 ELSE 0
        /\ \A i \in 1..(l - (n + 1) + 1) : b[i] = q[(n + 1) + i - 1]
    BY <1>2, <1>8, <2>1, SubSeqProperties
  <2>3. l - (n + 1) + 1 = l - n /\ (~(n + 1 <= l) => l - n = 0) /\ \A i \in 1..(l - n) : (n + 1) + i - 1 = n + i
    BY <1>2
  <2> QED BY <1>2, <2>2, <2>3
<1>10. PICK z : z = a \o b
  OBVIOUS
<1>11. /\ z \in Seq(Message) /\ Len(z) = (n - c + 1) + (l - n)
       /\ \A i \in 1..((n - c + 1) + (l - n)) :
            z[i] = IF i <= n - c + 1 THEN a[i] ELSE b[i - (n - c + 1)]
  <2>1. /\ a \o b \in Seq(Message) /\ Len(a \o b) = Len(a) + Len(b)
        /\ \A i \in 1..Len(a) + Len(b) :
             (a \o b)[i] = IF i <= Len(a) THEN a[i] ELSE b[i - Len(a)]
    BY <1>7, <1>9, ConcatProperties
  <2> HIDE <1>7, <1>9
  <2>2. PICK x, y : x = Len(a) /\ y = Len(b)
    OBVIOUS
  <2>3. /\ z \in Seq(Message) /\ Len(z) = x + y
        /\ \A i \in 1..(x + y) : z[i] = IF i <= x THEN a[i] ELSE b[i - x]
    BY <1>10, <2>1, <2>2
  <2>4. x = n - c + 1 /\ y = l - n
    BY <1>7, <1>9, <2>2
  <2> QED BY <2>3, <2>4
<1>12. PICK w : w = SubSeq(q, c, l)
  OBVIOUS
<1>13. w \in Seq(Message) /\ Len(w) = l - c + 1 /\ \A i \in 1..(l - c + 1) : w[i] = q[c + i - 1]
  BY <1>1, <1>2, <1>12, RestOfRows
<1>14. (n - c + 1) + (l - n) = l - c + 1
  BY <1>2
<1>15. ASSUME NEW i \in 1..(l - c + 1) PROVE z[i] = w[i]
  <2>1. CASE i <= n - c + 1
    <3>1. i \in 1..(n - c + 1) /\ c + i - 1 \in 1..n
      BY <1>2, <2>1
    <3>2. z[i] = a[i] /\ a[i] = h[c + i - 1] /\ h[c + i - 1] = q[c + i - 1]
      BY <1>5, <1>7, <1>11, <1>14, <2>1, <3>1
    <3> QED BY <1>13, <3>2
  <2>2. CASE ~(i <= n - c + 1)
    <3>1. PICK j : j = i - (n - c + 1)
      OBVIOUS
    <3>2. j \in 1..(l - n) /\ n + j = c + i - 1
      BY <1>2, <2>2, <3>1
    <3>3. z[i] = b[j] /\ b[j] = q[n + j]
      BY <1>9, <1>11, <1>14, <2>2, <3>1, <3>2
    <3> QED BY <1>13, <3>2, <3>3
  <2> QED BY <2>1, <2>2
<1>16. z = w
  BY <1>11, <1>13, <1>14, <1>15, SeqEqual
<1> QED BY <1>1, <1>4, <1>6, <1>8, <1>10, <1>12, <1>16

(* Of whole rows that begin with a question, what the guard leaves pairs    *)
(* calls and results.                                                       *)
LEMMA PromptsPaired ==
  ASSUME NEW q \in Seq(Message), WellFormed(q), Len(q) > 0, q[1].role = "user",
         NEW n \in 1..Len(q), n = LastQuestion(q),
         NEW h, h = Prompt(SubSeq(q, 1, n))
  PROVE  /\ h[1].role = "user"
         /\ \A p \in Truncations(h \o SubSeq(q, n + 1, Len(q))) : WellFormed(p)
<1>1. PICK r : r = SubSeq(q, 1, n)
  OBVIOUS
<1>2. r \in Seq(Message) /\ Len(r) = n /\ \A i \in 1..n : r[i] = q[i]
  <2>1. \A i \in 1..n : q[i] \in Message
    BY RowsOf
  <2>2. /\ r \in Seq(Message) /\ Len(r) = IF 1 <= n THEN n - 1 + 1 ELSE 0
        /\ \A i \in 1..(n - 1 + 1) : r[i] = q[1 + i - 1]
    BY <1>1, <2>1, SubSeqProperties
  <2>3. n - 1 + 1 = n /\ 1 <= n /\ n \in 1..n /\ \A i \in 1..n : 1 + i - 1 = i
    OBVIOUS
  <2> QED BY <2>2, <2>3
<1>3. q[n].role = "user"
  BY LastQuestionIs
<1>4. Len(r) > 0 /\ r[Len(r)].role = "user"
  <2>1. n \in 1..n /\ n > 0
    OBVIOUS
  <2> QED BY <1>2, <1>3, <2>1
<1>5. PICK c \in 1..n : r[c].role = "user" /\ h = SubSeq(r, c, n)
  BY <1>1, <1>2, <1>4, PromptIsTail
<1>6. h[1].role = "user"
  <2>1. Len(h) = n - c + 1 /\ \A i \in 1..(n - c + 1) : h[i] = r[c + i - 1]
    BY <1>2, <1>5, RestOfRows
  <2>2. 1 \in 1..(n - c + 1) /\ c + 1 - 1 = c
    OBVIOUS
  <2> QED BY <1>5, <2>1, <2>2
<1>7. PICK s : s = SubSeq(q, c, Len(q))
  OBVIOUS
<1>8. h \o SubSeq(q, n + 1, Len(q)) = s
  BY <1>1, <1>5, <1>7, Rejoined
<1>9. c \in 1..Len(q) /\ q[c].role = "user"
  <2>1. Len(q) \in Nat
    BY RowsOf
  <2> QED BY <1>2, <1>5, <2>1
<1>10. s \in Seq(Message) /\ WellFormed(s)
  BY <1>7, <1>9, TailIsPaired, RestOfRows
<1>11. ASSUME NEW p \in Truncations(s) PROVE WellFormed(p)
  <2>1. p = s \/ \E i \in 1..Len(s) : s[i].role # "tool" /\ p = SubSeq(s, i, Len(s))
    BY <1>11 DEF Truncations
  <2> QED BY <1>10, <2>1, TailIsPaired
<1> QED BY <1>6, <1>8, <1>11

------------------------------------------------------------------------------
(* The inductive invariant.                                                 *)
Speaking == {"model", "tools", "commit", "fail"}

(* A turn that is under way has a conversation; at the model it has answers *)
(* left, and at the tools calls.                                            *)
TurnShape ==
  \A t \in Turn :
    /\ On(t, "silent") => turn[t] = Silent
    /\ ~On(t, "silent") => Here(t) \in Talk /\ talk[Here(t)] # "absent"
    /\ turn[t].pc \in {"ask", "model"} => turn[t].round < MaxIterations
    /\ On(t, "tools") <=> turn[t].left > 0

(* A delete is of a conversation; at its commit no turn has a row there.    *)
EraserShape ==
  /\ eraser.pc # "idle" => eraser.talk \in Talk
  /\ eraser.pc = "commit" => Writers(eraser.talk) = {}

(* A row that is not committed is of a turn of its conversation that has    *)
(* asked, and such a turn has a row.                                        *)
RowsHere ==
  \A k \in Talk : \A i \in 1..Len(log[k]) : \A t \in Turn :
    log[k][i].by = t => Here(t) = k /\ turn[t].pc \in Speaking

HasRow == \A t \in Turn : turn[t].pc \in Speaking => t \in Writers(Here(t))

(* What is not committed yet has one turn, whose the rows are.              *)
FreshTalk ==
  \A k \in Talk : talk[k] = "fresh" =>
    /\ \A i \in 1..Len(log[k]) : log[k][i].by # Kept
    /\ \A t, u \in Turn : Here(t) = k /\ Here(u) = k => t = u

(* A reservation request of a turn comes with the row of its tool.          *)
Booked ==
  \A b \in Booking : \A t \in Turn : booking[b] = t =>
    /\ turn[t].pc \in Speaking
    /\ \E i \in 1..Len(log[Here(t)]) :
         log[Here(t)][i].by = t /\ log[Here(t)][i].role = "tool"

(* Where no two turns overlapped, a conversation is committed whole turns   *)
(* and then rows of one turn, which are whole but for what it has to come.  *)
OneTurn(k, c) ==
  \E t \in Turn :
    /\ \A i \in (c + 1)..Len(log[k]) : log[k][i].by = t
    /\ Whole(log[k], turn[t].left, turn[t].round)
    /\ On(t, "model") => log[k][Len(log[k])].role \in {"user", "tool"}

Split(k) ==
  \E c \in 0..Len(log[k]) :
    /\ \A i \in 1..c : log[k][i].by = Kept
    /\ Whole(SubSeq(log[k], 1, c), 0, MaxIterations)
    /\ c < Len(log[k]) => OneTurn(k, c)

Splits == \A k \in Talk \ disturbed : Split(k)

ChatInv ==
  /\ ChatTypeOK /\ TurnShape /\ EraserShape /\ RowsHere /\ HasRow /\ FreshTalk
  /\ NoOrphanMessage /\ Booked /\ Splits

LEMMA ChatInvAtInit == ChatInit => ChatInv
<1> SUFFICES ASSUME ChatInit PROVE ChatInv
  OBVIOUS
<1> USE DEF ChatInit
<1>1. \A k \in Talk : log[k] = <<>> /\ Len(log[k]) = 0 /\ <<>> \in Seq(Message)
  BY EmptySeq
<1>2. \A t \in Turn : turn[t] = Silent /\ On(t, "silent")
  BY DEF On, Silent
<1>3. Silent \in TurnRecord
  BY ChatAssumption DEF Silent, TurnRecord
<1>4. ChatTypeOK
  BY <1>1, <1>3 DEF ChatTypeOK, TalkState, Title
<1>5. TurnShape
  BY <1>2 DEF TurnShape, On, Silent
<1>6. EraserShape
  BY DEF EraserShape
<1>7. RowsHere
  BY <1>1 DEF RowsHere
<1>8. HasRow
  BY <1>2 DEF HasRow, Silent, Speaking
<1>9. FreshTalk /\ NoOrphanMessage
  BY <1>1 DEF FreshTalk, NoOrphanMessage
<1>10. Booked
  BY ChatAssumption DEF Booked
<1>11. Splits
  <2>1. ASSUME NEW k \in Talk PROVE Split(k)
    <3>1. PICK p : p = log[k] /\ p = <<>> /\ Len(p) = 0
      BY <1>1
    <3>2. SubSeq(p, 1, 0) = <<>>
      BY <3>1, SubSeqEmpty
    <3>3. PICK c \in 0..Len(p) : c = 0
      BY <3>1
    <3>4. (\A i \in 1..c : p[i].by = Kept) /\ ~(c < Len(p))
      BY <3>1, <3>3
    <3>5. Whole(SubSeq(p, 1, c), 0, MaxIterations)
      BY <3>2, <3>3, NoRowsAreWhole
    <3> QED BY <3>1, <3>3, <3>4, <3>5 DEF Split
  <2> QED BY <2>1 DEF Splits
<1> QED BY <1>4, <1>5, <1>6, <1>7, <1>8, <1>9, <1>10, <1>11 DEF ChatInv

LEMMA LogRows ==
  ASSUME ChatTypeOK, NEW k \in Talk
  PROVE  /\ log[k] \in Seq(Message) /\ Len(log[k]) \in Nat
         /\ \A i \in 1..Len(log[k]) : log[k][i] \in Message
<1>1. log[k] \in Seq(Message)
  BY DEF ChatTypeOK
<1> QED BY <1>1, RowsOf

(* A step that adds no row and takes none away.                             *)
Quiet ==
  /\ log' = log /\ booking' = booking /\ disturbed' = disturbed
  /\ \A u \in Turn :
       \/ turn'[u] = turn[u]
       \/ turn[u].pc \notin Speaking /\ turn'[u].pc \notin Speaking
       \/ /\ turn[u].pc = "model" /\ turn'[u].pc = "fail"
          /\ turn'[u].talk = turn[u].talk
          /\ turn'[u].left = turn[u].left /\ turn'[u].round = turn[u].round

LEMMA QuietKeeps ==
  ASSUME ChatInv, Quiet
  PROVE  /\ RowsHere' /\ HasRow' /\ Booked' /\ Splits'
         /\ \A k \in Talk : Writers(k)' = Writers(k)
<1> USE DEF ChatInv
<1>1. \A u \in Turn : turn[u].pc \in Speaking =>
        /\ turn'[u].pc \in Speaking /\ turn'[u].talk = turn[u].talk
        /\ turn'[u].left = turn[u].left /\ turn'[u].round = turn[u].round
        /\ turn'[u].pc = "model" => turn[u].pc = "model"
  BY DEF Quiet, Speaking
<1>2. \A u \in Turn : turn'[u].pc \in Speaking => turn[u].pc \in Speaking
  BY DEF Quiet, Speaking
<1>3. log' = log /\ booking' = booking /\ disturbed' = disturbed
  BY DEF Quiet
<1>4. \A k \in Talk : Writers(k)' = Writers(k)
  BY <1>3 DEF Writers
<1>5. RowsHere'
  BY <1>1, <1>3 DEF RowsHere, Here
<1>6. HasRow'
  <2>1. ASSUME NEW u \in Turn, turn'[u].pc \in Speaking PROVE (u \in Writers(Here(u)))'
    <3>1. u \in Writers(turn[u].talk)
      BY <1>2, <2>1 DEF HasRow, Here
    <3>2. turn'[u].talk = turn[u].talk
      BY <1>1, <1>2, <2>1
    <3> QED BY <1>3, <3>1, <3>2 DEF Writers, Here
  <2> QED BY <2>1 DEF HasRow
<1>7. Booked'
  <2>1. ASSUME NEW b \in Booking, NEW u \in Turn, booking[b] = u
        PROVE  /\ turn'[u].pc \in Speaking
               /\ \E i \in 1..Len(log[turn'[u].talk]) :
                    log[turn'[u].talk][i].by = u /\ log[turn'[u].talk][i].role = "tool"
    BY <1>1, <2>1 DEF Booked, Here
  <2> QED BY <1>3, <2>1 DEF Booked, Here
<1>8. Splits'
  <2>1. ASSUME NEW k \in Talk \ disturbed, Split(k) PROVE Split(k)'
    <3>1. PICK c \in 0..Len(log[k]) :
            /\ \A i \in 1..c : log[k][i].by = Kept
            /\ Whole(SubSeq(log[k], 1, c), 0, MaxIterations)
            /\ c < Len(log[k]) => OneTurn(k, c)
      BY <2>1 DEF Split
    <3>2. ASSUME c < Len(log[k]) PROVE OneTurn(k, c)'
      <4>1. PICK u \in Turn :
              /\ \A i \in (c + 1)..Len(log[k]) : log[k][i].by = u
              /\ Whole(log[k], turn[u].left, turn[u].round)
              /\ On(u, "model") => log[k][Len(log[k])].role \in {"user", "tool"}
        BY <3>1, <3>2 DEF OneTurn
      <4>2. turn[u].pc \in Speaking
        <5>1. PICK l \in Nat : l = Len(log[k])
          BY LogRows
        <5>2. c + 1 \in (c + 1)..l /\ c + 1 \in 1..l
          BY <3>1, <3>2, <5>1
        <5>3. log[k][c + 1].by = u
          BY <4>1, <5>1, <5>2
        <5> QED BY <5>1, <5>2, <5>3 DEF RowsHere
      <4>3. On(u, "model")' => On(u, "model")
        BY <1>1, <4>2 DEF On
      <4> QED BY <1>1, <1>3, <4>1, <4>2, <4>3 DEF OneTurn
    <3> QED BY <1>3, <3>1, <3>2 DEF Split
  <2> QED BY <1>3, <2>1 DEF Splits
<1> QED BY <1>4, <1>5, <1>6, <1>7, <1>8
------------------------------------------------------------------------------
(* A turn adds a row.                                                       *)
Adds(t, m) ==
  /\ log' = [log EXCEPT ![Here(t)] = Append(@, m)]
  /\ \A u \in Turn \ {t} : turn'[u] = turn[u]
  /\ turn'[t].talk = Here(t) /\ turn'[t].pc \in Speaking
  /\ \A b \in Booking : booking'[b] = booking[b] \/ (booking'[b] = t /\ m.role = "tool")

LEMMA AddedRows ==
  ASSUME ChatTypeOK, NEW t \in Turn, Here(t) \in Talk, NEW m \in Message, Adds(t, m)
  PROVE  /\ log' \in [Talk -> Seq(Message)]
         /\ log'[Here(t)] = Append(log[Here(t)], m)
         /\ \A k \in Talk \ {Here(t)} : log'[k] = log[k]
         /\ Len(log'[Here(t)]) = Len(log[Here(t)]) + 1
         /\ log'[Here(t)][Len(log[Here(t)]) + 1] = m
         /\ \A i \in 1..Len(log[Here(t)]) : log'[Here(t)][i] = log[Here(t)][i]
<1>1. log \in [Talk -> Seq(Message)]
  BY DEF ChatTypeOK
<1>2. PICK k \in Talk : k = Here(t)
  OBVIOUS
<1>3. PICK q : q = Append(log[k], m)
  OBVIOUS
<1>4. log[k] \in Seq(Message)
  BY <1>1
<1>5. /\ q \in Seq(Message) /\ Len(q) = Len(log[k]) + 1 /\ q[Len(log[k]) + 1] = m
      /\ \A i \in 1..Len(log[k]) : q[i] = log[k][i]
  BY <1>3, <1>4, OneMore
<1>6. log' = [log EXCEPT ![k] = q]
  BY <1>2, <1>3 DEF Adds
<1> QED BY <1>1, <1>2, <1>3, <1>5, <1>6

LEMMA AddsKeeps ==
  ASSUME ChatInv, NEW t \in Turn, Here(t) \in Talk, NEW m \in Message, m.by = t, Adds(t, m)
  PROVE  /\ RowsHere' /\ HasRow' /\ Booked'
         /\ \A k \in Talk \ {Here(t)} : Writers(k)' = Writers(k)
<1> USE DEF ChatInv
<1>1. PICK h \in Talk : h = Here(t)
  OBVIOUS
<1>2. PICK l \in Nat : l = Len(log[h])
  BY <1>1, LogRows
<1>3. /\ \A k \in Talk \ {h} : log'[k] = log[k]
      /\ Len(log'[h]) = l + 1 /\ log'[h][l + 1] = m
      /\ \A i \in 1..l : log'[h][i] = log[h][i]
  BY <1>1, <1>2, AddedRows
<1>4. \A u \in Turn : turn'[u].talk = turn[u].talk
  BY DEF Adds, Here
<1>5. \A u \in Turn : turn[u].pc \in Speaking => turn'[u].pc \in Speaking
  BY DEF Adds
<1>6. RowsHere'
  <2>1. ASSUME NEW k \in Talk, NEW i \in 1..Len(log'[k]), NEW u \in Turn, log'[k][i].by = u
        PROVE  turn'[u].talk = k /\ turn'[u].pc \in Speaking
    <3>1. CASE k # h
      BY <1>3, <1>4, <1>5, <2>1, <3>1 DEF RowsHere, Here
    <3>2. CASE k = h /\ i \in 1..l
      BY <1>2, <1>3, <1>4, <1>5, <2>1, <3>2 DEF RowsHere, Here
    <3>3. CASE k = h /\ i = l + 1
      <4>1. u = t
        BY <1>3, <2>1, <3>3
      <4> QED BY <1>1, <3>3, <4>1 DEF Adds
    <3>4. k = h => i \in 1..l \/ i = l + 1
      BY <1>3
    <3> QED BY <3>1, <3>2, <3>3, <3>4
  <2> QED BY <2>1 DEF RowsHere, Here
<1>7. HasRow'
  <2>1. ASSUME NEW u \in Turn, turn'[u].pc \in Speaking PROVE (u \in Writers(Here(u)))'
    <3>1. CASE u = t
      <4>1. Here(u)' = h
        BY <1>1, <1>4, <3>1 DEF Here
      <4>2. l + 1 \in 1..Len(log'[h]) /\ log'[h][l + 1].by = u
        BY <1>3, <3>1
      <4> QED BY <4>1, <4>2 DEF Writers
    <3>2. CASE u # t
      <4>1. turn[u].pc \in Speaking
        BY <2>1, <3>2 DEF Adds
      <4>2. PICK i \in 1..Len(log[Here(u)]) : log[Here(u)][i].by = u
        BY <4>1 DEF HasRow, Writers
      <4>3. Here(u) \in Talk
        BY <4>1 DEF TurnShape, On, Speaking
      <4>4. i \in 1..Len(log'[Here(u)]) /\ log'[Here(u)][i].by = u
        BY <1>2, <1>3, <4>2, <4>3
      <4>5. Here(u)' = Here(u)
        BY <1>4 DEF Here
      <4> QED BY <4>4, <4>5 DEF Writers
    <3> QED BY <3>1, <3>2
  <2> QED BY <2>1 DEF HasRow
<1>8. Booked'
  <2>1. ASSUME NEW b \in Booking, NEW u \in Turn, booking'[b] = u
        PROVE  /\ turn'[u].pc \in Speaking
               /\ \E i \in 1..Len(log'[turn'[u].talk]) :
                    log'[turn'[u].talk][i].by = u /\ log'[turn'[u].talk][i].role = "tool"
    <3>1. CASE booking[b] = u
      <4>1. /\ turn[u].pc \in Speaking
            /\ \E i \in 1..Len(log[Here(u)]) :
                 log[Here(u)][i].by = u /\ log[Here(u)][i].role = "tool"
        BY <3>1 DEF Booked
      <4>2. Here(u) \in Talk
        BY <4>1 DEF TurnShape, On, Speaking
      <4>3. \A i \in 1..Len(log[Here(u)]) :
              i \in 1..Len(log'[Here(u)]) /\ log'[Here(u)][i] = log[Here(u)][i]
        BY <1>2, <1>3, <4>2
      <4>4. turn'[u].talk = Here(u)
        BY <1>4 DEF Here
      <4> QED BY <1>5, <4>1, <4>3, <4>4
    <3>2. CASE u = t /\ m.role = "tool"
      <4>1. turn'[u].talk = h /\ turn'[u].pc \in Speaking
        BY <1>1, <3>2 DEF Adds
      <4>2. l + 1 \in 1..Len(log'[h]) /\ log'[h][l + 1].by = u /\ log'[h][l + 1].role = "tool"
        BY <1>3, <3>2
      <4> QED BY <4>1, <4>2
    <3> QED BY <2>1, <3>1, <3>2 DEF Adds
  <2> QED BY <2>1 DEF Booked, Here
<1>9. \A k \in Talk \ {h} : Writers(k)' = Writers(k)
  BY <1>3 DEF Writers
<1> QED BY <1>1, <1>6, <1>7, <1>8, <1>9

(* A conversation whose rows stay, and the turn that has rows in it, stays  *)
(* as it is divided.                                                        *)
LEMMA SplitStays ==
  ASSUME ChatInv, NEW k \in Talk, Split(k), log'[k] = log[k],
         \A u \in Turn : Here(u) = k => turn'[u] = turn[u]
  PROVE  Split(k)'
<1>1. PICK c \in 0..Len(log[k]) :
        /\ \A i \in 1..c : log[k][i].by = Kept
        /\ Whole(SubSeq(log[k], 1, c), 0, MaxIterations)
        /\ c < Len(log[k]) => OneTurn(k, c)
  BY DEF Split
<1>2. ASSUME c < Len(log[k]) PROVE OneTurn(k, c)'
  <2>1. PICK u \in Turn :
          /\ \A i \in (c + 1)..Len(log[k]) : log[k][i].by = u
          /\ Whole(log[k], turn[u].left, turn[u].round)
          /\ On(u, "model") => log[k][Len(log[k])].role \in {"user", "tool"}
    BY <1>1, <1>2 DEF OneTurn
  <2>2. Here(u) = k
    <3>1. PICK l \in Nat : l = Len(log[k])
      BY LogRows DEF ChatInv
    <3>2. c + 1 \in (c + 1)..l /\ c + 1 \in 1..l
      BY <1>1, <1>2, <3>1
    <3>3. log[k][c + 1].by = u
      BY <2>1, <3>1, <3>2
    <3> QED BY <3>1, <3>2, <3>3 DEF RowsHere, ChatInv
  <2>3. turn'[u] = turn[u]
    BY <2>2
  <2> QED BY <2>1, <2>3 DEF OneTurn, On
<1> QED BY <1>1, <1>2 DEF Split

(* The conversation of a turn that has a row there, when it is alone.       *)
LEMMA OwnSplit ==
  ASSUME ChatInv, NEW t \in Turn, turn[t].pc \in Speaking, Here(t) \in Talk \ disturbed
  PROVE  \E c \in 0..Len(log[Here(t)]) :
           /\ c < Len(log[Here(t)])
           /\ \A i \in 1..c : log[Here(t)][i].by = Kept
           /\ \A i \in (c + 1)..Len(log[Here(t)]) : log[Here(t)][i].by = t
           /\ Whole(SubSeq(log[Here(t)], 1, c), 0, MaxIterations)
           /\ Whole(log[Here(t)], turn[t].left, turn[t].round)
           /\ On(t, "model") => log[Here(t)][Len(log[Here(t)])].role \in {"user", "tool"}
<1> USE DEF ChatInv
<1>1. PICK k \in Talk \ disturbed : k = Here(t)
  OBVIOUS
<1>2. PICK l \in Nat : l = Len(log[k])
  BY <1>1, LogRows
<1>3. PICK n \in 1..l : log[k][n].by = t
  BY <1>1, <1>2 DEF HasRow, Writers
<1>4. PICK c \in 0..l :
        /\ \A i \in 1..c : log[k][i].by = Kept
        /\ Whole(SubSeq(log[k], 1, c), 0, MaxIterations)
        /\ c < l => OneTurn(k, c)
  BY <1>1, <1>2 DEF Splits, Split
<1>5. n \in (c + 1)..l /\ c < l
  <2>1. n \notin 1..c
    BY <1>3, <1>4, ChatAssumption
  <2> QED BY <1>3, <1>4, <2>1
<1>6. PICK u \in Turn :
        /\ \A i \in (c + 1)..l : log[k][i].by = u
        /\ Whole(log[k], turn[u].left, turn[u].round)
        /\ On(u, "model") => log[k][l].role \in {"user", "tool"}
  BY <1>2, <1>4, <1>5 DEF OneTurn
<1>7. u = t
  BY <1>3, <1>5, <1>6
<1> QED BY <1>1, <1>2, <1>4, <1>5, <1>6, <1>7

(* Where no turn has a row, all of it is committed.                         *)
LEMMA QuietSplit ==
  ASSUME ChatInv, NEW k \in Talk \ disturbed, Writers(k) = {}
  PROVE  /\ \A i \in 1..Len(log[k]) : log[k][i].by = Kept
         /\ Whole(log[k], 0, MaxIterations)
<1> USE DEF ChatInv
<1>1. PICK l \in Nat : l = Len(log[k])
  BY LogRows
<1>2. PICK c \in 0..l :
        /\ \A i \in 1..c : log[k][i].by = Kept
        /\ Whole(SubSeq(log[k], 1, c), 0, MaxIterations)
        /\ c < l => OneTurn(k, c)
  BY <1>1 DEF Splits, Split
<1>3. c = l
  <2>1. SUFFICES ASSUME c < l PROVE FALSE
    BY <1>2
  <2>2. PICK u \in Turn : \A i \in (c + 1)..l : log[k][i].by = u
    BY <1>1, <1>2, <2>1 DEF OneTurn
  <2>3. c + 1 \in (c + 1)..l /\ c + 1 \in 1..l
    BY <1>2, <2>1
  <2> QED BY <1>1, <2>2, <2>3 DEF Writers
<1>4. SubSeq(log[k], 1, l) = log[k]
  <2>1. PICK p \in Seq(Message) : p = log[k]
    BY LogRows
  <2> QED BY <1>1, <2>1, SubSeqFull
<1> QED BY <1>1, <1>2, <1>3, <1>4

LEMMA SameHead ==
  ASSUME NEW p \in Seq(Message), NEW q \in Seq(Message), NEW c \in 0..Len(p), c <= Len(q),
         \A i \in 1..c : q[i] = p[i]
  PROVE  SubSeq(q, 1, c) = SubSeq(p, 1, c)
<1>1. c \in Int /\ c <= Len(p) /\ Len(p) \in Nat /\ Len(q) \in Nat
  BY RowsOf
<1>2. \A i \in 1..c : p[i] \in Message /\ q[i] \in Message
  BY <1>1, RowsOf
<1>3. PICK a : a = SubSeq(p, 1, c)
  OBVIOUS
<1>4. PICK b : b = SubSeq(q, 1, c)
  OBVIOUS
<1>5. a \in Seq(Message) /\ b \in Seq(Message) /\ Len(a) = Len(b)
  BY <1>1, <1>2, <1>3, <1>4, SubSeqProperties
<1>6. Len(a) = IF 1 <= c THEN c - 1 + 1 ELSE 0
  BY <1>1, <1>2, <1>3, SubSeqProperties
<1>7. \A i \in 1..(c - 1 + 1) : a[i] = p[1 + i - 1]
  BY <1>1, <1>2, <1>3, SubSeqProperties
<1>8. \A i \in 1..(c - 1 + 1) : b[i] = q[1 + i - 1]
  BY <1>1, <1>2, <1>4, SubSeqProperties
<1>9. \A i \in 1..Len(a) : a[i] = b[i]
  BY <1>1, <1>6, <1>7, <1>8
<1> QED BY <1>3, <1>4, <1>5, <1>9, SeqEqual

LEMMA AddsAround ==
  ASSUME ChatInv, NEW t \in Turn, Here(t) \in Talk, NEW m \in Message, m.by = t, Adds(t, m),
         talk' = talk, eraser' = eraser, ~Deleted(Here(t)),
         talk[Here(t)] \notin {"absent", "gone"}
  PROVE  EraserShape' /\ FreshTalk' /\ NoOrphanMessage'
<1> USE DEF ChatInv
<1>1. PICK h \in Talk : h = Here(t)
  OBVIOUS
<1>2. PICK l \in Nat : l = Len(log[h])
  BY <1>1, LogRows
<1>3. /\ \A k \in Talk \ {h} : log'[k] = log[k]
      /\ Len(log'[h]) = l + 1 /\ log'[h][l + 1] = m
      /\ \A i \in 1..l : log'[h][i] = log[h][i]
  BY <1>1, <1>2, AddedRows
<1>4. \A u \in Turn : Here(u)' = Here(u)
  BY DEF Adds, Here
<1>5. EraserShape'
  <2>1. ASSUME eraser.pc = "commit" PROVE Writers(eraser.talk)' = {}
    <3>1. eraser.talk \in Talk /\ Writers(eraser.talk) = {}
      BY <2>1 DEF EraserShape
    <3>2. eraser.talk # h
      <4>1. eraser \in [pc : {"idle", "drop", "commit"}, talk : Talk \cup {NoTalk}]
        BY DEF ChatTypeOK
      <4>2. eraser = [pc |-> eraser.pc, talk |-> eraser.talk]
        BY <4>1
      <4> QED BY <1>1, <2>1, <4>2 DEF Deleted
    <3>3. log'[eraser.talk] = log[eraser.talk]
      BY <1>3, <3>1, <3>2
    <3> QED BY <3>1, <3>3 DEF Writers
  <2> QED BY <2>1 DEF EraserShape
<1>6. FreshTalk'
  <2>1. ASSUME NEW k \in Talk, talk[k] = "fresh"
        PROVE  \A i \in 1..Len(log'[k]) : log'[k][i].by # Kept
    <3>1. \A i \in 1..Len(log[k]) : log[k][i].by # Kept
      BY <2>1 DEF FreshTalk
    <3>2. CASE k # h
      BY <1>3, <3>1, <3>2
    <3>3. CASE k = h
      <4>1. \A i \in 1..(l + 1) : i \in 1..l \/ i = l + 1
        OBVIOUS
      <4> QED BY <1>2, <1>3, <3>1, <3>3, <4>1, ChatAssumption
    <3> QED BY <3>2, <3>3
  <2> QED BY <1>4, <2>1 DEF FreshTalk
<1>7. NoOrphanMessage'
  BY <1>1, <1>3 DEF NoOrphanMessage
<1> QED BY <1>5, <1>6, <1>7

LEMMA AddsSplits ==
  ASSUME ChatInv, NEW t \in Turn, turn[t].pc \in Speaking, Here(t) \in Talk,
         NEW m \in Message, m.by = t, Adds(t, m), disturbed' = disturbed,
         Here(t) \notin disturbed =>
           Whole(Append(log[Here(t)], m), turn'[t].left, turn'[t].round),
         turn'[t].pc = "model" => m.role \in {"user", "tool"}
  PROVE  Splits'
<1> USE DEF ChatInv
<1>1. PICK h \in Talk : h = Here(t)
  OBVIOUS
<1>2. PICK l \in Nat : l = Len(log[h])
  BY <1>1, LogRows
<1>3. /\ \A k \in Talk \ {h} : log'[k] = log[k]
      /\ Len(log'[h]) = l + 1 /\ log'[h][l + 1] = m
      /\ \A i \in 1..l : log'[h][i] = log[h][i]
      /\ log'[h] = Append(log[h], m) /\ log' \in [Talk -> Seq(Message)]
  BY <1>1, <1>2, AddedRows
<1>4. ASSUME NEW k \in Talk \ disturbed PROVE Split(k)'
  <2>1. CASE k # h
    <3>1. Split(k) /\ log'[k] = log[k]
      BY <1>3, <1>4, <2>1 DEF Splits
    <3>2. \A u \in Turn : Here(u) = k => turn'[u] = turn[u]
      BY <1>1, <2>1 DEF Adds
    <3> QED BY <3>1, <3>2, SplitStays
  <2>2. CASE k = h
    <3>1. PICK c \in 0..l :
            /\ c < l
            /\ \A i \in 1..c : log[h][i].by = Kept
            /\ \A i \in (c + 1)..l : log[h][i].by = t
            /\ Whole(SubSeq(log[h], 1, c), 0, MaxIterations)
      BY <1>1, <1>2, <1>4, <2>2, OwnSplit
    <3>2. c \in 0..Len(log'[h]) /\ \A i \in 1..c : log'[h][i].by = Kept
      BY <1>3, <3>1
    <3>3. SubSeq(log'[h], 1, c) = SubSeq(log[h], 1, c)
      <4>1. log[h] \in Seq(Message) /\ log'[h] \in Seq(Message)
        BY <1>3, LogRows
      <4> QED BY <1>2, <1>3, <3>1, <4>1, SameHead
    <3>4. \A i \in (c + 1)..(l + 1) : log'[h][i].by = t
      <4>1. \A i \in (c + 1)..(l + 1) : (i \in 1..l /\ i \in (c + 1)..l) \/ i = l + 1
        BY <3>1
      <4> QED BY <1>3, <3>1, <4>1
    <3>5. OneTurn(h, c)'
      BY <1>1, <1>3, <1>4, <2>2, <3>4 DEF OneTurn, On
    <3> QED BY <2>2, <3>1, <3>2, <3>3, <3>5 DEF Split
  <2> QED BY <2>1, <2>2
<1> QED BY <1>4 DEF Splits

(* A turn with a row in its conversation keeps it from being deleted.       *)
LEMMA SpeakingHolds ==
  ASSUME ChatInv, NEW t \in Turn, turn[t].pc \in Speaking
  PROVE  /\ Here(t) \in Talk /\ ~Deleted(Here(t))
         /\ talk[Here(t)] \notin {"absent", "gone"}
         /\ turn[t] \in TurnRecord
         /\ log[Here(t)] # <<>>
<1> USE DEF ChatInv
<1>1. Here(t) \in Talk /\ talk[Here(t)] # "absent"
  BY DEF TurnShape, On, Speaking
<1>2. t \in Writers(Here(t))
  BY DEF HasRow
<1>3. ~Deleted(Here(t))
  BY <1>2 DEF Deleted, EraserShape
<1>4. log[Here(t)] # <<>>
  <2>1. SUFFICES ASSUME log[Here(t)] = <<>> PROVE FALSE
    OBVIOUS
  <2>2. PICK i \in 1..Len(log[Here(t)]) : TRUE
    BY <1>2 DEF Writers
  <2>3. Len(log[Here(t)]) = 0
    BY <2>1, EmptySeq
  <2> QED BY <2>2, <2>3
<1>5. talk[Here(t)] # "gone"
  BY <1>1, <1>4 DEF NoOrphanMessage
<1>6. turn[t] \in TurnRecord
  BY DEF ChatTypeOK
<1> QED BY <1>1, <1>3, <1>4, <1>5, <1>6

(* The fields of a turn after an update.                                    *)
LEMMA TurnAtPc ==
  ASSUME NEW q \in TurnRecord, NEW v \in {"silent", "ask", "model", "tools", "commit", "fail"}
  PROVE  /\ [q EXCEPT !.pc = v] \in TurnRecord /\ [q EXCEPT !.pc = v].pc = v
         /\ [q EXCEPT !.pc = v].talk = q.talk
         /\ [q EXCEPT !.pc = v].round = q.round /\ [q EXCEPT !.pc = v].left = q.left
BY DEF TurnRecord

LEMMA AtWords ==
  ASSUME NEW q \in TurnRecord, q.round < MaxIterations
  PROVE  LET r == [q EXCEPT !.pc = "commit", !.round = @ + 1] IN
           /\ r \in TurnRecord /\ r.pc = "commit" /\ r.talk = q.talk
           /\ r.round = q.round + 1 /\ r.left = q.left
<1>1. q.round \in Nat /\ q.round + 1 \in 0..MaxIterations
  BY ChatAssumption DEF TurnRecord
<1> QED BY <1>1 DEF TurnRecord

LEMMA AtAnswer ==
  ASSUME NEW q \in TurnRecord, q.round < MaxIterations, NEW n \in 1..MaxCalls
  PROVE  LET r == [q EXCEPT !.pc = "tools", !.round = @ + 1, !.left = n] IN
           /\ r \in TurnRecord /\ r.pc = "tools" /\ r.talk = q.talk
           /\ r.round = q.round + 1 /\ r.left = n
<1>1. q.round \in Nat /\ q.round + 1 \in 0..MaxIterations /\ n \in 0..MaxCalls
  BY ChatAssumption DEF TurnRecord
<1> QED BY <1>1 DEF TurnRecord

LEMMA AtResult ==
  ASSUME NEW q \in TurnRecord, q.left > 0
  PROVE  LET s == [q EXCEPT !.left = @ - 1] IN
           /\ s \in TurnRecord /\ s.talk = q.talk
           /\ s.round = q.round /\ s.left = q.left - 1
<1>1. q.left - 1 \in 0..MaxCalls
  BY ChatAssumption DEF TurnRecord
<1> QED BY <1>1 DEF TurnRecord

LEMMA AskStep ==
  ASSUME ChatInv, NEW t \in Turn, AskTurn(t)
  PROVE  ChatInv'
<1> USE DEF ChatInv
<1>1. PICK m : m = [role |-> "user", calls |-> 0, by |-> t]
  OBVIOUS
<1>2. m \in Message /\ m.role = "user" /\ m.calls = 0 /\ m.by = t
  BY <1>1, ChatAssumption DEF Message
<1>3. PICK q \in TurnRecord : q = turn[t] /\ q.pc = "ask"
  BY DEF AskTurn, On, ChatTypeOK
<1>4. PICK h \in Talk : h = Here(t) /\ talk[h] \notin {"absent", "gone"} /\ ~Deleted(h)
  BY <1>3 DEF TurnShape, On, AskTurn
<1>5. PICK r \in TurnRecord :
        /\ turn' = [turn EXCEPT ![t] = r]
        /\ r.pc = "model" /\ r.talk = h /\ r.round = q.round /\ r.left = q.left
  <2>1. turn' = [turn EXCEPT ![t] = [q EXCEPT !.pc = "model"]]
    BY <1>3 DEF AskTurn, TurnGoes
  <2>2. q.talk = h
    BY <1>3, <1>4 DEF Here
  <2> QED BY <2>1, <2>2, TurnAtPc
<1>6. q.left = 0
  BY <1>3 DEF TurnShape, On, TurnRecord
<1>7. Adds(t, m)
  <2>1. log' = [log EXCEPT ![Here(t)] = Append(@, m)]
    BY <1>1 DEF AskTurn, Says
  <2>2. (\A u \in Turn \ {t} : turn'[u] = turn[u]) /\ turn'[t] = r
    BY <1>5 DEF ChatTypeOK
  <2>3. booking' = booking
    BY DEF AskTurn
  <2> QED BY <1>4, <1>5, <2>1, <2>2, <2>3 DEF Adds, Speaking
<1>8. RowsHere' /\ HasRow' /\ Booked' /\ \A k \in Talk \ {h} : Writers(k)' = Writers(k)
  BY <1>2, <1>4, <1>7, AddsKeeps
<1>9. talk' = talk /\ title' = title /\ titling' = titling /\ eraser' = eraser /\ booking' = booking
  BY DEF AskTurn
<1>10. EraserShape' /\ FreshTalk' /\ NoOrphanMessage'
  BY <1>2, <1>4, <1>7, <1>9, AddsAround
<1>11. disturbed' = IF Writers(h) = {} THEN disturbed ELSE disturbed \cup {h}
  BY <1>4 DEF AskTurn
<1>12. log' \in [Talk -> Seq(Message)] /\ log'[h] = Append(log[h], m) /\ \A k \in Talk \ {h} : log'[k] = log[k]
  BY <1>2, <1>4, <1>7, AddedRows
<1>13. ChatTypeOK'
  <2>1. turn' \in [Turn -> TurnRecord]
    BY <1>5 DEF ChatTypeOK
  <2> QED BY <1>4, <1>9, <1>11, <1>12, <2>1 DEF ChatTypeOK
<1>14. TurnShape'
  <2>1. \A u \in Turn : u # t => turn'[u] = turn[u]
    BY <1>5 DEF ChatTypeOK
  <2>2. turn'[t] = r
    BY <1>5 DEF ChatTypeOK
  <2>3. q.round < MaxIterations
    BY <1>3 DEF TurnShape, On
  <2> QED BY <1>4, <1>5, <1>6, <1>9, <2>1, <2>2, <2>3 DEF TurnShape, On, Here
<1>15. Splits'
  <2>1. ASSUME NEW k \in Talk \ disturbed' PROVE Split(k)'
    <3>1. CASE k # h
      <4>1. Split(k)
        BY <1>11, <2>1 DEF Splits
      <4>2. \A u \in Turn : Here(u) = k => turn'[u] = turn[u]
        BY <1>4, <1>7, <3>1 DEF Adds
      <4> QED BY <1>12, <2>1, <3>1, <4>1, <4>2, SplitStays
    <3>2. CASE k = h
      <4>1. Writers(h) = {} /\ h \notin disturbed
        BY <1>11, <2>1, <3>2
      <4>2. (\A i \in 1..Len(log[h]) : log[h][i].by = Kept) /\ Whole(log[h], 0, MaxIterations)
        BY <4>1, QuietSplit
      <4>3. PICK p \in Seq(Message) : p = log[h]
        BY LogRows
      <4>4. PICK l \in Nat : l = Len(p)
        BY <4>3, RowsOf
      <4>5. PICK s \in Seq(Message) : s = Append(p, m) /\ s = log'[h]
        BY <1>2, <1>12, <4>3, OneMore
      <4>6. Len(s) = l + 1 /\ s[l + 1] = m /\ \A i \in 1..l : s[i] = p[i]
        <5>1. /\ Len(Append(p, m)) = Len(p) + 1 /\ Append(p, m)[Len(p) + 1] = m
              /\ \A i \in 1..Len(p) : Append(p, m)[i] = p[i]
          BY <1>2, OneMore
        <5> QED BY <4>4, <4>5, <5>1
      <4>7. SubSeq(s, 1, l) = p
        <5>1. SubSeq(s, 1, l) = SubSeq(p, 1, l)
          BY <4>4, <4>6, SameHead
        <5> QED BY <4>4, <5>1, SubSeqFull
      <4>8. Whole(s, 0, r.round)
        <5>1. r.round \in Nat /\ MaxIterations \in Nat
          BY <1>5, ChatAssumption DEF TurnRecord
        <5>2. Whole(p, 0, MaxIterations)
          BY <4>2, <4>3
        <5>3. Whole(Append(p, m), 0, r.round)
          BY <1>2, <5>1, <5>2, QuestionMore
        <5> QED BY <4>5, <5>3
      <4>9. turn'[t] = r
        BY <1>5 DEF ChatTypeOK
      <4>10. l \in 0..Len(s) /\ \A i \in 1..l : s[i].by = Kept
        BY <4>2, <4>3, <4>4, <4>6
      <4>11. \A i \in (l + 1)..Len(s) : s[i].by = t
        BY <1>2, <4>6
      <4>12. s[Len(s)].role = "user"
        BY <1>2, <4>6
      <4>13. OneTurn(h, l)'
        BY <1>5, <1>6, <4>5, <4>8, <4>9, <4>11, <4>12 DEF OneTurn, On
      <4>14. Whole(SubSeq(s, 1, l), 0, MaxIterations)
        BY <4>2, <4>3, <4>7
      <4> QED BY <3>2, <4>5, <4>10, <4>13, <4>14 DEF Split
    <3> QED BY <3>1, <3>2
  <2> QED BY <2>1 DEF Splits
<1> QED BY <1>8, <1>10, <1>13, <1>14, <1>15

(* A turn with rows adds one.                                               *)
LEMMA SpeakStep ==
  ASSUME ChatInv, NEW t \in Turn, turn[t].pc \in Speaking,
         NEW m \in Message, m.by = t,
         NEW r \in TurnRecord, turn' = [turn EXCEPT ![t] = r],
         r.talk = Here(t), r.pc \in Speaking,
         log' = [log EXCEPT ![Here(t)] = Append(@, m)],
         \A b \in Booking : booking'[b] = booking[b] \/ (booking'[b] = t /\ m.role = "tool"),
         booking' \in [Booking -> {"absent", "kept", "lost"} \cup Turn],
         talk' = talk, title' = title, titling' = titling, eraser' = eraser,
         disturbed' = disturbed,
         r.pc = "model" => r.round < MaxIterations /\ m.role \in {"user", "tool"},
         r.pc = "tools" <=> r.left > 0,
         Here(t) \notin disturbed => Whole(Append(log[Here(t)], m), r.left, r.round)
  PROVE  ChatInv'
<1> USE DEF ChatInv
<1>1. PICK h \in Talk : h = Here(t) /\ talk[h] \notin {"absent", "gone"} /\ ~Deleted(h)
  BY SpeakingHolds
<1>2. (\A u \in Turn \ {t} : turn'[u] = turn[u]) /\ turn'[t] = r
  BY DEF ChatTypeOK
<1>3. Adds(t, m)
  BY <1>2 DEF Adds
<1>4. RowsHere' /\ HasRow' /\ Booked' /\ \A k \in Talk \ {h} : Writers(k)' = Writers(k)
  BY <1>1, <1>3, AddsKeeps
<1>5. EraserShape' /\ FreshTalk' /\ NoOrphanMessage'
  BY <1>1, <1>3, AddsAround
<1>6. log' \in [Talk -> Seq(Message)]
  BY <1>1, <1>3, AddedRows
<1>7. ChatTypeOK'
  <2>1. turn' \in [Turn -> TurnRecord]
    BY DEF ChatTypeOK
  <2> QED BY <1>6, <2>1 DEF ChatTypeOK
<1>8. TurnShape'
  <2>1. ASSUME NEW u \in Turn, u # t
        PROVE  /\ On(u, "silent")' => turn'[u] = Silent
               /\ ~On(u, "silent")' => turn'[u].talk \in Talk /\ talk[turn'[u].talk] # "absent"
               /\ turn'[u].pc \in {"ask", "model"} => turn'[u].round < MaxIterations
               /\ On(u, "tools")' <=> turn'[u].left > 0
    BY <1>2, <2>1 DEF TurnShape, On, Here
  <2>2. /\ r.pc # "silent" /\ r.pc # "ask"
        /\ r.talk \in Talk /\ talk[r.talk] # "absent"
    BY <1>1 DEF Speaking
  <2> QED BY <1>2, <2>1, <2>2 DEF TurnShape, On, Here
<1>9. Splits'
  BY <1>1, <1>2, <1>3, AddsSplits
<1> QED BY <1>4, <1>5, <1>7, <1>8, <1>9

(* What a turn at the model, or at its tools, has so far.                   *)
LEMMA OwnRows ==
  ASSUME ChatInv, NEW t \in Turn, turn[t].pc \in Speaking, Here(t) \notin disturbed
  PROVE  /\ log[Here(t)] \in Seq(Message) /\ log[Here(t)] # <<>>
         /\ Whole(log[Here(t)], turn[t].left, turn[t].round)
         /\ On(t, "model") => log[Here(t)][Len(log[Here(t)])].role \in {"user", "tool"}
BY SpeakingHolds, OwnSplit, LogRows DEF ChatInv

LEMMA AnswerTextStep ==
  ASSUME ChatInv, NEW t \in Turn, AnswerText(t)
  PROVE  ChatInv'
<1>1. PICK m : m = [role |-> "assistant", calls |-> 0, by |-> t]
  OBVIOUS
<1>2. m \in Message /\ m.role = "assistant" /\ m.calls = 0 /\ m.by = t
  BY <1>1, ChatAssumption DEF Message
<1>3. PICK q \in TurnRecord : q = turn[t] /\ q.pc = "model" /\ q.round < MaxIterations /\ q.left = 0
  BY DEF AnswerText, On, ChatInv, ChatTypeOK, TurnShape, TurnRecord
<1>4. PICK r \in TurnRecord :
        /\ turn' = [turn EXCEPT ![t] = r]
        /\ r.pc = "commit" /\ r.talk = q.talk /\ r.round = q.round + 1 /\ r.left = 0
  <2>1. PICK r : r = [turn[t] EXCEPT !.pc = "commit", !.round = @ + 1]
    OBVIOUS
  <2>2. turn' = [turn EXCEPT ![t] = r]
    BY <2>1 DEF AnswerText, TurnGoes
  <2>4. /\ r \in TurnRecord /\ r.pc = "commit" /\ r.talk = turn[t].talk
        /\ r.round = turn[t].round + 1 /\ r.left = turn[t].left
    BY <1>3, <2>1, AtWords
  <2> QED BY <1>3, <2>2, <2>4
<1>5. ASSUME Here(t) \notin disturbed
      PROVE  Whole(Append(log[Here(t)], m), r.left, r.round)
  <2>1. /\ log[Here(t)] \in Seq(Message) /\ log[Here(t)] # <<>>
        /\ Whole(log[Here(t)], 0, q.round)
        /\ log[Here(t)][Len(log[Here(t)])].role \in {"user", "tool"}
    BY <1>3, <1>5, OwnRows DEF On, Speaking
  <2>2. q.round \in Nat
    BY DEF TurnRecord
  <2> QED BY <1>2, <1>3, <1>4, <2>1, <2>2, AnswerMore
<1>6. turn[t].pc \in Speaking /\ r.pc \in Speaking /\ r.talk = Here(t)
  BY <1>3, <1>4 DEF Speaking, Here
<1>7. log' = [log EXCEPT ![Here(t)] = Append(@, m)]
  BY <1>1 DEF AnswerText, Says
<1>8. /\ talk' = talk /\ title' = title /\ titling' = titling /\ eraser' = eraser
      /\ booking' = booking /\ disturbed' = disturbed
  BY DEF AnswerText
<1>9. booking \in [Booking -> {"absent", "kept", "lost"} \cup Turn]
  BY DEF ChatInv, ChatTypeOK
<1>10. r.pc # "model" /\ (r.pc = "tools" <=> r.left > 0)
  BY <1>4
<1> QED BY <1>2, <1>4, <1>5, <1>6, <1>7, <1>8, <1>9, <1>10, SpeakStep

LEMMA AnswerCallsStep ==
  ASSUME ChatInv, NEW t \in Turn, NEW n \in 1..MaxCalls, AnswerCalls(t, n)
  PROVE  ChatInv'
<1>1. PICK m : m = [role |-> "assistant", calls |-> n, by |-> t]
  OBVIOUS
<1>2. m \in Message /\ m.role = "assistant" /\ m.calls = n /\ m.by = t
  BY <1>1, ChatAssumption DEF Message
<1>3. PICK q \in TurnRecord : q = turn[t] /\ q.pc = "model" /\ q.round < MaxIterations /\ q.left = 0
  BY DEF AnswerCalls, On, ChatInv, ChatTypeOK, TurnShape, TurnRecord
<1>4. PICK r \in TurnRecord :
        /\ turn' = [turn EXCEPT ![t] = r]
        /\ r.pc = "tools" /\ r.talk = q.talk /\ r.round = q.round + 1 /\ r.left = n
  <2>1. PICK r : r = [turn[t] EXCEPT !.pc = "tools", !.round = @ + 1, !.left = n]
    OBVIOUS
  <2>2. turn' = [turn EXCEPT ![t] = r]
    BY <2>1 DEF AnswerCalls, TurnGoes
  <2>3. /\ r \in TurnRecord /\ r.pc = "tools" /\ r.talk = turn[t].talk
        /\ r.round = turn[t].round + 1 /\ r.left = n
    <3>1. turn[t] \in TurnRecord /\ turn[t].round < MaxIterations
      BY <1>3
    <3> QED BY <2>1, <3>1, AtAnswer
  <2> QED BY <1>3, <2>2, <2>3
<1>5. ASSUME Here(t) \notin disturbed
      PROVE  Whole(Append(log[Here(t)], m), r.left, r.round)
  <2>1. /\ log[Here(t)] \in Seq(Message) /\ log[Here(t)] # <<>>
        /\ Whole(log[Here(t)], 0, q.round)
        /\ log[Here(t)][Len(log[Here(t)])].role \in {"user", "tool"}
    BY <1>3, <1>5, OwnRows DEF On, Speaking
  <2>2. q.round \in Nat
    BY DEF TurnRecord
  <2> QED BY <1>2, <1>3, <1>4, <2>1, <2>2, AnswerMore
<1>6. turn[t].pc \in Speaking /\ r.pc \in Speaking /\ r.talk = Here(t)
  BY <1>3, <1>4 DEF Speaking, Here
<1>7. log' = [log EXCEPT ![Here(t)] = Append(@, m)]
  BY <1>1 DEF AnswerCalls, Says
<1>8. /\ talk' = talk /\ title' = title /\ titling' = titling /\ eraser' = eraser
      /\ booking' = booking /\ disturbed' = disturbed
  BY DEF AnswerCalls
<1>9. booking \in [Booking -> {"absent", "kept", "lost"} \cup Turn]
  BY DEF ChatInv, ChatTypeOK
<1>10. r.pc # "model" /\ (r.pc = "tools" <=> r.left > 0)
  BY <1>4
<1> QED BY <1>2, <1>4, <1>5, <1>6, <1>7, <1>8, <1>9, <1>10, SpeakStep

LEMMA ResultStep ==
  ASSUME ChatInv, NEW t \in Turn, On(t, "tools"), Result(t),
         \A b \in Booking : booking'[b] \in {booking[b], t},
         booking' \in [Booking -> {"absent", "kept", "lost"} \cup Turn]
  PROVE  ChatInv'
<1>1. PICK m : m = [role |-> "tool", calls |-> 0, by |-> t]
  OBVIOUS
<1>2. m \in Message /\ m.role = "tool" /\ m.calls = 0 /\ m.by = t
  BY <1>1, ChatAssumption DEF Message
<1>3. PICK q \in TurnRecord : q = turn[t] /\ q.pc = "tools" /\ q.left > 0
  BY DEF On, ChatInv, ChatTypeOK, TurnShape
<1>4. PICK s \in TurnRecord :
        /\ s = [turn[t] EXCEPT !.left = @ - 1]
        /\ s.talk = q.talk /\ s.round = q.round /\ s.left = q.left - 1
  <2>1. PICK s : s = [turn[t] EXCEPT !.left = @ - 1]
    OBVIOUS
  <2>2. /\ s \in TurnRecord /\ s.talk = turn[t].talk
        /\ s.round = turn[t].round /\ s.left = turn[t].left - 1
    BY <1>3, <2>1, AtResult
  <2> QED BY <1>3, <2>1, <2>2
<1>5. PICK v \in {"tools", "model", "fail"} :
        /\ v = AfterTool(s)
        /\ v = "tools" <=> s.left > 0
        /\ v = "model" => s.round < MaxIterations
  BY DEF AfterTool
<1>6. PICK r \in TurnRecord :
        /\ turn' = [turn EXCEPT ![t] = r]
        /\ r.pc = v /\ r.talk = q.talk /\ r.round = q.round /\ r.left = q.left - 1
  <2>1. turn' = [turn EXCEPT ![t] = [s EXCEPT !.pc = v]]
    <3>1. turn' = [turn EXCEPT ![t] = [[turn[t] EXCEPT !.left = @ - 1]
                     EXCEPT !.pc = AfterTool([turn[t] EXCEPT !.left = @ - 1])]]
      BY DEF Result, TurnGoes
    <3> QED BY <1>4, <1>5, <3>1
  <2>2. PICK r : r = [s EXCEPT !.pc = v]
    OBVIOUS
  <2>3. /\ r \in TurnRecord /\ r.pc = v /\ r.talk = s.talk
        /\ r.round = s.round /\ r.left = s.left
    <3>1. v \in {"silent", "ask", "model", "tools", "commit", "fail"}
      OBVIOUS
    <3> QED BY <2>2, <3>1, TurnAtPc
  <2> QED BY <1>4, <2>1, <2>2, <2>3
<1>7. ASSUME Here(t) \notin disturbed
      PROVE  Whole(Append(log[Here(t)], m), r.left, r.round)
  <2>1. /\ log[Here(t)] \in Seq(Message)
        /\ Whole(log[Here(t)], q.left, q.round)
    BY <1>3, <1>7, OwnRows DEF Speaking
  <2>2. q.round \in Nat /\ q.left \in Nat /\ q.round <= MaxIterations
    BY ChatAssumption DEF TurnRecord
  <2> QED BY <1>2, <1>3, <1>6, <2>1, <2>2, ResultMore
<1>8. turn[t].pc \in Speaking /\ r.pc \in Speaking /\ r.talk = Here(t)
  BY <1>3, <1>5, <1>6 DEF Speaking, Here
<1>9. log' = [log EXCEPT ![Here(t)] = Append(@, m)]
  BY <1>1 DEF Result, Says
<1>10. /\ talk' = talk /\ title' = title /\ titling' = titling /\ eraser' = eraser
       /\ disturbed' = disturbed
  BY DEF Result
<1>11. /\ r.pc = "model" => r.round < MaxIterations /\ m.role \in {"user", "tool"}
       /\ r.pc = "tools" <=> r.left > 0
  BY <1>2, <1>4, <1>5, <1>6
<1>12. \A b \in Booking : booking'[b] = booking[b] \/ (booking'[b] = t /\ m.role = "tool")
  BY <1>2
<1> QED BY <1>2, <1>6, <1>7, <1>8, <1>9, <1>10, <1>11, <1>12, SpeakStep

LEMMA RunToolStep ==
  ASSUME ChatInv, NEW t \in Turn, RunTool(t)
  PROVE  ChatInv'
<1>1. booking' = booking /\ booking \in [Booking -> {"absent", "kept", "lost"} \cup Turn]
  BY DEF RunTool, ChatInv, ChatTypeOK
<1> QED BY <1>1, ResultStep DEF RunTool

LEMMA ReserveStep ==
  ASSUME ChatInv, NEW t \in Turn, NEW b \in Booking, Reserve(t, b)
  PROVE  ChatInv'
<1>1. booking \in [Booking -> {"absent", "kept", "lost"} \cup Turn]
  BY DEF ChatInv, ChatTypeOK
<1>2. booking' = [booking EXCEPT ![b] = t]
  BY DEF Reserve
<1>3. booking' \in [Booking -> {"absent", "kept", "lost"} \cup Turn]
  BY <1>1, <1>2
<1>4. \A c \in Booking : booking'[c] \in {booking[c], t}
  BY <1>1, <1>2
<1> QED BY <1>3, <1>4, ResultStep DEF Reserve
------------------------------------------------------------------------------
(* A turn ends without its rows.                                            *)
Others(t, k) == {i \in DOMAIN log[k] : log[k][i].by # t}
RowsOfOthers(t, k) == Picked(log[k], Others(t, k))

LEMMA OthersRows ==
  ASSUME ChatTypeOK, NEW t \in Turn, NEW k \in Talk
  PROVE  /\ RowsOfOthers(t, k) \in Seq(Message)
         /\ \A n \in 1..Len(RowsOfOthers(t, k)) : \E i \in 1..Len(log[k]) :
              log[k][i].by # t /\ RowsOfOthers(t, k)[n] = log[k][i]
         /\ \A i \in 1..Len(log[k]) : log[k][i].by # t =>
              \E n \in 1..Len(RowsOfOthers(t, k)) : RowsOfOthers(t, k)[n] = log[k][i]
<1>1. log[k] \in Seq(Message) /\ DOMAIN log[k] = 1..Len(log[k])
  BY LogRows, LenProperties
<1>2. Others(t, k) \subseteq 1..Len(log[k])
  BY <1>1 DEF Others
<1>3. \A i \in 1..Len(log[k]) : i \in Others(t, k) <=> log[k][i].by # t
  BY <1>1 DEF Others
<1>4. PICK K \in SUBSET (1..Len(log[k])) : K = Others(t, k)
  BY <1>2
<1>5. PICK q : q = Picked(log[k], K)
  OBVIOUS
<1>6. /\ q \in Seq(Message)
      /\ \A n \in 1..Len(q) : \E i \in K : q[n] = log[k][i]
      /\ \A i \in K : \E n \in 1..Len(q) : q[n] = log[k][i]
  BY <1>1, <1>5, PickedIs
<1>7. q = RowsOfOthers(t, k)
  BY <1>4, <1>5 DEF RowsOfOthers
<1> QED BY <1>3, <1>4, <1>6, <1>7

(* Rows of others are all rows when the turn has none there, and what is    *)
(* committed when it has the conversation to itself.                        *)
LEMMA OthersAll ==
  ASSUME ChatTypeOK, NEW t \in Turn, NEW k \in Talk, NEW c \in 0..Len(log[k]),
         \A i \in 1..c : log[k][i].by # t,
         \A i \in (c + 1)..Len(log[k]) : log[k][i].by = t
  PROVE  RowsOfOthers(t, k) = SubSeq(log[k], 1, c)
<1>1. PICK p \in Seq(Message) : p = log[k]
  BY LogRows
<1>2. PICK l \in Nat : l = Len(p) /\ DOMAIN p = 1..l
  BY LenProperties
<1>3. c \in 0..l
  BY <1>1, <1>2
<1>4. Others(t, k) = 1..c
  <2>1. \A i \in 1..l : i \in 1..c \/ i \in (c + 1)..l
    BY <1>3
  <2>2. \A i \in 1..c : i \in 1..l
    BY <1>3
  <2> QED BY <1>1, <1>2, <2>1, <2>2 DEF Others
<1> QED BY <1>1, <1>2, <1>3, <1>4, PickedHead DEF RowsOfOthers

LEMMA ForgetStep ==
  ASSUME ChatInv, NEW t \in Turn, ~On(t, "silent"), ForgetTurn(t)
  PROVE  ChatInv'
<1> USE DEF ChatInv
<1>1. PICK h \in Talk : h = Here(t) /\ talk[h] # "absent"
  BY DEF TurnShape
<1>2. (\A u \in Turn : u # t => turn'[u] = turn[u]) /\ turn'[t] = Silent /\ turn' \in [Turn -> TurnRecord]
  <2>1. Silent \in TurnRecord
    BY ChatAssumption DEF Silent, TurnRecord
  <2> QED BY <2>1 DEF ForgetTurn, TurnGoes, ChatTypeOK
<1>3. /\ title' = title /\ titling' = titling /\ eraser' = eraser /\ disturbed' = disturbed
      /\ talk' = [k \in Talk |-> IF k = h /\ talk[k] = "fresh" THEN "absent" ELSE talk[k]]
      /\ log' = [k \in Talk |-> RowsOfOthers(t, k)]
      /\ booking' = [b \in Booking |-> IF booking[b] = t THEN "lost" ELSE booking[b]]
  BY <1>1 DEF ForgetTurn, Others, RowsOfOthers
<1>4. \A k \in Talk :
        /\ log'[k] \in Seq(Message) /\ Len(log'[k]) \in Nat
        /\ \A n \in 1..Len(log'[k]) : \E i \in 1..Len(log[k]) : log[k][i].by # t /\ log'[k][n] = log[k][i]
        /\ \A i \in 1..Len(log[k]) : log[k][i].by # t => \E n \in 1..Len(log'[k]) : log'[k][n] = log[k][i]
  <2> TAKE k \in Talk
  <2>1. log'[k] = RowsOfOthers(t, k)
    BY <1>3
  <2>2. ChatTypeOK
    OBVIOUS
  <2>3. /\ log'[k] \in Seq(Message)
        /\ \A n \in 1..Len(log'[k]) : \E i \in 1..Len(log[k]) :
             log[k][i].by # t /\ log'[k][n] = log[k][i]
        /\ \A i \in 1..Len(log[k]) : log[k][i].by # t =>
             \E n \in 1..Len(log'[k]) : log'[k][n] = log[k][i]
    <3>1. PICK p : p = RowsOfOthers(t, k)
      OBVIOUS
    <3>2. /\ p \in Seq(Message)
          /\ \A n \in 1..Len(p) : \E i \in 1..Len(log[k]) :
               log[k][i].by # t /\ p[n] = log[k][i]
          /\ \A i \in 1..Len(log[k]) : log[k][i].by # t =>
               \E n \in 1..Len(p) : p[n] = log[k][i]
      BY <2>2, <3>1, OthersRows, Zenon
    <3>3. log'[k] = p
      BY <2>1, <3>1
    <3> QED BY <3>2, <3>3, Zenon
  <2> QED BY <2>3, RowsOf
<1>5. \A k \in Talk \ {h} : log'[k] = log[k]
  <2> TAKE k \in Talk \ {h}
  <2>1. PICK l \in Nat : l = Len(log[k]) /\ log[k] \in Seq(Message)
    BY LogRows
  <2>2. \A i \in 1..l : log[k][i].by # t
    BY <1>1, <2>1 DEF RowsHere
  <2>3. l \in 0..l /\ (l + 1)..l = {}
    BY <2>1
  <2>4. log'[k] = SubSeq(log[k], 1, l)
    BY <1>3, <2>1, <2>2, <2>3, OthersAll
  <2> QED BY <2>1, <2>4, SubSeqFull
<1>6. ChatTypeOK'
  <2>1. log' \in [Talk -> Seq(Message)]
    BY <1>3, <1>4
  <2>2. talk' \in [Talk -> TalkState]
    BY <1>3 DEF ChatTypeOK, TalkState
  <2>3. booking' \in [Booking -> {"absent", "kept", "lost"} \cup Turn]
    BY <1>3 DEF ChatTypeOK
  <2> QED BY <1>2, <1>3, <2>1, <2>2, <2>3 DEF ChatTypeOK
<1>7. RowsHere'
  <2>1. ASSUME NEW k \in Talk, NEW n \in 1..Len(log'[k]), NEW u \in Turn, log'[k][n].by = u
        PROVE  turn'[u].talk = k /\ turn'[u].pc \in Speaking
    <3>1. PICK i \in 1..Len(log[k]) : log[k][i].by # t /\ log'[k][n] = log[k][i]
      BY <1>4
    <3>2. u # t /\ log[k][i].by = u
      BY <2>1, <3>1
    <3> QED BY <1>2, <3>2 DEF RowsHere, Here
  <2> QED BY <2>1 DEF RowsHere, Here
<1>8. HasRow'
  <2>1. ASSUME NEW u \in Turn, turn'[u].pc \in Speaking PROVE (u \in Writers(Here(u)))'
    <3>1. u # t
      BY <1>2, <2>1 DEF Silent, Speaking
    <3>2. turn'[u] = turn[u] /\ turn[u].pc \in Speaking
      BY <1>2, <2>1, <3>1
    <3>3. PICK k \in Talk : k = Here(u)
      BY <3>2, SpeakingHolds
    <3>4. PICK i \in 1..Len(log[k]) : log[k][i].by = u
      BY <3>2, <3>3 DEF HasRow, Writers
    <3>5. PICK n \in 1..Len(log'[k]) : log'[k][n] = log[k][i]
      BY <1>4, <3>1, <3>4
    <3>6. Here(u)' = k
      BY <3>2, <3>3 DEF Here
    <3> QED BY <3>4, <3>5, <3>6 DEF Writers
  <2> QED BY <2>1 DEF HasRow
<1>9. Booked'
  <2>1. ASSUME NEW b \in Booking, NEW u \in Turn, booking'[b] = u
        PROVE  /\ turn'[u].pc \in Speaking
               /\ \E n \in 1..Len(log'[turn'[u].talk]) :
                    log'[turn'[u].talk][n].by = u /\ log'[turn'[u].talk][n].role = "tool"
    <3>1. u # t /\ booking[b] = u
      BY <1>3, <2>1, ChatAssumption
    <3>2. turn'[u] = turn[u] /\ turn[u].pc \in Speaking
      BY <1>2, <3>1 DEF Booked
    <3>3. PICK k \in Talk : k = Here(u) /\ k = turn'[u].talk
      <4>1. Here(u) \in Talk
        BY <3>2, SpeakingHolds
      <4> QED BY <3>2, <4>1 DEF Here
    <3>4. PICK i \in 1..Len(log[k]) : log[k][i].by = u /\ log[k][i].role = "tool"
      <4>1. \E i \in 1..Len(log[Here(u)]) :
              log[Here(u)][i].by = u /\ log[Here(u)][i].role = "tool"
        BY <3>1 DEF Booked
      <4> QED BY <3>3, <4>1
    <3>5. PICK n \in 1..Len(log'[k]) : log'[k][n] = log[k][i]
      BY <1>4, <3>1, <3>4
    <3> QED BY <3>2, <3>3, <3>4, <3>5
  <2> QED BY <2>1 DEF Booked, Here
<1>10. EraserShape'
  <2>1. ASSUME eraser.pc = "commit" PROVE Writers(eraser.talk)' = {}
    <3>1. PICK k \in Talk : k = eraser.talk /\ Writers(k) = {}
      BY <2>1 DEF EraserShape
    <3>2. \A u \in Turn : \A i \in 1..Len(log[k]) : log[k][i].by # u
      BY <3>1 DEF Writers
    <3>3. \A u \in Turn : \A n \in 1..Len(log'[k]) : log'[k][n].by # u
      BY <1>4, <3>2
    <3> QED BY <1>3, <3>1, <3>3 DEF Writers
  <2> QED BY <1>3, <2>1 DEF EraserShape
<1>11. FreshTalk'
  <2>1. ASSUME NEW k \in Talk, talk'[k] = "fresh"
        PROVE  /\ \A n \in 1..Len(log'[k]) : log'[k][n].by # Kept
               /\ \A u, w \in Turn : turn'[u].talk = k /\ turn'[w].talk = k => u = w
    <3>1. talk[k] = "fresh"
      BY <1>3, <2>1
    <3>2. \A n \in 1..Len(log'[k]) : log'[k][n].by # Kept
      <4>1. \A i \in 1..Len(log[k]) : log[k][i].by # Kept
        BY <3>1 DEF FreshTalk
      <4> TAKE n \in 1..Len(log'[k])
      <4>2. PICK i \in 1..Len(log[k]) : log'[k][n] = log[k][i]
        BY <1>4
      <4> QED BY <4>1, <4>2
    <3>3. \A u \in Turn : turn'[u].talk = k => turn[u].talk = k
      BY <1>2, ChatAssumption DEF Silent
    <3> QED BY <3>1, <3>2, <3>3 DEF FreshTalk, Here
  <2> QED BY <2>1 DEF FreshTalk, Here
<1>12. NoOrphanMessage'
  <2>1. ASSUME NEW k \in Talk, talk'[k] \in {"absent", "gone"} PROVE log'[k] = <<>>
    <3>1. CASE talk[k] \in {"absent", "gone"}
      <4>1. log[k] = <<>> /\ Len(log[k]) = 0
        BY <3>1, EmptySeq DEF NoOrphanMessage
      <4>2. Len(log'[k]) = 0
        <5>1. \A n \in 1..Len(log'[k]) : FALSE
          BY <1>4, <4>1
        <5> QED BY <1>4, <5>1
      <4> QED BY <1>4, <4>2, EmptySeq
    <3>2. CASE k = h /\ talk[k] = "fresh"
      <4>1. \A i \in 1..Len(log[k]) : log[k][i].by = t
        <5>1. TAKE i \in 1..Len(log[k])
        <5>2. log[k][i].by \in Turn
          <6>1. log[k][i].by # Kept
            BY <3>2 DEF FreshTalk
          <6>2. log[k][i].by \in Turn \cup {Kept}
            BY LogRows DEF Message
          <6> QED BY <6>1, <6>2
        <5>3. Here(log[k][i].by) = k
          BY <5>2 DEF RowsHere
        <5> QED BY <1>1, <3>2, <5>2, <5>3 DEF FreshTalk
      <4>2. Len(log'[k]) = 0
        <5>1. \A n \in 1..Len(log'[k]) : FALSE
          BY <1>4, <4>1
        <5> QED BY <1>4, <5>1
      <4> QED BY <1>4, <4>2, EmptySeq
    <3> QED BY <1>3, <2>1, <3>1, <3>2
  <2> QED BY <2>1 DEF NoOrphanMessage
<1>13. TurnShape'
  <2>1. ASSUME NEW u \in Turn, u # t
        PROVE  /\ On(u, "silent")' => turn'[u] = Silent
               /\ ~On(u, "silent")' => turn'[u].talk \in Talk /\ talk'[turn'[u].talk] # "absent"
               /\ turn'[u].pc \in {"ask", "model"} => turn'[u].round < MaxIterations
               /\ On(u, "tools")' <=> turn'[u].left > 0
    <3>1. turn'[u] = turn[u]
      BY <1>2, <2>1
    <3>2. ASSUME ~On(u, "silent") PROVE turn[u].talk \in Talk /\ talk'[turn[u].talk] # "absent"
      <4>1. Here(u) \in Talk /\ talk[Here(u)] # "absent"
        BY <3>2 DEF TurnShape
      <4>2. ~(Here(u) = h /\ talk[Here(u)] = "fresh")
        BY <1>1, <2>1 DEF FreshTalk
      <4> QED BY <1>3, <4>1, <4>2 DEF Here
    <3> QED BY <3>1, <3>2 DEF TurnShape, On
  <2>2. Silent.pc = "silent" /\ ~(Silent.left > 0)
    BY DEF Silent
  <2> QED BY <1>2, <2>1, <2>2 DEF TurnShape, On, Here
<1>14. Splits'
  <2>1. ASSUME NEW k \in Talk \ disturbed PROVE Split(k)'
    <3>1. CASE k # h
      <4>1. Split(k) /\ log'[k] = log[k]
        BY <1>5, <2>1, <3>1 DEF Splits
      <4>2. \A u \in Turn : Here(u) = k => turn'[u] = turn[u]
        BY <1>1, <1>2, <3>1
      <4> QED BY <4>1, <4>2, SplitStays
    <3>2. CASE k = h /\ turn[t].pc \in Speaking
      <4>1. PICK l \in Nat : l = Len(log[h]) /\ log[h] \in Seq(Message)
        BY LogRows
      <4>2. PICK c \in 0..l :
              /\ \A i \in 1..c : log[h][i].by = Kept
              /\ \A i \in (c + 1)..l : log[h][i].by = t
              /\ Whole(SubSeq(log[h], 1, c), 0, MaxIterations)
        BY <1>1, <2>1, <3>2, <4>1, OwnSplit
      <4>3. \A i \in 1..c : log[h][i].by # t
        BY <4>2, ChatAssumption
      <4>4. log'[h] = SubSeq(log[h], 1, c)
        BY <1>3, <4>1, <4>2, <4>3, OthersAll
      <4>5. PICK p \in Seq(Message) : p = log'[h]
        BY <1>4
      <4>6. \A i \in 1..c : log[h][i] \in Message
        BY <4>1, LogRows
      <4>7. Len(p) = c /\ \A i \in 1..c : p[i] = log[h][i]
        <5>1. c \in Int /\ 1 \in Int
          BY <4>2
        <5>2. /\ Len(SubSeq(log[h], 1, c)) = IF 1 <= c THEN c - 1 + 1 ELSE 0
              /\ \A i \in 1..(c - 1 + 1) : SubSeq(log[h], 1, c)[i] = log[h][1 + i - 1]
          BY <4>6, <5>1, SubSeqProperties
        <5> QED BY <4>2, <4>4, <4>5, <5>2
      <4>8. SubSeq(p, 1, c) = p
        BY <4>5, <4>7, SubSeqFull
      <4>9. c \in 0..Len(p) /\ (\A i \in 1..c : p[i].by = Kept) /\ ~(c < Len(p))
        BY <4>2, <4>7
      <4>10. Whole(SubSeq(p, 1, c), 0, MaxIterations)
        BY <4>2, <4>4, <4>5, <4>8
      <4> QED BY <3>2, <4>5, <4>9, <4>10 DEF Split
    <3>3. CASE k = h /\ turn[t].pc \notin Speaking
      <4>1. PICK l \in Nat : l = Len(log[h]) /\ log[h] \in Seq(Message)
        BY LogRows
      <4>2. \A i \in 1..l : log[h][i].by # t
        BY <3>3, <4>1 DEF RowsHere
      <4>3. l \in 0..l /\ (l + 1)..l = {}
        BY <4>1
      <4>4. log'[h] = log[h]
        <5>1. log'[h] = SubSeq(log[h], 1, l)
          BY <1>3, <4>1, <4>2, <4>3, OthersAll
        <5> QED BY <4>1, <5>1, SubSeqFull
      <4>5. PICK c \in 0..l :
              /\ \A i \in 1..c : log[h][i].by = Kept
              /\ Whole(SubSeq(log[h], 1, c), 0, MaxIterations)
              /\ c < l => OneTurn(h, c)
        BY <2>1, <3>3, <4>1 DEF Splits, Split
      <4>6. ASSUME c < l PROVE OneTurn(h, c)'
        <5>1. PICK u \in Turn :
                /\ \A i \in (c + 1)..l : log[h][i].by = u
                /\ Whole(log[h], turn[u].left, turn[u].round)
                /\ On(u, "model") => log[h][l].role \in {"user", "tool"}
          BY <4>1, <4>5, <4>6 DEF OneTurn
        <5>2. c + 1 \in (c + 1)..l /\ c + 1 \in 1..l
          BY <4>1, <4>5, <4>6
        <5>3. u # t
          BY <4>2, <5>1, <5>2
        <5>4. turn'[u] = turn[u]
          BY <1>2, <5>3
        <5> QED BY <4>1, <4>4, <5>1, <5>4 DEF OneTurn, On
      <4> QED BY <3>3, <4>1, <4>4, <4>5, <4>6 DEF Split
    <3> QED BY <3>1, <3>2, <3>3
  <2> QED BY <1>3, <2>1 DEF Splits
<1> QED BY <1>6, <1>7, <1>8, <1>9, <1>10, <1>11, <1>12, <1>13, <1>14
------------------------------------------------------------------------------
(* A turn commits.                                                          *)
LEMMA CommittedRows ==
  ASSUME ChatTypeOK, NEW t \in Turn, NEW h \in Talk, h = Here(t), CommitTurn(t)
  PROVE  /\ log' \in [Talk -> Seq(Message)]
         /\ \A k \in Talk \ {h} : log'[k] = log[k]
         /\ Len(log'[h]) = Len(log[h])
         /\ \A i \in 1..Len(log[h]) :
              /\ log'[h][i].role = log[h][i].role /\ log'[h][i].calls = log[h][i].calls
              /\ log'[h][i].by = IF log[h][i].by = t THEN Kept ELSE log[h][i].by
<1>1. PICK p \in Seq(Message) : p = log[h]
  BY LogRows
<1>2. PICK l \in Nat : l = Len(p)
  BY RowsOf
<1>3. PICK q : q = [i \in 1..l |-> IF p[i].by = t THEN [p[i] EXCEPT !.by = Kept] ELSE p[i]]
  OBVIOUS
<1>4. log' = [log EXCEPT ![h] = q]
  BY <1>1, <1>2, <1>3 DEF CommitTurn
<1>5. \A m \in Message :
        /\ [m EXCEPT !.by = Kept] \in Message /\ [m EXCEPT !.by = Kept].by = Kept
        /\ [m EXCEPT !.by = Kept].role = m.role /\ [m EXCEPT !.by = Kept].calls = m.calls
  BY DEF Message
<1>6. \A i \in 1..l : p[i] \in Message
  BY <1>2, RowsOf
<1>7. \A i \in 1..l :
        /\ q[i] \in Message /\ q[i].role = p[i].role /\ q[i].calls = p[i].calls
        /\ q[i].by = IF p[i].by = t THEN Kept ELSE p[i].by
  BY <1>3, <1>5, <1>6
<1>8. q \in [1..l -> Message]
  BY <1>3, <1>7
<1>9. q \in Seq(Message) /\ Len(q) = l
  BY <1>8, SeqDef, LenProperties
<1>10. log \in [Talk -> Seq(Message)]
  BY DEF ChatTypeOK
<1> QED BY <1>1, <1>2, <1>4, <1>7, <1>9, <1>10

LEMMA CommitStep ==
  ASSUME ChatInv, NEW t \in Turn, CommitTurn(t)
  PROVE  ChatInv'
<1> USE DEF ChatInv
<1>1. turn[t].pc \in {"commit", "fail"} /\ turn[t].pc \in Speaking
  BY DEF CommitTurn, On, Speaking
<1>2. PICK h \in Talk : h = Here(t) /\ talk[h] \notin {"absent", "gone"} /\ turn[t] \in TurnRecord
  BY <1>1, SpeakingHolds
<1>3. /\ log' \in [Talk -> Seq(Message)]
      /\ \A k \in Talk \ {h} : log'[k] = log[k]
      /\ Len(log'[h]) = Len(log[h])
      /\ \A i \in 1..Len(log[h]) :
           /\ log'[h][i].role = log[h][i].role /\ log'[h][i].calls = log[h][i].calls
           /\ log'[h][i].by = IF log[h][i].by = t THEN Kept ELSE log[h][i].by
  <2>1. ChatTypeOK
    OBVIOUS
  <2> QED BY <1>2, <2>1, CommittedRows
<1>4. (\A u \in Turn : u # t => turn'[u] = turn[u]) /\ turn'[t] = Silent /\ turn' \in [Turn -> TurnRecord]
  <2>1. Silent \in TurnRecord
    BY ChatAssumption DEF Silent, TurnRecord
  <2> QED BY <2>1 DEF CommitTurn, TurnGoes, ChatTypeOK
<1>5. /\ eraser' = eraser /\ disturbed' = disturbed
      /\ talk' \in [Talk -> TalkState] /\ titling' \subseteq Talk /\ title' \in [Talk -> Title]
      /\ \A k \in Talk : talk'[k] = IF k = h /\ talk[k] = "fresh" THEN "open" ELSE talk[k]
  BY <1>2 DEF CommitTurn, ChatTypeOK, TalkState, Title
<1>6. booking' = [b \in Booking |-> IF booking[b] = t THEN "kept" ELSE booking[b]]
  BY DEF CommitTurn
<1>7. ChatTypeOK'
  <2>1. booking' \in [Booking -> {"absent", "kept", "lost"} \cup Turn]
    BY <1>6 DEF ChatTypeOK
  <2> QED BY <1>3, <1>4, <1>5, <2>1 DEF ChatTypeOK
<1>8. \A k \in Talk : \A u \in Turn : \A i \in 1..Len(log'[k]) :
        log'[k][i].by = u => u # t /\ i \in 1..Len(log[k]) /\ log[k][i].by = u
  <2> TAKE k \in Talk
  <2> TAKE u \in Turn
  <2> TAKE i \in 1..Len(log'[k])
  <2> HAVE log'[k][i].by = u
  <2>1. CASE k = h
    <3>1. u # Kept
      BY ChatAssumption
    <3> QED BY <1>3, <2>1, <3>1
  <2>2. CASE k # h
    <3>1. log[k][i].by = u /\ i \in 1..Len(log[k])
      BY <1>3, <2>2
    <3>2. u # t
      BY <1>2, <2>2, <3>1 DEF RowsHere
    <3> QED BY <3>1, <3>2
  <2> QED BY <2>1, <2>2
<1>9. \A k \in Talk : \A u \in Turn \ {t} : \A i \in 1..Len(log[k]) :
        log[k][i].by = u => i \in 1..Len(log'[k]) /\ log'[k][i].by = u /\ log'[k][i].role = log[k][i].role
  BY <1>3
<1>10. RowsHere'
  <2>1. ASSUME NEW k \in Talk, NEW i \in 1..Len(log'[k]), NEW u \in Turn, log'[k][i].by = u
        PROVE  turn'[u].talk = k /\ turn'[u].pc \in Speaking
    <3>1. u # t /\ i \in 1..Len(log[k]) /\ log[k][i].by = u
      BY <1>8, <2>1
    <3> QED BY <1>4, <3>1 DEF RowsHere, Here
  <2> QED BY <2>1 DEF RowsHere, Here
<1>11. HasRow'
  <2>1. ASSUME NEW u \in Turn, turn'[u].pc \in Speaking PROVE (u \in Writers(Here(u)))'
    <3>1. u # t
      BY <1>4, <2>1 DEF Silent, Speaking
    <3>2. turn'[u] = turn[u] /\ turn[u].pc \in Speaking
      BY <1>4, <2>1, <3>1
    <3>3. PICK k \in Talk : k = Here(u)
      BY <3>2, SpeakingHolds
    <3>4. PICK i \in 1..Len(log[k]) : log[k][i].by = u
      BY <3>2, <3>3 DEF HasRow, Writers
    <3>5. i \in 1..Len(log'[k]) /\ log'[k][i].by = u
      BY <1>9, <3>1, <3>4
    <3>6. Here(u)' = k
      BY <3>2, <3>3 DEF Here
    <3> QED BY <3>5, <3>6 DEF Writers
  <2> QED BY <2>1 DEF HasRow
<1>12. Booked'
  <2>1. ASSUME NEW b \in Booking, NEW u \in Turn, booking'[b] = u
        PROVE  /\ turn'[u].pc \in Speaking
               /\ \E n \in 1..Len(log'[turn'[u].talk]) :
                    log'[turn'[u].talk][n].by = u /\ log'[turn'[u].talk][n].role = "tool"
    <3>1. u # t /\ booking[b] = u
      BY <1>6, <2>1, ChatAssumption
    <3>2. turn'[u] = turn[u] /\ turn[u].pc \in Speaking
      BY <1>4, <3>1 DEF Booked
    <3>3. PICK k \in Talk : k = Here(u) /\ k = turn'[u].talk
      <4>1. Here(u) \in Talk
        BY <3>2, SpeakingHolds
      <4> QED BY <3>2, <4>1 DEF Here
    <3>4. PICK i \in 1..Len(log[k]) : log[k][i].by = u /\ log[k][i].role = "tool"
      <4>1. \E i \in 1..Len(log[Here(u)]) :
              log[Here(u)][i].by = u /\ log[Here(u)][i].role = "tool"
        BY <3>1 DEF Booked
      <4> QED BY <3>3, <4>1
    <3>5. i \in 1..Len(log'[k]) /\ log'[k][i].by = u /\ log'[k][i].role = "tool"
      BY <1>9, <3>1, <3>4
    <3> QED BY <3>2, <3>3, <3>5
  <2> QED BY <2>1 DEF Booked, Here
<1>13. EraserShape'
  <2>1. ASSUME eraser.pc = "commit" PROVE Writers(eraser.talk)' = {}
    <3>1. PICK k \in Talk : k = eraser.talk /\ Writers(k) = {}
      BY <2>1 DEF EraserShape
    <3>2. \A u \in Turn : \A i \in 1..Len(log[k]) : log[k][i].by # u
      BY <3>1 DEF Writers
    <3>3. \A u \in Turn : \A n \in 1..Len(log'[k]) : log'[k][n].by # u
      BY <1>8, <3>2
    <3> QED BY <1>5, <3>1, <3>3 DEF Writers
  <2> QED BY <1>5, <2>1 DEF EraserShape
<1>14. FreshTalk'
  <2>1. ASSUME NEW k \in Talk, talk'[k] = "fresh"
        PROVE  /\ \A n \in 1..Len(log'[k]) : log'[k][n].by # Kept
               /\ \A u, w \in Turn : turn'[u].talk = k /\ turn'[w].talk = k => u = w
    <3>1. talk[k] = "fresh" /\ k # h
      BY <1>5, <2>1
    <3>2. \A u \in Turn : turn'[u].talk = k => turn[u].talk = k
      BY <1>4, ChatAssumption DEF Silent
    <3> QED BY <1>3, <3>1, <3>2 DEF FreshTalk, Here
  <2> QED BY <2>1 DEF FreshTalk, Here
<1>15. NoOrphanMessage'
  BY <1>2, <1>3, <1>5 DEF NoOrphanMessage
<1>16. TurnShape'
  <2>1. ASSUME NEW u \in Turn, u # t
        PROVE  /\ On(u, "silent")' => turn'[u] = Silent
               /\ ~On(u, "silent")' => turn'[u].talk \in Talk /\ talk'[turn'[u].talk] # "absent"
               /\ turn'[u].pc \in {"ask", "model"} => turn'[u].round < MaxIterations
               /\ On(u, "tools")' <=> turn'[u].left > 0
    <3>1. turn'[u] = turn[u]
      BY <1>4, <2>1
    <3> QED BY <1>5, <3>1 DEF TurnShape, On, Here
  <2>2. Silent.pc = "silent" /\ ~(Silent.left > 0)
    BY DEF Silent
  <2> QED BY <1>4, <2>1, <2>2 DEF TurnShape, On, Here
<1>17. Splits'
  <2>1. ASSUME NEW k \in Talk \ disturbed PROVE Split(k)'
    <3>1. CASE k # h
      <4>1. Split(k) /\ log'[k] = log[k]
        BY <1>3, <2>1, <3>1 DEF Splits
      <4>2. \A u \in Turn : Here(u) = k => turn'[u] = turn[u]
        BY <1>2, <1>4, <3>1
      <4> QED BY <4>1, <4>2, SplitStays
    <3>2. CASE k = h
      <4>1. PICK p \in Seq(Message) : p = log[h]
        BY LogRows
      <4>2. PICK l \in Nat : l = Len(p)
        BY RowsOf
      <4>3. PICK c \in 0..l :
              /\ \A i \in 1..c : p[i].by = Kept
              /\ \A i \in (c + 1)..l : p[i].by = t
        BY <1>1, <1>2, <2>1, <3>2, <4>1, <4>2, OwnSplit
      <4>4. Whole(p, 0, turn[t].round)
        <5>1. Whole(p, turn[t].left, turn[t].round)
          BY <1>1, <1>2, <2>1, <3>2, <4>1, OwnRows
        <5>2. turn[t].left = 0
          BY <1>1, <1>2 DEF TurnShape, On, TurnRecord
        <5> QED BY <5>1, <5>2
      <4>5. PICK q \in Seq(Message) : q = log'[h]
        BY <1>3
      <4>6. /\ Len(q) = l
            /\ \A i \in 1..l : /\ q[i].role = p[i].role /\ q[i].calls = p[i].calls
                               /\ q[i].by = IF p[i].by = t THEN Kept ELSE p[i].by
        BY <1>3, <4>1, <4>2, <4>5
      <4>7. \A i \in 1..l : q[i].by = Kept
        <5>1. \A i \in 1..l : i \in 1..c \/ i \in (c + 1)..l
          BY <4>3
        <5> QED BY <4>3, <4>6, <5>1
      <4>8. Whole(q, 0, MaxIterations)
        <5>1. turn[t].round \in Nat /\ turn[t].round <= MaxIterations
          BY <1>2, ChatAssumption DEF TurnRecord
        <5> QED BY <4>2, <4>4, <4>6, <5>1, WholeAlike
      <4>9. SubSeq(q, 1, l) = q
        BY <4>6, SubSeqFull
      <4>10. l \in 0..Len(q) /\ ~(l < Len(q))
        BY <4>6
      <4> QED BY <3>2, <4>5, <4>7, <4>8, <4>9, <4>10 DEF Split
    <3> QED BY <3>1, <3>2
  <2> QED BY <1>5, <2>1 DEF Splits
<1> QED BY <1>7, <1>10, <1>11, <1>12, <1>13, <1>14, <1>15, <1>16, <1>17

LEMMA EraseStep ==
  ASSUME ChatInv, CommitErase
  PROVE  ChatInv'
<1> USE DEF ChatInv
<1>1. PICK h \in Talk : h = eraser.talk /\ Writers(h) = {}
  BY DEF CommitErase, EraserShape
<1>2. /\ turn' = turn /\ title' = title /\ titling' = titling /\ booking' = booking
      /\ disturbed' = disturbed /\ eraser' = [pc |-> "idle", talk |-> NoTalk]
  BY DEF CommitErase
<1>3. log' \in [Talk -> Seq(Message)] /\ log'[h] = <<>> /\ \A k \in Talk \ {h} : log'[k] = log[k]
  <2>1. log' = [log EXCEPT ![h] = <<>>] /\ log \in [Talk -> Seq(Message)]
    BY <1>1 DEF CommitErase, ChatTypeOK
  <2>2. <<>> \in Seq(Message)
    BY EmptySeq
  <2> QED BY <2>1, <2>2
<1>4. talk' \in [Talk -> TalkState] /\ talk'[h] = "gone" /\ \A k \in Talk \ {h} : talk'[k] = talk[k]
  BY <1>1 DEF CommitErase, ChatTypeOK, TalkState
<1>5. Len(log'[h]) = 0 /\ \A i \in 1..Len(log'[h]) : FALSE
  BY <1>3, EmptySeq
<1>6. \A u \in Turn : turn[u].pc \in Speaking => Here(u) \in Talk \ {h}
  BY <1>1, SpeakingHolds DEF HasRow
<1>7. ChatTypeOK'
  BY <1>2, <1>3, <1>4 DEF ChatTypeOK
<1>8. RowsHere'
  <2>1. ASSUME NEW k \in Talk, NEW i \in 1..Len(log'[k]), NEW u \in Turn, log'[k][i].by = u
        PROVE  turn[u].talk = k /\ turn[u].pc \in Speaking
    <3>1. k # h
      BY <1>5, <2>1
    <3> QED BY <1>3, <2>1, <3>1 DEF RowsHere, Here
  <2> QED BY <1>2, <2>1 DEF RowsHere, Here
<1>9. HasRow'
  <2>1. ASSUME NEW u \in Turn, turn[u].pc \in Speaking PROVE (u \in Writers(Here(u)))'
    <3>1. PICK k \in Talk \ {h} : k = Here(u)
      BY <1>6, <2>1
    <3>2. u \in Writers(k) /\ log'[k] = log[k]
      BY <1>3, <2>1, <3>1 DEF HasRow
    <3>3. Here(u)' = k
      BY <1>2, <3>1 DEF Here
    <3> QED BY <3>2, <3>3 DEF Writers
  <2> QED BY <1>2, <2>1 DEF HasRow
<1>10. Booked'
  <2>1. ASSUME NEW b \in Booking, NEW u \in Turn, booking[b] = u
        PROVE  /\ turn[u].pc \in Speaking
               /\ \E n \in 1..Len(log'[turn[u].talk]) :
                    log'[turn[u].talk][n].by = u /\ log'[turn[u].talk][n].role = "tool"
    <3>1. turn[u].pc \in Speaking
      BY <2>1 DEF Booked
    <3>2. log'[Here(u)] = log[Here(u)]
      BY <1>3, <1>6, <3>1
    <3>3. \E i \in 1..Len(log[Here(u)]) :
            log[Here(u)][i].by = u /\ log[Here(u)][i].role = "tool"
      BY <2>1 DEF Booked
    <3> QED BY <3>1, <3>2, <3>3 DEF Here
  <2> QED BY <1>2, <2>1 DEF Booked, Here
<1>11. EraserShape'
  BY <1>2 DEF EraserShape
<1>12. FreshTalk'
  <2>1. ASSUME NEW k \in Talk, talk'[k] = "fresh"
        PROVE  /\ \A i \in 1..Len(log'[k]) : log'[k][i].by # Kept
               /\ \A t, u \in Turn : turn[t].talk = k /\ turn[u].talk = k => t = u
    <3>1. k # h
      BY <1>4, <2>1
    <3>2. talk[k] = "fresh" /\ log'[k] = log[k]
      BY <1>3, <1>4, <2>1, <3>1
    <3> QED BY <3>2 DEF FreshTalk, Here
  <2> QED BY <1>2, <2>1 DEF FreshTalk, Here
<1>13. NoOrphanMessage'
  BY <1>3, <1>4 DEF NoOrphanMessage
<1>14. TurnShape'
  BY <1>2, <1>4 DEF TurnShape, On, Here
<1>15. Splits'
  <2>1. ASSUME NEW k \in Talk \ disturbed PROVE Split(k)'
    <3>1. CASE k # h
      <4>1. Split(k) /\ log'[k] = log[k]
        BY <1>3, <2>1, <3>1 DEF Splits
      <4> QED BY <1>2, <4>1, SplitStays
    <3>2. CASE k = h
      <4>1. PICK p : p = log'[h] /\ p = <<>> /\ Len(p) = 0
        BY <1>3, <1>5
      <4>2. SubSeq(p, 1, 0) = <<>>
        BY <4>1, SubSeqEmpty
      <4>3. PICK c \in 0..Len(p) : c = 0
        BY <4>1
      <4>4. (\A i \in 1..c : p[i].by = Kept) /\ ~(c < Len(p))
        BY <4>1, <4>3
      <4>5. Whole(SubSeq(p, 1, c), 0, MaxIterations)
        BY <4>2, <4>3, NoRowsAreWhole
      <4> QED BY <3>2, <4>1, <4>4, <4>5 DEF Split
    <3> QED BY <3>1, <3>2
  <2> QED BY <1>2, <2>1 DEF Splits
<1> QED BY <1>7, <1>8, <1>9, <1>10, <1>11, <1>12, <1>13, <1>14, <1>15

------------------------------------------------------------------------------
(* Steps that leave the rows alone.                                         *)
LEMMA QuietStep ==
  ASSUME ChatInv, Quiet,
         talk' \in [Talk -> TalkState], title' \in [Talk -> Title], titling' \subseteq Talk,
         turn' \in [Turn -> TurnRecord],
         eraser' \in [pc : {"idle", "drop", "commit"}, talk : Talk \cup {NoTalk}],
         TurnShape', FreshTalk', NoOrphanMessage',
         eraser'.pc # "idle" => eraser'.talk \in Talk,
         eraser'.pc = "commit" => Writers(eraser'.talk) = {}
  PROVE  ChatInv'
<1>1. RowsHere' /\ HasRow' /\ Booked' /\ Splits' /\ \A k \in Talk : Writers(k)' = Writers(k)
  BY QuietKeeps
<1>2. ChatTypeOK'
  BY DEF ChatInv, ChatTypeOK, Quiet
<1>3. EraserShape'
  <2>1. log' = log
    BY DEF Quiet
  <2> QED BY <2>1 DEF EraserShape, Writers
<1> QED BY <1>1, <1>2, <1>3 DEF ChatInv

LEMMA OpenKnownStep ==
  ASSUME ChatInv, NEW t \in Turn, NEW k \in Talk, OpenKnown(t, k)
  PROVE  ChatInv'
<1> USE DEF ChatInv
<1>1. /\ talk' = talk /\ title' = title /\ log' = log /\ titling' = titling
      /\ eraser' = eraser /\ booking' = booking /\ disturbed' = disturbed
      /\ talk[k] \in {"open", "archived"} /\ turn[t].pc = "silent"
  BY DEF OpenKnown, On
<1>2. PICK r \in TurnRecord :
        /\ turn' = [turn EXCEPT ![t] = r]
        /\ r.pc = "ask" /\ r.talk = k /\ r.round = 0 /\ r.left = 0
  <2>1. PICK r : r = [Silent EXCEPT !.pc = "ask", !.talk = k, !.first = title[k] = "none"]
    OBVIOUS
  <2>2. turn' = [turn EXCEPT ![t] = r]
    BY <2>1 DEF OpenKnown, TurnGoes
  <2>3. r = [pc |-> "ask", talk |-> k, attached |-> FALSE, first |-> title[k] = "none",
             round |-> 0, left |-> 0]
    BY <2>1 DEF Silent
  <2>4. r \in TurnRecord
    BY <2>3, ChatAssumption DEF TurnRecord
  <2> QED BY <2>2, <2>3, <2>4
<1>3. turn' \in [Turn -> TurnRecord] /\ turn'[t] = r /\ \A u \in Turn : u # t => turn'[u] = turn[u]
  BY <1>2 DEF ChatTypeOK
<1>4. Quiet
  BY <1>1, <1>2, <1>3 DEF Quiet, Speaking
<1>5. TurnShape'
  <2>1. ASSUME NEW u \in Turn, u # t
        PROVE  /\ On(u, "silent")' => turn'[u] = Silent
               /\ ~On(u, "silent")' => turn'[u].talk \in Talk /\ talk'[turn'[u].talk] # "absent"
               /\ turn'[u].pc \in {"ask", "model"} => turn'[u].round < MaxIterations
               /\ On(u, "tools")' <=> turn'[u].left > 0
    <3>1. turn'[u] = turn[u]
      BY <1>3, <2>1
    <3> QED BY <1>1, <3>1 DEF TurnShape, On, Here
  <2> QED BY <1>1, <1>2, <1>3, <2>1, ChatAssumption DEF TurnShape, On, Here
<1>6. FreshTalk'
  BY <1>1, <1>2, <1>3 DEF FreshTalk, Here
<1>7. NoOrphanMessage'
  BY <1>1 DEF NoOrphanMessage
<1> QED BY <1>1, <1>3, <1>4, <1>5, <1>6, <1>7, QuietStep DEF ChatTypeOK, EraserShape

LEMMA OpenNewStep ==
  ASSUME ChatInv, NEW t \in Turn, NEW k \in Talk, NEW legacy \in BOOLEAN, OpenNew(t, k, legacy)
  PROVE  ChatInv'
<1> USE DEF ChatInv
<1>1. /\ title' = title /\ log' = log /\ titling' = titling
      /\ eraser' = eraser /\ booking' = booking /\ disturbed' = disturbed
      /\ talk[k] = "absent" /\ turn[t].pc = "silent"
  BY DEF OpenNew, On
<1>2. PICK r \in TurnRecord :
        /\ turn' = [turn EXCEPT ![t] = r]
        /\ r.pc = "ask" /\ r.talk = k /\ r.round = 0 /\ r.left = 0
  <2>1. PICK r : r = [Silent EXCEPT !.pc = "ask", !.talk = k, !.attached = legacy, !.first = TRUE]
    OBVIOUS
  <2>2. turn' = [turn EXCEPT ![t] = r]
    BY <2>1 DEF OpenNew, TurnGoes
  <2>3. r = [pc |-> "ask", talk |-> k, attached |-> legacy, first |-> TRUE,
             round |-> 0, left |-> 0]
    BY <2>1 DEF Silent
  <2>4. r \in TurnRecord
    BY <2>3, ChatAssumption DEF TurnRecord
  <2> QED BY <2>2, <2>3, <2>4
<1>3. turn' \in [Turn -> TurnRecord] /\ turn'[t] = r /\ \A u \in Turn : u # t => turn'[u] = turn[u]
  BY <1>2 DEF ChatTypeOK
<1>4. /\ talk' \in [Talk -> TalkState] /\ talk'[k] \in {"fresh", "open"}
      /\ \A h \in Talk : h # k => talk'[h] = talk[h]
  BY DEF OpenNew, ChatTypeOK, TalkState
<1>5. Quiet
  BY <1>1, <1>2, <1>3 DEF Quiet, Speaking
<1>6. \A u \in Turn : Here(u) # k
  BY <1>1, ChatAssumption DEF TurnShape, Here, On, Silent
<1>7. TurnShape'
  <2>1. ASSUME NEW u \in Turn, u # t
        PROVE  /\ On(u, "silent")' => turn'[u] = Silent
               /\ ~On(u, "silent")' => turn'[u].talk \in Talk /\ talk'[turn'[u].talk] # "absent"
               /\ turn'[u].pc \in {"ask", "model"} => turn'[u].round < MaxIterations
               /\ On(u, "tools")' <=> turn'[u].left > 0
    <3>1. turn'[u] = turn[u] /\ turn[u].talk # k
      BY <1>3, <1>6, <2>1 DEF Here
    <3> QED BY <1>4, <3>1 DEF TurnShape, On, Here
  <2> QED BY <1>2, <1>3, <1>4, <2>1, ChatAssumption DEF TurnShape, On, Here
<1>8. FreshTalk'
  <2>1. \A i \in 1..Len(log[k]) : FALSE
    <3>1. log[k] = <<>>
      BY <1>1 DEF NoOrphanMessage
    <3> QED BY <3>1, EmptySeq
  <2>2. \A u \in Turn : Here(u)' = IF u = t THEN k ELSE Here(u)
    BY <1>2, <1>3 DEF Here
  <2>3. ASSUME NEW h \in Talk, talk'[h] = "fresh"
        PROVE  /\ \A i \in 1..Len(log[h]) : log[h][i].by # Kept
               /\ \A u, w \in Turn : Here(u)' = h /\ Here(w)' = h => u = w
    <3>1. CASE h = k
      BY <1>6, <2>1, <2>2, <3>1
    <3>2. CASE h # k
      BY <1>4, <2>2, <2>3, <3>2 DEF FreshTalk
    <3> QED BY <3>1, <3>2
  <2> QED BY <1>1, <2>3 DEF FreshTalk
<1>9. NoOrphanMessage'
  BY <1>1, <1>4 DEF NoOrphanMessage
<1> QED BY <1>1, <1>3, <1>4, <1>5, <1>7, <1>8, <1>9, QuietStep DEF ChatTypeOK, EraserShape

LEMMA AnswerFailsStep ==
  ASSUME ChatInv, NEW t \in Turn, AnswerFails(t)
  PROVE  ChatInv'
<1> USE DEF ChatInv
<1>1. /\ talk' = talk /\ title' = title /\ log' = log /\ titling' = titling
      /\ eraser' = eraser /\ booking' = booking /\ disturbed' = disturbed
      /\ turn[t].pc = "model"
  BY DEF AnswerFails, On
<1>2. PICK r \in TurnRecord :
        /\ turn' = [turn EXCEPT ![t] = r]
        /\ r.pc = "fail" /\ r.talk = turn[t].talk
        /\ r.round = turn[t].round /\ r.left = turn[t].left
  <2>1. PICK r : r = [turn[t] EXCEPT !.pc = "fail"]
    OBVIOUS
  <2>2. turn' = [turn EXCEPT ![t] = r]
    BY <2>1 DEF AnswerFails, TurnGoes
  <2>3. turn[t] \in TurnRecord
    BY DEF ChatTypeOK
  <2> QED BY <2>1, <2>2, <2>3, TurnAtPc
<1>3. turn' \in [Turn -> TurnRecord] /\ turn'[t] = r /\ \A u \in Turn : u # t => turn'[u] = turn[u]
  BY <1>2 DEF ChatTypeOK
<1>4. Quiet
  BY <1>1, <1>2, <1>3 DEF Quiet, Speaking
<1>5. TurnShape'
  BY <1>1, <1>2, <1>3 DEF TurnShape, On, Here
<1>6. FreshTalk'
  BY <1>1, <1>2, <1>3 DEF FreshTalk, Here
<1>7. NoOrphanMessage'
  BY <1>1 DEF NoOrphanMessage
<1> QED BY <1>1, <1>3, <1>4, <1>5, <1>6, <1>7, QuietStep DEF ChatTypeOK, EraserShape

(* A conversation that is created, archived or opened again.                *)
LEMMA TalkStep ==
  ASSUME ChatInv, NEW k \in Talk, NEW v \in {"open", "archived"},
         talk' = [talk EXCEPT ![k] = v],
         title' = title, log' = log, turn' = turn, titling' = titling,
         eraser' = eraser, booking' = booking, disturbed' = disturbed
  PROVE  ChatInv'
<1> USE DEF ChatInv
<1>1. /\ talk' \in [Talk -> TalkState] /\ talk'[k] = v
      /\ \A h \in Talk : h # k => talk'[h] = talk[h]
  BY DEF ChatTypeOK, TalkState
<1>2. Quiet
  BY DEF Quiet
<1>3. TurnShape' /\ FreshTalk' /\ NoOrphanMessage'
  BY <1>1 DEF TurnShape, FreshTalk, NoOrphanMessage, On, Here
<1> QED BY <1>1, <1>2, <1>3, QuietStep DEF ChatTypeOK, EraserShape

LEMMA FindTitleStep ==
  ASSUME ChatInv, NEW k \in Talk, FindTitle(k)
  PROVE  ChatInv'
<1> USE DEF ChatInv
<1>1. /\ talk' = talk /\ log' = log /\ turn' = turn /\ titling' \subseteq Talk
      /\ eraser' = eraser /\ booking' = booking /\ disturbed' = disturbed
  BY DEF FindTitle, ChatTypeOK
<1>2. title' \in [Talk -> Title]
  BY DEF FindTitle, ChatTypeOK, Title
<1>3. Quiet
  BY <1>1 DEF Quiet
<1>4. TurnShape' /\ FreshTalk' /\ NoOrphanMessage'
  BY <1>1 DEF TurnShape, FreshTalk, NoOrphanMessage, On, Here
<1> QED BY <1>1, <1>2, <1>3, <1>4, QuietStep DEF ChatTypeOK, EraserShape

LEMMA EraserStep ==
  ASSUME ChatInv, (\E k \in Talk : BeginHardDelete(k)) \/ Drop \/ AbortErase
  PROVE  ChatInv'
<1> USE DEF ChatInv
<1>1. /\ talk' = talk /\ title' = title /\ log' = log /\ turn' = turn /\ titling' = titling
      /\ booking' = booking /\ disturbed' = disturbed
  BY DEF BeginHardDelete, Drop, AbortErase
<1>2. /\ eraser' \in [pc : {"idle", "drop", "commit"}, talk : Talk \cup {NoTalk}]
      /\ eraser'.pc # "idle" => eraser'.talk \in Talk
      /\ eraser'.pc = "commit" => Writers(eraser'.talk) = {}
  <2>1. CASE \E k \in Talk : BeginHardDelete(k)
    BY <2>1 DEF BeginHardDelete
  <2>2. CASE Drop
    <3>1. PICK e \in [pc : {"idle", "drop", "commit"}, talk : Talk \cup {NoTalk}] : e = eraser
      BY DEF ChatTypeOK
    <3>2. e.pc = "drop" /\ e.talk \in Talk /\ Writers(e.talk) = {}
      BY <2>2, <3>1 DEF Drop, EraserShape
    <3>3. eraser' = [e EXCEPT !.pc = "commit"]
      BY <2>2, <3>1 DEF Drop
    <3> QED BY <3>2, <3>3
  <2>3. CASE AbortErase
    BY <2>3 DEF AbortErase
  <2> QED BY <2>1, <2>2, <2>3
<1>3. Quiet
  BY <1>1 DEF Quiet
<1>4. TurnShape' /\ FreshTalk' /\ NoOrphanMessage'
  BY <1>1 DEF TurnShape, FreshTalk, NoOrphanMessage, On, Here
<1> QED BY <1>1, <1>2, <1>3, <1>4, QuietStep DEF ChatTypeOK

------------------------------------------------------------------------------
LEMMA ChatInvStep ==
  ASSUME ChatInv, [ChatNext]_chatVars
  PROVE  ChatInv'
<1>1. CASE UNCHANGED chatVars
  <2>1. /\ talk' = talk /\ title' = title /\ log' = log /\ turn' = turn /\ titling' = titling
        /\ eraser' = eraser /\ booking' = booking /\ disturbed' = disturbed
    BY <1>1 DEF chatVars
  <2>2. Quiet
    BY <2>1 DEF Quiet
  <2>3. TurnShape' /\ FreshTalk' /\ NoOrphanMessage'
    BY <2>1 DEF ChatInv, TurnShape, FreshTalk, NoOrphanMessage, On, Here
  <2> QED BY <2>1, <2>2, <2>3, QuietStep DEF ChatInv, ChatTypeOK, EraserShape
<1>2. CASE ChatNext
  <2>1. ASSUME NEW t \in Turn, NEW k \in Talk, OpenKnown(t, k) PROVE ChatInv'
    BY <2>1, OpenKnownStep
  <2>2. ASSUME NEW t \in Turn, NEW k \in Talk, NEW legacy \in BOOLEAN, OpenNew(t, k, legacy)
        PROVE  ChatInv'
    BY <2>2, OpenNewStep
  <2>3. ASSUME NEW t \in Turn, AskTurn(t) PROVE ChatInv'
    BY <2>3, AskStep
  <2>4. ASSUME NEW t \in Turn, AskFails(t) \/ LegacyFails(t) \/ Break(t) PROVE ChatInv'
    <3>1. ~On(t, "silent") /\ ForgetTurn(t)
      BY <2>4 DEF AskFails, LegacyFails, Break, Broken, On
    <3> QED BY <3>1, ForgetStep
  <2>5. ASSUME NEW t \in Turn, AnswerText(t) PROVE ChatInv'
    BY <2>5, AnswerTextStep
  <2>6. ASSUME NEW t \in Turn, AnswerFails(t) PROVE ChatInv'
    BY <2>6, AnswerFailsStep
  <2>7. ASSUME NEW t \in Turn, NEW n \in 1..MaxCalls, AnswerCalls(t, n) PROVE ChatInv'
    BY <2>7, AnswerCallsStep
  <2>8. ASSUME NEW t \in Turn, RunTool(t) PROVE ChatInv'
    BY <2>8, RunToolStep
  <2>9. ASSUME NEW t \in Turn, NEW b \in Booking, Reserve(t, b) PROVE ChatInv'
    BY <2>9, ReserveStep
  <2>10. ASSUME NEW t \in Turn, CommitTurn(t) PROVE ChatInv'
    BY <2>10, CommitStep
  <2>11. ASSUME NEW k \in Talk, CreateConversation(k) PROVE ChatInv'
    <3>1. PICK v \in {"open", "archived"} : v = "open"
      OBVIOUS
    <3>2. /\ talk' = [talk EXCEPT ![k] = v]
          /\ title' = title /\ log' = log /\ turn' = turn /\ titling' = titling
          /\ eraser' = eraser /\ booking' = booking /\ disturbed' = disturbed
      BY <2>11, <3>1 DEF CreateConversation
    <3> QED BY <3>2, TalkStep
  <2>12. ASSUME NEW k \in Talk, ArchiveConversation(k) \/ UnarchiveConversation(k) PROVE ChatInv'
    <3>1. PICK v \in {"open", "archived"} :
            /\ talk' = [talk EXCEPT ![k] = v]
            /\ title' = title /\ log' = log /\ turn' = turn /\ titling' = titling
            /\ eraser' = eraser /\ booking' = booking /\ disturbed' = disturbed
      BY <2>12 DEF ArchiveConversation, UnarchiveConversation, Archive
    <3> QED BY <3>1, TalkStep
  <2>13. ASSUME NEW k \in Talk, FindTitle(k) PROVE ChatInv'
    BY <2>13, FindTitleStep
  <2>14. ASSUME (\E k \in Talk : BeginHardDelete(k)) \/ Drop \/ AbortErase PROVE ChatInv'
    BY <2>14, EraserStep
  <2>15. CASE CommitErase
    BY <2>15, EraseStep
  <2> QED BY <1>2, <2>1, <2>2, <2>3, <2>4, <2>5, <2>6, <2>7, <2>8, <2>9, <2>10, <2>11, <2>12,
             <2>13, <2>14, <2>15 DEF ChatNext
<1> QED BY <1>1, <1>2

(* The variables of turns keep their types, for any number of turns,        *)
(* conversations, calls and rows, and the rest of the invariant holds.      *)
THEOREM ChatInvariant == ChatSpec => []ChatInv
<1>1. ChatInv /\ [ChatNext]_chatVars => ChatInv'
  BY ChatInvStep
<1> QED BY <1>1, ChatInvAtInit, PTL DEF ChatSpec

(* What is stored of a conversation is its committed part.                  *)
LEMMA KeptIsWhole ==
  ASSUME ChatInv, NEW k \in Talk \ disturbed
  PROVE  KeptLog(k) \in Seq(Message) /\ Whole(KeptLog(k), 0, MaxIterations)
<1> USE DEF ChatInv
<1>1. PICK p \in Seq(Message) : p = log[k]
  BY LogRows
<1>2. PICK l \in Nat : l = Len(p) /\ DOMAIN p = 1..l
  BY LenProperties
<1>3. PICK c \in 0..l :
        /\ \A i \in 1..c : p[i].by = Kept
        /\ Whole(SubSeq(p, 1, c), 0, MaxIterations)
        /\ c < l => OneTurn(k, c)
  BY <1>1, <1>2 DEF Splits, Split
<1>4. \A i \in (c + 1)..l : p[i].by # Kept
  <2>1. CASE c < l
    <3>1. PICK t \in Turn : \A i \in (c + 1)..l : p[i].by = t
      BY <1>1, <1>2, <1>3, <2>1 DEF OneTurn
    <3> QED BY <3>1, ChatAssumption
  <2>2. CASE ~(c < l)
    BY <1>3, <2>2
  <2> QED BY <2>1, <2>2
<1>5. {i \in DOMAIN p : p[i].by = Kept} = 1..c
  <2>1. \A i \in 1..l : i \in 1..c \/ i \in (c + 1)..l
    BY <1>3
  <2>2. \A i \in 1..c : i \in 1..l
    BY <1>3
  <2> QED BY <1>2, <1>3, <1>4, <2>1, <2>2
<1>6. KeptLog(k) = SubSeq(p, 1, c)
  BY <1>1, <1>2, <1>3, <1>5, PickedHead DEF KeptLog
<1>7. SubSeq(p, 1, c) \in Seq(Message)
  <2>1. \A i \in 1..c : p[i] \in Message
    BY <1>2, <1>3, RowsOf
  <2> QED BY <1>3, <2>1, SubSeqProperties
<1> QED BY <1>3, <1>6, <1>7

LEMMA TurnsAreWhole == ChatInv => WholeTurns /\ NoOrphanMessage
<1> SUFFICES ASSUME ChatInv PROVE WholeTurns /\ NoOrphanMessage
  OBVIOUS
<1>1. NoOrphanMessage
  BY DEF ChatInv
<1>2. ASSUME NEW k \in Talk \ disturbed
      PROVE  LET p == KeptLog(k) IN
             /\ WellFormed(p)
             /\ p # <<>> => p[1].role = "user"
             /\ \A i, j \in 1..Len(p) :
                  (\A n \in (i + 1)..j : p[n].role # "user") =>
                    Cardinality({n \in i..j : p[n].role = "assistant"}) <= MaxIterations
  <2>1. PICK p \in Seq(Message) : p = KeptLog(k) /\ Whole(p, 0, MaxIterations)
    BY KeptIsWhole
  <2>2. /\ WellFormed(p)
        /\ p # <<>> => p[1].role = "user"
        /\ \A i, j \in 1..Len(p) :
             (\A n \in (i + 1)..j : p[n].role # "user") =>
               Cardinality({n \in i..j : p[n].role = "assistant"}) <= MaxIterations
    BY <2>1, WholeIsPaired
  <2> QED BY <2>1, <2>2, Zenon
<1>3. WholeTurns
  BY <1>2, Zenon DEF WholeTurns
<1> QED BY <1>1, <1>3

LEMMA PromptsStayPaired == ChatInv => PromptsArePaired
<1> SUFFICES ASSUME ChatInv, NEW t \in AtModel
             PROVE  /\ History(t)[1].role = "user"
                    /\ \A p \in Prompts(t) : WellFormed(p)
  BY Zenon DEF PromptsArePaired
<1>1. PICK k \in Talk \ disturbed : k = Here(t)
  <2>1. t \in Turn /\ turn[t].pc = "model" /\ Here(t) \notin disturbed
    BY DEF AtModel, On
  <2> QED BY <2>1, SpeakingHolds DEF ChatInv, Speaking
<1>2. PICK q \in Seq(Message) : q = log[k]
  BY LogRows DEF ChatInv
<1>3. PICK l \in Nat : l = Len(q)
  BY RowsOf
<1>4. PICK i \in 1..l : q[i].by = t
  <2>1. t \in Writers(Here(t))
    BY DEF AtModel, On, ChatInv, HasRow, Speaking
  <2> QED BY <1>1, <1>2, <1>3, <2>1 DEF Writers
<1>5. PICK c \in 0..l : (\A j \in 1..c : q[j].by = Kept) /\ (c < l => OneTurn(k, c))
  <2>1. Split(k)
    BY <1>1 DEF ChatInv, Splits
  <2>2. PICK c \in 0..Len(log[k]) :
          (\A j \in 1..c : log[k][j].by = Kept) /\ (c < Len(log[k]) => OneTurn(k, c))
    BY <2>1, Zenon DEF Split
  <2>3. log[k] = q /\ Len(log[k]) = l
    BY <1>2, <1>3
  <2>4. c \in 0..l /\ (\A j \in 1..c : q[j].by = Kept) /\ (c < l => OneTurn(k, c))
    BY <2>2, <2>3, Zenon
  <2> QED BY <2>4, Zenon
<1>6. i \notin 1..c /\ i > c /\ c < l
  <2>1. i \notin 1..c
    <3>1. t \in Turn /\ Kept \notin Turn
      BY ChatAssumption DEF AtModel
    <3>2. i \in 1..c => q[i].by = Kept
      BY <1>5, Zenon
    <3> QED BY <1>4, <3>1, <3>2, Zenon
  <2> QED BY <2>1
<1>7. PICK u \in Turn : /\ \A j \in (c + 1)..l : q[j].by = u
                        /\ Whole(q, turn[u].left, turn[u].round)
  BY <1>2, <1>3, <1>5, <1>6 DEF OneTurn
<1>8. u = t
  <2>1. i \in (c + 1)..l
    BY <1>6
  <2> QED BY <1>4, <1>7, <2>1
<1>9. turn[t].left = 0
  <2>1. turn[t].pc = "model" /\ t \in Turn
    BY DEF AtModel, On
  <2>2. ~(turn[t].left > 0) /\ turn[t] \in TurnRecord
    BY <2>1 DEF ChatInv, TurnShape, ChatTypeOK, On
  <2> QED BY <2>2, ChatAssumption DEF TurnRecord
<1>10. Whole(q, 0, turn[t].round)
  BY <1>7, <1>8, <1>9
<1>11. WellFormed(q) /\ l > 0 /\ q[1].role = "user"
  BY <1>3, <1>4, <1>10, RowsWellFormed
<1>12. PICK n \in 1..l : n = LastQuestion(q) /\ q[n].role = "user"
  BY <1>3, <1>11, LastQuestionIs
<1>14. PICK h : h = Prompt(SubSeq(q, 1, n))
  OBVIOUS
<1>15. /\ h[1].role = "user"
       /\ \A p \in Truncations(h \o SubSeq(q, n + 1, Len(q))) : WellFormed(p)
  BY <1>3, <1>11, <1>12, <1>14, PromptsPaired
<1>16. Rows(t) = q /\ History(t) = h /\ Prompts(t) = Truncations(h \o SubSeq(q, n + 1, Len(q)))
  BY <1>1, <1>2, <1>12, <1>14 DEF Rows, History, Prompts
<1> QED BY <1>15, <1>16

LEMMA BookingStep ==
  ASSUME ChatInv, [ChatNext]_chatVars, NEW b \in Booking,
         booking'[b] = "kept", booking[b] # "kept"
  PROVE  LET t == booking[b] IN
         /\ t \in Turn
         /\ \E i \in 1..Len(log[Here(t)]) : log[Here(t)][i].by = t /\ log[Here(t)][i].role = "tool"
         /\ \A i \in 1..Len(log[Here(t)]) : log[Here(t)][i].by = t => log'[Here(t)][i].by = Kept
<1>1. ~UNCHANGED booking
  OBVIOUS
<1>2. "kept" \notin Turn
  BY ChatAssumption
<1>3. booking \in [Booking -> {"absent", "kept", "lost"} \cup Turn]
  BY DEF ChatInv, ChatTypeOK
<1>4. ASSUME NEW t \in Turn, NEW c \in Booking, Reserve(t, c) PROVE FALSE
  <2>1. booking' = [booking EXCEPT ![c] = t]
    BY <1>4 DEF Reserve
  <2> QED BY <1>2, <1>3, <2>1
<1>5. ASSUME NEW t \in Turn, ForgetTurn(t) PROVE FALSE
  <2>1. booking' = [c \in Booking |-> IF booking[c] = t THEN "lost" ELSE booking[c]]
    BY <1>5 DEF ForgetTurn
  <2> QED BY <2>1
<1>6. PICK t \in Turn : CommitTurn(t)
  <2>1. UNCHANGED chatVars => UNCHANGED booking
    BY DEF chatVars
  <2>2. ASSUME NEW t \in Turn
        PROVE  /\ \A k \in Talk : ~OpenKnown(t, k) /\ \A legacy \in BOOLEAN : ~OpenNew(t, k, legacy)
               /\ ~AskTurn(t) /\ ~AskFails(t) /\ ~AnswerText(t) /\ ~AnswerFails(t)
               /\ \A n \in 1..MaxCalls : ~AnswerCalls(t, n)
               /\ ~RunTool(t) /\ \A c \in Booking : ~Reserve(t, c)
               /\ ~LegacyFails(t) /\ ~Break(t)
    BY <1>1, <1>4, <1>5 DEF OpenKnown, OpenNew, AskTurn, AskFails, AnswerText, AnswerFails,
         AnswerCalls, RunTool, LegacyFails, Break, Broken
  <2>3. ASSUME NEW k \in Talk
        PROVE  /\ ~CreateConversation(k) /\ ~FindTitle(k) /\ ~BeginHardDelete(k)
               /\ ~ArchiveConversation(k) /\ ~UnarchiveConversation(k)
    BY <1>1 DEF CreateConversation, FindTitle, BeginHardDelete, ArchiveConversation,
         UnarchiveConversation, Archive
  <2>4. ~Drop /\ ~CommitErase /\ ~AbortErase
    BY <1>1 DEF Drop, CommitErase, AbortErase
  <2> QED BY <1>1, <2>1, <2>2, <2>3, <2>4 DEF ChatNext
<1>7. booking[b] = t
  <2>1. booking' = [c \in Booking |-> IF booking[c] = t THEN "kept" ELSE booking[c]]
    BY <1>6 DEF CommitTurn
  <2> QED BY <2>1
<1>8. \E i \in 1..Len(log[Here(t)]) : log[Here(t)][i].by = t /\ log[Here(t)][i].role = "tool"
  BY <1>7 DEF ChatInv, Booked
<1>9. \A i \in 1..Len(log[Here(t)]) : log[Here(t)][i].by = t => log'[Here(t)][i].by = Kept
  <2>1. turn[t].pc \in Speaking /\ ChatTypeOK
    BY <1>7 DEF ChatInv, Booked
  <2>2. PICK h \in Talk : h = Here(t)
    BY <2>1, SpeakingHolds
  <2> QED BY <1>6, <2>1, <2>2, CommittedRows
<1> QED BY <1>7, <1>8, <1>9

(* What is stored of a conversation is whole turns, a conversation that was *)
(* deleted leaves no message, and a reservation request is stored with the  *)
(* messages of its turn.                                                    *)
THEOREM TurnsAreKept == ChatSpec => TurnsHold
<1>1. ChatInv => WholeTurns /\ NoOrphanMessage
  BY TurnsAreWhole
<1>2. ChatInv /\ [ChatNext]_chatVars =>
        [\A b \in Booking : booking'[b] = "kept" /\ booking[b] # "kept" =>
           LET t == booking[b] IN
           /\ t \in Turn
           /\ \E i \in 1..Len(log[Here(t)]) : log[Here(t)][i].by = t /\ log[Here(t)][i].role = "tool"
           /\ \A i \in 1..Len(log[Here(t)]) :
                log[Here(t)][i].by = t => log'[Here(t)][i].by = Kept]_chatVars
  BY BookingStep
<1> QED BY <1>1, <1>2, ChatInvariant, PTL DEF TurnsHold, BookedWithTurn, ChatSpec

(* The prompt of a next turn pairs every call with its results, wherever    *)
(* the window of the history and the token guard cut.                       *)
THEOREM PromptsPairedAlways == ChatSpec => []PromptsArePaired
BY ChatInvariant, PromptsStayPaired, PTL
=============================================================================
