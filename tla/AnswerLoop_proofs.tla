---------------------------- MODULE AnswerLoop_proofs ----------------------------
(* Theorems about AnswerLoop and, since it computes the prompt, about trim_messages
   as PromptBudget has it: of every list of messages a round can bring, whatever
   their number and sizes.  Sums and selections are recursive functions of their
   last index; what holds of them is shown by induction, which is taken from the
   least-number principle (Least, Induct) for sets of numbers. *)
EXTENDS AnswerLoop, WellFoundedInduction, FiniteSetTheorems, SequenceTheorems, TLAPS

LEMMA Least ==
  ASSUME NEW S \in SUBSET Nat, S # {}
  PROVE  \E n \in S : \A m \in S : n <= m
<1> DEFINE R == OpToRel(<, Nat)
<1>1. IsWellFoundedOn(R, Nat)
  BY NatLessThanWellFounded
<1> HIDE DEF R
<1>2. PICK n \in S : \A m \in S : ~(<<m, n>> \in R)
  BY <1>1, WFMin
<1>3. \A m \in S : ~(m < n)
  BY <1>2 DEF R, OpToRel
<1>4. QED
  BY <1>3

LEMMA Induct ==
  ASSUME NEW n \in Nat, NEW S, 0 \in S, \A i \in 0 .. n - 1 : i \in S => i + 1 \in S
  PROVE  0 .. n \subseteq S
<1>1. SUFFICES ASSUME (0 .. n) \ S # {} PROVE FALSE
  OBVIOUS
<1> DEFINE T == (0 .. n) \ S
<1>2. PICK i \in T : \A j \in T : i <= j
  <2>1. T \in SUBSET Nat /\ T # {}
    BY <1>1
  <2> HIDE DEF T
  <2>2. QED
    BY <2>1, Least
<1>3. i # 0 /\ i - 1 \in 0 .. n - 1 /\ i - 1 \in S
  BY <1>2
<1>4. QED
  BY <1>3, <1>2

LEMMA Greatest ==
  ASSUME NEW n \in Nat, NEW S \in SUBSET (0 .. n), S # {}
  PROVE  \E m \in S : \A k \in S : k <= m
<1> DEFINE T == {n - m : m \in S}
<1>1. PICK t \in T : \A u \in T : t <= u
  <2>1. S \in SUBSET (0 .. n) /\ S # {}
    OBVIOUS
  <2>2. \A m \in S : n - m \in Nat
    BY <2>1
  <2>3. T \in SUBSET Nat /\ T # {}
    BY <2>1, <2>2
  <2> HIDE DEF T
  <2>4. QED
    BY <2>3, Least
<1>2. PICK m \in S : t = n - m
  BY <1>1
<1>3. \A k \in S : n - m <= n - k
  BY <1>1, <1>2
<1>4. QED
  BY <1>3

-----------------------------------------------------------------------------
(* Sums.  Upto(sizes, I) is the function Total defines. *)

UpTo(sizes, I) ==
  CHOOSE upTo : upTo = [i \in 0 .. Len(sizes) |->
     IF i = 0 THEN 0 ELSE upTo[i - 1] + IF i \in I THEN sizes[i] ELSE 0]

LEMMA TotalIs ==
  ASSUME NEW sizes, NEW I
  PROVE  Total(sizes, I) = UpTo(sizes, I)[Len(sizes)]
BY DEF Total, UpTo

LEMMA UpToIs ==
  ASSUME NEW sizes, Len(sizes) \in Nat, NEW I
  PROVE  UpTo(sizes, I) = [i \in 0 .. Len(sizes) |->
           IF i = 0 THEN 0 ELSE UpTo(sizes, I)[i - 1] + IF i \in I THEN sizes[i] ELSE 0]
<1> DEFINE IsSum(u, n) == u = [i \in 0 .. n |-> IF i = 0 THEN 0
                                                ELSE u[i - 1] + IF i \in I THEN sizes[i] ELSE 0]
           S == {n \in Nat : \E u : IsSum(u, n)}
<1>1. 0 \in S
  <2>1. IsSum([i \in 0 .. 0 |-> 0], 0)
    OBVIOUS
  <2>2. QED
    BY <2>1
<1>2. ASSUME NEW n \in Nat, n \in S
      PROVE  n + 1 \in S
  <2>1. PICK u : IsSum(u, n)
    BY <1>2
  <2> DEFINE v == [i \in 0 .. n + 1 |-> IF i \in 0 .. n THEN u[i]
                                         ELSE u[n] + IF n + 1 \in I THEN sizes[n + 1] ELSE 0]
  <2>2. IsSum(v, n + 1)
    BY <2>1
  <2> HIDE DEF v, IsSum
  <2>3. n + 1 \in Nat /\ \E w : IsSum(w, n + 1)
    BY <2>2
  <2>4. QED
    BY <2>3
<1>3. Len(sizes) \in S
  <2> HIDE DEF S
  <2>1. \A i \in 0 .. Len(sizes) - 1 : i \in S => i + 1 \in S
    BY <1>2
  <2>2. 0 .. Len(sizes) \subseteq S
    BY <1>1, <2>1, Induct
  <2>3. QED
    BY <2>2
<1>4. \E u : IsSum(u, Len(sizes))
  BY <1>3
<1>5. QED
  BY <1>4 DEF UpTo

LEMMA UpToStep ==
  ASSUME NEW sizes \in Seq(Nat), NEW I
  PROVE  /\ Len(sizes) \in Nat
         /\ UpTo(sizes, I)[0] = 0
         /\ \A i \in 0 .. Len(sizes) - 1 :
              UpTo(sizes, I)[i + 1] = UpTo(sizes, I)[i] + IF i + 1 \in I THEN sizes[i + 1] ELSE 0
<1> DEFINE u == UpTo(sizes, I)
<1>1. u = [i \in 0 .. Len(sizes) |-> IF i = 0 THEN 0 ELSE u[i - 1] + IF i \in I THEN sizes[i] ELSE 0]
  BY UpToIs
<1> HIDE DEF u
<1>2. u[0] = 0 /\ \A i \in 1 .. Len(sizes) : u[i] = u[i - 1] + IF i \in I THEN sizes[i] ELSE 0
  BY <1>1
<1>3. \A i \in 0 .. Len(sizes) - 1 : i + 1 \in 1 .. Len(sizes) /\ (i + 1) - 1 = i
  OBVIOUS
<1>4. \A i \in 0 .. Len(sizes) - 1 : u[i + 1] = u[i] + IF i + 1 \in I THEN sizes[i + 1] ELSE 0
  BY <1>2, <1>3
<1>5. QED
  BY <1>2, <1>4 DEF u

LEMMA UpToNat ==
  ASSUME NEW sizes \in Seq(Nat), NEW I
  PROVE  \A i \in 0 .. Len(sizes) : UpTo(sizes, I)[i] \in Nat
<1> DEFINE S == {i \in Nat : i \in 0 .. Len(sizes) => UpTo(sizes, I)[i] \in Nat}
<1>1. 0 \in S
  BY UpToStep
<1>2. \A i \in 0 .. Len(sizes) - 1 : i \in S => i + 1 \in S
  <2> TAKE i \in 0 .. Len(sizes) - 1
  <2>1. i + 1 \in 1 .. Len(sizes) /\ sizes[i + 1] \in Nat
    OBVIOUS
  <2>2. UpTo(sizes, I)[i + 1] = UpTo(sizes, I)[i] + IF i + 1 \in I THEN sizes[i + 1] ELSE 0
    BY <2>1, UpToStep
  <2>3. QED
    BY <2>1, <2>2
<1> HIDE DEF S
<1>3. 0 .. Len(sizes) \subseteq S
  <2>1. Len(sizes) \in Nat
    OBVIOUS
  <2>2. QED
    BY <1>1, <1>2, <2>1, Induct
<1>4. QED
  BY <1>3 DEF S

LEMMA TotalNat ==
  ASSUME NEW sizes \in Seq(Nat), NEW I
  PROVE  Total(sizes, I) \in Nat
BY UpToNat, TotalIs

(* The sums of two sequences that agree on what is summed. *)
Agree(a, b, I, J, n) == \A i \in 1 .. n : (i \in I <=> i \in J) /\ (i \in I => a[i] = b[i])

LEMMA UpToAgree ==
  ASSUME NEW a \in Seq(Nat), NEW b \in Seq(Nat), NEW I, NEW J, NEW n \in Nat,
         n <= Len(a), n <= Len(b), Agree(a, b, I, J, n)
  PROVE  UpTo(a, I)[n] = UpTo(b, J)[n]
<1> DEFINE S == {i \in Nat : i \in 0 .. n => UpTo(a, I)[i] = UpTo(b, J)[i]}
<1>1. 0 \in S
  BY UpToStep
<1>2. \A i \in 0 .. n - 1 : i \in S => i + 1 \in S
  <2> TAKE i \in 0 .. n - 1
  <2>1. i + 1 \in 1 .. n /\ i \in 0 .. Len(a) - 1 /\ i \in 0 .. Len(b) - 1
    OBVIOUS
  <2>2. UpTo(a, I)[i + 1] = UpTo(a, I)[i] + IF i + 1 \in I THEN a[i + 1] ELSE 0
    BY <2>1, UpToStep
  <2>3. UpTo(b, J)[i + 1] = UpTo(b, J)[i] + IF i + 1 \in J THEN b[i + 1] ELSE 0
    BY <2>1, UpToStep
  <2>4. QED
    BY <2>1, <2>2, <2>3 DEF Agree
<1> HIDE DEF S
<1>3. 0 .. n \subseteq S
  BY <1>1, <1>2, Induct
<1>4. QED
  BY <1>3 DEF S

LEMMA TotalAgree ==
  ASSUME NEW a \in Seq(Nat), NEW b \in Seq(Nat), Len(a) = Len(b), NEW I,
         \A i \in DOMAIN a : i \in I => a[i] = b[i]
  PROVE  Total(a, I) = Total(b, I)
<1>1. Agree(a, b, I, I, Len(a)) /\ Len(a) \in Nat
  BY DEF Agree
<1>2. UpTo(a, I)[Len(a)] = UpTo(b, I)[Len(a)]
  BY <1>1, UpToAgree
<1>3. QED
  BY <1>2, TotalIs

LEMMA TotalUnion ==
  ASSUME NEW sizes \in Seq(Nat), NEW I, NEW J, I \cap J = {}
  PROVE  Total(sizes, I \cup J) = Total(sizes, I) + Total(sizes, J)
<1> DEFINE S == {i \in Nat : i \in 0 .. Len(sizes) =>
                    UpTo(sizes, I \cup J)[i] = UpTo(sizes, I)[i] + UpTo(sizes, J)[i]}
<1>1. 0 \in S
  <2>1. \A K : UpTo(sizes, K)[0] = 0
    BY UpToStep
  <2>2. QED
    BY <2>1
<1>2. \A i \in 0 .. Len(sizes) - 1 : i \in S => i + 1 \in S
  <2> TAKE i \in 0 .. Len(sizes) - 1
  <2>1. i + 1 \in 1 .. Len(sizes) /\ sizes[i + 1] \in Nat /\ i \in 0 .. Len(sizes)
    OBVIOUS
  <2>2. \A K : /\ UpTo(sizes, K)[i + 1] = UpTo(sizes, K)[i] + IF i + 1 \in K THEN sizes[i + 1] ELSE 0
               /\ UpTo(sizes, K)[i] \in Nat
    BY <2>1, UpToStep, UpToNat
  <2>3. QED
    BY <2>1, <2>2
<1> HIDE DEF S
<1>3. 0 .. Len(sizes) \subseteq S
  <2>1. Len(sizes) \in Nat
    OBVIOUS
  <2>2. QED
    BY <1>1, <1>2, <2>1, Induct
<1>4. Len(sizes) \in S /\ Len(sizes) \in 0 .. Len(sizes)
  BY <1>3
<1>5. QED
  BY <1>4, TotalIs DEF S

LEMMA TotalNone ==
  ASSUME NEW sizes \in Seq(Nat)
  PROVE  Total(sizes, {}) = 0
<1>1. Total(sizes, {} \cup {}) = Total(sizes, {}) + Total(sizes, {})
  BY TotalUnion
<1>2. QED
  BY <1>1, TotalNat

(* A sum over the indices below one is what has been summed before it. *)
LEMMA TotalBelow ==
  ASSUME NEW sizes \in Seq(Nat), NEW I, NEW n \in 0 .. Len(sizes)
  PROVE  Total(sizes, {j \in I : j <= n}) = UpTo(sizes, I)[n]
<1> DEFINE B == {j \in I : j <= n}
           S == {i \in Nat : i \in 0 .. Len(sizes) - n => UpTo(sizes, B)[n + i] = UpTo(sizes, I)[n]}
<1>1. 0 \in S
  <2>1. Agree(sizes, sizes, B, I, n)
    BY DEF Agree
  <2>2. QED
    BY <2>1, UpToAgree
<1>2. \A i \in 0 .. (Len(sizes) - n) - 1 : i \in S => i + 1 \in S
  <2> TAKE i \in 0 .. (Len(sizes) - n) - 1
  <2>1. n + (i + 1) \in 1 .. Len(sizes) /\ n + (i + 1) \notin B /\ (n + (i + 1)) - 1 = n + i
    OBVIOUS
  <2>2. UpTo(sizes, B)[n + (i + 1)] = UpTo(sizes, B)[n + i] + 0
    <3> HIDE DEF B
    <3>1. n + i \in 0 .. Len(sizes) - 1 /\ (n + i) + 1 = n + (i + 1)
      OBVIOUS
    <3>2. QED
      BY <2>1, <3>1, UpToStep
  <2>3. UpTo(sizes, B)[n + i] \in Nat
    BY UpToNat
  <2> HIDE DEF B
  <2>4. QED
    BY <2>2, <2>3
<1>3. 0 .. Len(sizes) - n \subseteq S
  <2> HIDE DEF S
  <2>1. Len(sizes) - n \in Nat
    OBVIOUS
  <2>2. QED
    BY <1>1, <1>2, <2>1, Induct
<1>4. UpTo(sizes, B)[Len(sizes)] = UpTo(sizes, I)[n]
  <2>1. Len(sizes) - n \in 0 .. Len(sizes) - n /\ n + (Len(sizes) - n) = Len(sizes)
    OBVIOUS
  <2>2. Len(sizes) - n \in S
    BY <1>3, <2>1
  <2>3. UpTo(sizes, B)[n + (Len(sizes) - n)] = UpTo(sizes, I)[n]
    BY <2>1, <2>2
  <2>4. QED
    BY <2>1, <2>3
<1>5. QED
  BY <1>4, TotalIs

-----------------------------------------------------------------------------
(* The tokens of a list, and of a selection from it. *)

Sizes(messages) == [i \in DOMAIN messages |-> messages[i].size]
Spares(messages) == [i \in DOMAIN messages |-> Spare(messages[i])]

(* A tool's reply has its envelope at least. *)
Weighty(messages) == \A i \in DOMAIN messages : messages[i].role = "tool" => messages[i].size >= 1

LEMMA SizesAre ==
  ASSUME NEW messages \in Seq(Message)
  PROVE  /\ Sizes(messages) \in Seq(Nat) /\ Len(Sizes(messages)) = Len(messages)
         /\ DOMAIN messages = 1 .. Len(messages) /\ Len(messages) \in Nat
         /\ \A i \in 1 .. Len(messages) : Sizes(messages)[i] = messages[i].size
         /\ \A I : SizeOf(messages, I) = Total(Sizes(messages), I)
<1>1. \A i \in DOMAIN messages : messages[i].size \in Nat
  <2>1. \A i \in DOMAIN messages : messages[i] \in Message
    OBVIOUS
  <2>2. QED
    BY <2>1 DEF Message
<1>2. Sizes(messages) \in [1 .. Len(messages) -> Nat] /\ Len(messages) \in Nat
  BY <1>1 DEF Sizes
<1>3. Sizes(messages) \in Seq(Nat) /\ Len(Sizes(messages)) = Len(messages)
  <2> HIDE DEF Sizes
  <2>1. QED
    BY <1>2
<1>4. QED
  BY <1>3 DEF Sizes, SizeOf

LEMMA SparesAre ==
  ASSUME NEW messages \in Seq(Message), Weighty(messages)
  PROVE  /\ Spares(messages) \in Seq(Nat) /\ Len(Spares(messages)) = Len(messages)
         /\ \A i \in 1 .. Len(messages) : Spares(messages)[i] = Spare(messages[i])
         /\ \A i \in 1 .. Len(messages) : Spare(messages[i]) \in Nat /\ Spare(messages[i]) <= messages[i].size
         /\ \A I : SpareOf(messages, I) = Total(Spares(messages), I)
<1>1. \A i \in DOMAIN messages : Spare(messages[i]) \in Nat /\ Spare(messages[i]) <= messages[i].size
  <2>1. \A i \in DOMAIN messages : messages[i] \in Message /\ (messages[i].role = "tool" => messages[i].size >= 1)
    BY DEF Weighty
  <2>2. \A m \in Message : (m.role = "tool" => m.size >= 1) => Spare(m) \in Nat /\ Spare(m) <= m.size
    BY DEF Message, Spare
  <2>3. QED
    BY <2>1, <2>2
<1>2. Spares(messages) \in [1 .. Len(messages) -> Nat] /\ Len(messages) \in Nat
  BY <1>1 DEF Spares
<1>3. Spares(messages) \in Seq(Nat) /\ Len(Spares(messages)) = Len(messages)
  <2> HIDE DEF Spares
  <2>1. QED
    BY <1>2
<1>4. QED
  BY <1>1, <1>3 DEF Spares, SpareOf

LEMMA TokensNat ==
  ASSUME NEW messages \in Seq(Message), NEW I
  PROVE  SizeOf(messages, I) \in Nat /\ Tokens(messages) \in Nat
BY SizesAre, TotalNat DEF Tokens

LEMMA TokensAppend ==
  ASSUME NEW messages \in Seq(Message), NEW m \in Message
  PROVE  Tokens(Append(messages, m)) = Tokens(messages) + m.size
<1> DEFINE longer == Append(messages, m)
           n == Len(messages)
<1>1. longer \in Seq(Message) /\ Len(longer) = n + 1 /\ n \in Nat
  OBVIOUS
<1>2. /\ Sizes(longer) \in Seq(Nat) /\ Len(Sizes(longer)) = n + 1
      /\ Sizes(messages) \in Seq(Nat) /\ Len(Sizes(messages)) = n
  BY <1>1, SizesAre
<1>3. /\ Tokens(longer) = UpTo(Sizes(longer), 1 .. n + 1)[n + 1]
      /\ Tokens(messages) = UpTo(Sizes(messages), 1 .. n)[n]
  <2>1. DOMAIN longer = 1 .. n + 1 /\ DOMAIN messages = 1 .. n
    BY <1>1
  <2>2. /\ Tokens(longer) = Total(Sizes(longer), 1 .. n + 1)
        /\ Tokens(messages) = Total(Sizes(messages), 1 .. n)
    <3> HIDE DEF longer, n
    <3>1. QED
      BY <1>1, <2>1, SizesAre DEF Tokens
  <2>3. QED
    BY <1>2, <2>2, TotalIs
<1>4. Agree(Sizes(longer), Sizes(messages), 1 .. n + 1, 1 .. n, n)
  <2> SUFFICES ASSUME NEW i \in 1 .. n
               PROVE  Sizes(longer)[i] = Sizes(messages)[i]
    BY <1>1 DEF Agree
  <2>1. longer[i] = messages[i] /\ i \in 1 .. n + 1
    OBVIOUS
  <2> HIDE DEF longer
  <2>2. QED
    BY <1>1, <2>1, SizesAre
<1>5. UpTo(Sizes(longer), 1 .. n + 1)[n] = UpTo(Sizes(messages), 1 .. n)[n]
  <2>1. n <= Len(Sizes(longer)) /\ n <= Len(Sizes(messages)) /\ n \in Nat
    BY <1>1, <1>2
  <2> HIDE DEF longer, n
  <2>2. QED
    BY <1>2, <1>4, <2>1, UpToAgree
<1>6. Sizes(longer)[n + 1] = m.size
  <2>1. longer[n + 1] = m /\ n + 1 \in 1 .. n + 1
    BY <1>1
  <2> HIDE DEF longer, n
  <2>2. QED
    BY <1>1, <2>1, SizesAre
<1>7. UpTo(Sizes(longer), 1 .. n + 1)[n + 1] = UpTo(Sizes(longer), 1 .. n + 1)[n] + Sizes(longer)[n + 1]
  <2>1. n \in 0 .. Len(Sizes(longer)) - 1 /\ n + 1 \in 1 .. n + 1
    BY <1>1, <1>2
  <2> HIDE DEF longer, n
  <2>2. QED
    BY <1>2, <2>1, UpToStep
<1>8. QED
  BY <1>3, <1>5, <1>6, <1>7

LEMMA TokensEmpty == Tokens(<<>>) = 0
<1>1. <<>> \in Seq(Message) /\ DOMAIN <<>> = {}
  OBVIOUS
<1>2. Tokens(<<>>) = Total(Sizes(<<>>), {}) /\ Sizes(<<>>) \in Seq(Nat)
  BY <1>1, SizesAre DEF Tokens
<1>3. QED
  BY <1>2, TotalNone

(* PickUpTo(messages, I) is the function Picked defines. *)
PickUpTo(messages, I) ==
  CHOOSE upTo : upTo = [i \in 0 .. Len(messages) |->
     IF i = 0 THEN <<>> ELSE IF i \in I THEN Append(upTo[i - 1], messages[i]) ELSE upTo[i - 1]]

LEMMA PickedIsLast ==
  ASSUME NEW messages, NEW I
  PROVE  Picked(messages, I) = PickUpTo(messages, I)[Len(messages)]
BY DEF Picked, PickUpTo

LEMMA PickUpToIs ==
  ASSUME NEW messages, Len(messages) \in Nat, NEW I
  PROVE  PickUpTo(messages, I) = [i \in 0 .. Len(messages) |->
           IF i = 0 THEN <<>> ELSE IF i \in I THEN Append(PickUpTo(messages, I)[i - 1], messages[i])
                                   ELSE PickUpTo(messages, I)[i - 1]]
<1> DEFINE IsPick(u, n) == u = [i \in 0 .. n |->
             IF i = 0 THEN <<>> ELSE IF i \in I THEN Append(u[i - 1], messages[i]) ELSE u[i - 1]]
           S == {n \in Nat : \E u : IsPick(u, n)}
<1>1. 0 \in S
  <2>1. IsPick([i \in 0 .. 0 |-> <<>>], 0)
    OBVIOUS
  <2>2. QED
    BY <2>1
<1>2. ASSUME NEW n \in Nat, n \in S
      PROVE  n + 1 \in S
  <2>1. PICK u : IsPick(u, n)
    BY <1>2
  <2> DEFINE last == IF n + 1 \in I THEN Append(u[n], messages[n + 1]) ELSE u[n]
             v == [i \in 0 .. n + 1 |-> IF i \in 0 .. n THEN u[i] ELSE last]
             w == [i \in 0 .. n + 1 |->
                     IF i = 0 THEN <<>> ELSE IF i \in I THEN Append(v[i - 1], messages[i]) ELSE v[i - 1]]
  <2>2. IsPick(v, n + 1)
    <3>1. \A i \in 0 .. n : v[i] = u[i]
      OBVIOUS
    <3>2. v[n + 1] = last
      BY <1>2
    <3> HIDE DEF v
    <3>3. ASSUME NEW i \in 1 .. n
          PROVE  u[i] = IF i \in I THEN Append(u[i - 1], messages[i]) ELSE u[i - 1]
      <4>1. i \in 0 .. n /\ i # 0
        BY <1>2
      <4>2. QED
        BY <2>1, <4>1
    <3>4. \A i \in 1 .. n : v[i] = w[i]
      BY <3>1, <3>3
    <3>5. v[n + 1] = w[n + 1] /\ v[0] = w[0]
      BY <1>2, <2>1, <3>1, <3>2
    <3>6. ASSUME NEW i \in 0 .. n + 1
          PROVE  v[i] = w[i]
      <4>1. i = 0 \/ i \in 1 .. n \/ i = n + 1
        BY <1>2
      <4> HIDE DEF w
      <4>2. QED
        BY <3>4, <3>5, <4>1
    <3>7. v = w
      <4>1. v = [i \in 0 .. n + 1 |-> v[i]] /\ w = [i \in 0 .. n + 1 |-> w[i]]
        BY DEF v
      <4> HIDE DEF w
      <4>2. QED
        BY <3>6, <4>1
    <3>8. QED
      BY <3>7
  <2> HIDE DEF v, IsPick
  <2>3. n + 1 \in Nat /\ \E x : IsPick(x, n + 1)
    BY <1>2, <2>2
  <2>4. QED
    BY <2>3
<1>3. Len(messages) \in S
  <2> HIDE DEF S
  <2>1. \A i \in 0 .. Len(messages) - 1 : i \in S => i + 1 \in S
    BY <1>2
  <2>2. 0 .. Len(messages) \subseteq S
    BY <1>1, <2>1, Induct
  <2>3. QED
    BY <2>2
<1>4. \E u : IsPick(u, Len(messages))
  BY <1>3
<1>5. QED
  BY <1>4 DEF PickUpTo

LEMMA PickStep ==
  ASSUME NEW messages \in Seq(Message), NEW I
  PROVE  /\ PickUpTo(messages, I)[0] = <<>>
         /\ \A i \in 0 .. Len(messages) - 1 :
              PickUpTo(messages, I)[i + 1] =
                IF i + 1 \in I THEN Append(PickUpTo(messages, I)[i], messages[i + 1])
                ELSE PickUpTo(messages, I)[i]
<1> DEFINE u == PickUpTo(messages, I)
<1>1. u = [i \in 0 .. Len(messages) |->
             IF i = 0 THEN <<>> ELSE IF i \in I THEN Append(u[i - 1], messages[i]) ELSE u[i - 1]]
  BY PickUpToIs
<1> HIDE DEF u
<1>2. /\ u[0] = <<>>
      /\ \A i \in 1 .. Len(messages) : u[i] = IF i \in I THEN Append(u[i - 1], messages[i]) ELSE u[i - 1]
  <2>1. Len(messages) \in Nat
    OBVIOUS
  <2>2. u[0] = <<>>
    BY <1>1, <2>1
  <2>3. ASSUME NEW i \in 1 .. Len(messages)
        PROVE  u[i] = IF i \in I THEN Append(u[i - 1], messages[i]) ELSE u[i - 1]
    <3>1. i \in 0 .. Len(messages) /\ i # 0
      BY <2>1
    <3>2. QED
      BY <1>1, <3>1
  <2>4. QED
    BY <2>2, <2>3
<1>3. \A i \in 0 .. Len(messages) - 1 : i + 1 \in 1 .. Len(messages) /\ (i + 1) - 1 = i
  OBVIOUS
<1>4. \A i \in 0 .. Len(messages) - 1 : u[i + 1] = IF i + 1 \in I THEN Append(u[i], messages[i + 1]) ELSE u[i]
  BY <1>2, <1>3
<1>5. QED
  BY <1>2, <1>4 DEF u

(* The numbers of I in their order. *)
Lists(g, m, I) ==
  /\ g \in [1 .. m -> I]
  /\ \A i, j \in 1 .. m : i < j => g[i] < g[j]
  /\ \A i \in I : \E j \in 1 .. m : g[j] = i

PickOf(messages, p, I) ==
  /\ p \in Seq(Message)
  /\ \E g : Lists(g, Len(p), I) /\ \A j \in 1 .. Len(p) : p[j] = messages[g[j]]

LEMMA UpToIndex ==
  ASSUME NEW I, NEW n \in Nat, \A i \in I : i \in Nat /\ 1 <= i /\ i <= n
  PROVE  /\ {i \in I : i <= 0} = {} /\ {i \in I : i <= n} = I
         /\ \A k \in Nat : /\ k + 1 \notin I => {i \in I : i <= k + 1} = {i \in I : i <= k}
                          /\ k + 1 \in I => k + 1 \in {i \in I : i <= k + 1}
                          /\ {i \in I : i <= k} \subseteq {i \in I : i <= k + 1}
<1>1. {i \in I : i <= 0} = {} /\ {i \in I : i <= n} = I
  OBVIOUS
<1>2. ASSUME NEW k \in Nat
      PROVE  /\ k + 1 \notin I => {i \in I : i <= k + 1} = {i \in I : i <= k}
             /\ k + 1 \in I => k + 1 \in {i \in I : i <= k + 1}
             /\ {i \in I : i <= k} \subseteq {i \in I : i <= k + 1}
  <2>1. \A i \in I : (i <= k + 1 <=> i <= k \/ i = k + 1)
    OBVIOUS
  <2>2. QED
    BY <2>1
<1>3. QED
  BY <1>1, <1>2

(* A selection has the selected messages in their order, and their tokens. *)
LEMMA PickedIs ==
  ASSUME NEW messages \in Seq(Message), NEW I, \A i \in I : i \in Nat /\ 1 <= i /\ i <= Len(messages)
  PROVE  PickOf(messages, Picked(messages, I), I) /\ Tokens(Picked(messages, I)) = SizeOf(messages, I)
<1> DEFINE u == PickUpTo(messages, I)
           s == UpTo(Sizes(messages), I)
           G(k) == PickOf(messages, u[k], {i \in I : i <= k}) /\ Tokens(u[k]) = s[k]
           S == {k \in Nat : k \in 0 .. Len(messages) => G(k)}
<1>0. Len(messages) \in Nat /\ \A i \in I : i \in Nat /\ 1 <= i /\ i <= Len(messages)
  OBVIOUS
<1>1. 0 \in S
  <2>1. u[0] = <<>> /\ s[0] = 0
    BY PickStep, UpToStep, SizesAre
  <2>2. {i \in I : i <= 0} = {}
    BY <1>0, UpToIndex
  <2>3. Lists(<<>>, 0, {})
    BY DEF Lists
  <2>4. <<>> \in Seq(Message) /\ Len(<<>>) = 0 /\ \A j \in 1 .. 0 : <<>>[j] = messages[<<>>[j]]
    OBVIOUS
  <2>5. PickOf(messages, <<>>, {})
    BY <2>3, <2>4 DEF PickOf
  <2> HIDE DEF u, s
  <2>6. QED
    BY <2>1, <2>2, <2>5, TokensEmpty
<1>2. \A k \in 0 .. Len(messages) - 1 : k \in S => k + 1 \in S
  <2> SUFFICES ASSUME NEW k \in 0 .. Len(messages) - 1, G(k)
               PROVE  G(k + 1)
    <3> HIDE DEF G
    <3>1. ASSUME NEW k \in 0 .. Len(messages) - 1
          PROVE  (k \in S => G(k)) /\ (G(k + 1) => k + 1 \in S)
      <4>1. k \in 0 .. Len(messages) /\ k + 1 \in Nat
        BY <1>0
      <4>2. QED
        BY <4>1
    <3> HIDE DEF S
    <3>2. QED
      BY <3>1
  <2> HIDE DEF S
  <2>1. /\ u[k + 1] = IF k + 1 \in I THEN Append(u[k], messages[k + 1]) ELSE u[k]
        /\ s[k + 1] = s[k] + IF k + 1 \in I THEN Sizes(messages)[k + 1] ELSE 0
    BY PickStep, UpToStep, SizesAre
  <2>2. s[k] \in Nat /\ k + 1 \in 1 .. Len(messages) /\ messages[k + 1] \in Message
    BY UpToNat, SizesAre
  <2> HIDE DEF u, s
  <2>3. PICK g : Lists(g, Len(u[k]), {i \in I : i <= k}) /\ \A j \in 1 .. Len(u[k]) : u[k][j] = messages[g[j]]
    BY DEF PickOf
  <2>4. u[k] \in Seq(Message) /\ Len(u[k]) \in Nat
    BY DEF PickOf
  <2>5. CASE k + 1 \notin I
    <3>1. {i \in I : i <= k + 1} = {i \in I : i <= k}
      <4>1. k \in Nat
        OBVIOUS
      <4>2. QED
        BY <1>0, <2>5, <4>1, UpToIndex
    <3>2. u[k + 1] = u[k] /\ s[k + 1] = s[k]
      BY <2>1, <2>2, <2>5
    <3>3. PickOf(messages, u[k + 1], {i \in I : i <= k + 1})
      BY ONLY G(k), <3>1, <3>2
    <3>4. QED
      BY <3>2, <3>3
  <2>6. CASE k + 1 \in I
    <3> DEFINE n == Len(u[k])
               h == [j \in 1 .. n + 1 |-> IF j \in 1 .. n THEN g[j] ELSE k + 1]
    <3>1. u[k + 1] \in Seq(Message) /\ Len(u[k + 1]) = n + 1
      BY <2>1, <2>2, <2>4, <2>6
    <3>2. Lists(h, n + 1, {i \in I : i <= k + 1})
      <4>1. n \in Nat /\ g \in [1 .. n -> {i \in I : i <= k}]
        BY <2>3, <2>4 DEF Lists
      <4>2. h \in [1 .. n + 1 -> {i \in I : i <= k + 1}]
        <5>1. k + 1 \in {i \in I : i <= k + 1} /\ {i \in I : i <= k} \subseteq {i \in I : i <= k + 1}
          <6>1. k \in Nat
            OBVIOUS
          <6>2. QED
            BY <1>0, <2>6, <6>1, UpToIndex
        <5>2. QED
          BY <4>1, <5>1
      <4>3. \A i, j \in 1 .. n + 1 : i < j => h[i] < h[j]
        <5> SUFFICES ASSUME NEW i \in 1 .. n + 1, NEW j \in 1 .. n + 1, i < j
                     PROVE  h[i] < h[j]
          OBVIOUS
        <5>1. i \in 1 .. n /\ h[i] = g[i] /\ g[i] \in I /\ g[i] <= k /\ g[i] \in Nat
          <6>1. i \in 1 .. n
            BY <4>1
          <6>2. g[i] \in {x \in I : x <= k}
            BY <4>1, <6>1
          <6>3. QED
            BY <1>0, <6>1, <6>2
        <5>2. CASE j \in 1 .. n
          BY <2>3, <5>1, <5>2 DEF Lists
        <5>3. CASE j = n + 1
          BY <4>1, <5>1, <5>3
        <5>4. QED
          BY <4>1, <5>2, <5>3
      <4>4. ASSUME NEW i \in I, i <= k + 1
            PROVE  \E j \in 1 .. n + 1 : h[j] = i
        <5>1. CASE i = k + 1
          <6>1. n + 1 \in 1 .. n + 1 /\ n + 1 \notin 1 .. n
            BY <4>1
          <6>2. QED
            BY <5>1, <6>1
        <5>2. CASE i # k + 1
          <6>1. i \in {x \in I : x <= k}
            BY <1>0, <4>4, <5>2
          <6>2. PICK j \in 1 .. n : g[j] = i
            BY <6>1, <2>3 DEF Lists
          <6>3. j \in 1 .. n + 1 /\ h[j] = i
            BY <6>2, <4>1
          <6>4. QED
            BY <6>3
        <5>3. QED
          BY <5>1, <5>2
      <4> HIDE DEF h
      <4>5. QED
        BY <4>2, <4>3, <4>4 DEF Lists
    <3>3. \A j \in 1 .. n + 1 : u[k + 1][j] = messages[h[j]]
      BY <2>1, <2>2, <2>3, <2>4, <2>6
    <3>4. PickOf(messages, u[k + 1], {i \in I : i <= k + 1})
      <4> HIDE DEF h
      <4>1. QED
        BY <3>1, <3>2, <3>3 DEF PickOf
    <3>5. Tokens(u[k + 1]) = Tokens(u[k]) + messages[k + 1].size
      BY <2>1, <2>2, <2>4, <2>6, TokensAppend
    <3>6. Sizes(messages)[k + 1] = messages[k + 1].size
      BY <2>2, SizesAre
    <3>7. QED
      BY <2>1, <2>6, <3>4, <3>5, <3>6
  <2>7. QED
    BY <2>5, <2>6
<1>3. G(Len(messages))
  <2> HIDE DEF S, G
  <2>1. 0 .. Len(messages) \subseteq S
    BY <1>0, <1>1, <1>2, Induct
  <2>2. QED
    BY <1>0, <2>1 DEF S
<1>4. {i \in I : i <= Len(messages)} = I
  BY <1>0, UpToIndex
<1>5. /\ Picked(messages, I) = u[Len(messages)]
      /\ SizeOf(messages, I) = s[Len(messages)]
  BY PickedIsLast, SizesAre, TotalIs
<1>6. QED
  <2> HIDE DEF u, s
  <2>1. QED
    BY <1>3, <1>4, <1>5

LEMMA TotalMonotone ==
  ASSUME NEW sizes \in Seq(Nat), NEW I, NEW J, I \subseteq J
  PROVE  Total(sizes, I) <= Total(sizes, J)
<1>1. Total(sizes, I \cup (J \ I)) = Total(sizes, I) + Total(sizes, J \ I)
  <2>1. I \cap (J \ I) = {}
    OBVIOUS
  <2> QED BY <2>1, TotalUnion
<1>2. I \cup (J \ I) = J
  OBVIOUS
<1>3. Total(sizes, I) \in Nat /\ Total(sizes, J \ I) \in Nat
  BY TotalNat
<1>4. Total(sizes, J) = Total(sizes, I) + Total(sizes, J \ I)
  BY <1>1, <1>2
<1> DEFINE all == Total(sizes, J)
           some == Total(sizes, I)
           others == Total(sizes, J \ I)
<1> HIDE DEF all, some, others
<1>5. all = some + others /\ some \in Nat /\ others \in Nat
  BY <1>3, <1>4 DEF all, some, others
<1>6. some <= all
  BY <1>5
<1>7. QED
  BY <1>6 DEF all, some

-----------------------------------------------------------------------------
(* Shortening. *)

(* The same messages, some of them with less text. *)
Thinner(short, messages) ==
  /\ short \in Seq(Message) /\ Len(short) = Len(messages) /\ Weighty(short)
  /\ \A i \in 1 .. Len(messages) :
       /\ short[i].role = messages[i].role /\ short[i].tag = messages[i].tag
       /\ short[i].calls = messages[i].calls /\ short[i].size <= messages[i].size

CutOf(messages, need, excess, i) ==
  LET still == Beyond(excess, SpareOf(messages, {j \in need : j < i}))
  IN  IF i \notin need THEN 0 ELSE IF still < Spare(messages[i]) THEN still ELSE Spare(messages[i])

LEMMA ShortenedIs ==
  ASSUME NEW messages \in Seq(Message), Weighty(messages), NEW need, NEW excess \in Nat
  PROVE  /\ Thinner(Shortened(messages, need, excess), messages)
         /\ \A i \in 1 .. Len(messages) :
              /\ CutOf(messages, need, excess, i) \in Nat
              /\ Shortened(messages, need, excess)[i].size
                   = messages[i].size - CutOf(messages, need, excess, i)
<1> DEFINE short == Shortened(messages, need, excess)
           cut(i) == CutOf(messages, need, excess, i)
<1>1. short = [i \in DOMAIN messages |-> [messages[i] EXCEPT !.size = @ - cut(i)]]
  BY DEF Shortened, CutOf
<1>2. ASSUME NEW i \in 1 .. Len(messages)
      PROVE  /\ messages[i] \in Message /\ messages[i].size \in Nat
             /\ cut(i) \in Nat /\ cut(i) <= messages[i].size
             /\ messages[i].role = "tool" => cut(i) <= messages[i].size - 1
  <2>1. messages[i] \in Message /\ messages[i].size \in Nat
    <3>1. messages[i] \in Message
      OBVIOUS
    <3>2. QED
      BY <3>1 DEF Message
  <2>a. messages[i].role = "tool" => messages[i].size >= 1
    BY DEF Weighty
  <2>2. /\ Spare(messages[i]) \in Nat /\ Spare(messages[i]) <= messages[i].size
        /\ messages[i].role = "tool" => Spare(messages[i]) <= messages[i].size - 1
    BY <2>1, <2>a DEF Spare
  <2>3. SpareOf(messages, {j \in need : j < i}) \in Nat
    BY SparesAre, TotalNat
  <2>4. Beyond(excess, SpareOf(messages, {j \in need : j < i})) \in Nat
    BY <2>3 DEF Beyond
  <2>5. QED
    BY <2>1, <2>2, <2>4 DEF CutOf
<1> HIDE DEF cut
<1>3. ASSUME NEW i \in 1 .. Len(messages)
      PROVE  /\ short[i] \in Message /\ short[i].size = messages[i].size - cut(i)
             /\ short[i].role = "tool" => short[i].size >= 1
             /\ short[i].role = messages[i].role /\ short[i].tag = messages[i].tag
             /\ short[i].calls = messages[i].calls /\ short[i].size <= messages[i].size
  <2>1. /\ messages[i] \in Message /\ messages[i].size \in Nat
        /\ cut(i) \in Nat /\ cut(i) <= messages[i].size
        /\ messages[i].role = "tool" => cut(i) <= messages[i].size - 1
    BY <1>2
  <2>2. short[i] = [messages[i] EXCEPT !.size = @ - cut(i)]
    BY <1>1
  <2>3. /\ messages[i].size - cut(i) \in Nat
        /\ messages[i].role = "tool" => messages[i].size - cut(i) >= 1
    BY <2>1
  <2> DEFINE m == messages[i]
             c == cut(i)
             s == short[i]
  <2> HIDE DEF m, c, s
  <2>4. m \in Message /\ c \in Nat /\ m.size - c \in Nat /\ s = [m EXCEPT !.size = @ - c]
    BY <2>1, <2>2, <2>3 DEF m, c, s
  <2>5. /\ s \in Message /\ s.size = m.size - c
        /\ s.role = m.role /\ s.tag = m.tag /\ s.calls = m.calls
    BY <2>4 DEF Message
  <2> USE DEF m, c, s
  <2>6. QED
    BY <2>1, <2>3, <2>5
<1>4. short \in Seq(Message) /\ Len(short) = Len(messages)
  <2>1. DOMAIN messages = 1 .. Len(messages) /\ Len(messages) \in Nat
    OBVIOUS
  <2>2. short \in [1 .. Len(messages) -> Message]
    BY <1>1, <1>3, <2>1
  <2> HIDE DEF short
  <2>3. QED
    BY <2>1, <2>2
<1>5. Weighty(short)
  <2> HIDE DEF short
  <2>1. QED
    BY <1>3, <1>4 DEF Weighty
<1>6. Thinner(short, messages)
  <2> HIDE DEF short
  <2>1. QED
    BY <1>3, <1>4, <1>5 DEF Thinner
<1>7. QED
  BY <1>2, <1>3, <1>6 DEF cut

(* What is cut from the required replies is the excess. *)
LEMMA ShortenedFits ==
  ASSUME NEW messages \in Seq(Message), Weighty(messages), NEW need,
         \A i \in need : i \in Nat /\ 1 <= i /\ i <= Len(messages),
         NEW excess \in Nat, excess <= SpareOf(messages, need)
  PROVE  SizeOf(Shortened(messages, need, excess), need) + excess = SizeOf(messages, need)
<1> DEFINE short == Shortened(messages, need, excess)
           n == Len(messages)
           p == UpTo(Spares(messages), need)
           a == UpTo(Sizes(messages), need)
           b == UpTo(Sizes(short), need)
           Gone(k) == IF excess < p[k] THEN excess ELSE p[k]
           S == {k \in Nat : k \in 0 .. n => b[k] + Gone(k) = a[k]}
<1>1. short \in Seq(Message) /\ Len(short) = n /\ n \in Nat
  BY ShortenedIs DEF Thinner
<1>2. /\ Sizes(messages) \in Seq(Nat) /\ Len(Sizes(messages)) = n
      /\ Sizes(short) \in Seq(Nat) /\ Len(Sizes(short)) = n
      /\ Spares(messages) \in Seq(Nat) /\ Len(Spares(messages)) = n
  <2> HIDE DEF short
  <2>1. QED
    BY <1>1, SizesAre, SparesAre
<1> HIDE DEF p, a, b
<1>3. \A k \in 0 .. n : p[k] \in Nat /\ a[k] \in Nat /\ b[k] \in Nat
  <2> HIDE DEF short, n
  <2>1. QED
    BY <1>2, UpToNat DEF p, a, b
<1>4. p[0] = 0 /\ a[0] = 0 /\ b[0] = 0
  <2> HIDE DEF short, n
  <2>1. QED
    BY <1>2, UpToStep DEF p, a, b
<1>5. ASSUME NEW k \in 0 .. n - 1
      PROVE  /\ p[k + 1] = p[k] + IF k + 1 \in need THEN Spare(messages[k + 1]) ELSE 0
             /\ a[k + 1] = a[k] + IF k + 1 \in need THEN messages[k + 1].size ELSE 0
             /\ b[k + 1] = b[k] + IF k + 1 \in need THEN short[k + 1].size ELSE 0
  <2>1. k + 1 \in 1 .. n
    BY <1>1
  <2>2. Spares(messages)[k + 1] = Spare(messages[k + 1])
    BY <2>1, SparesAre
  <2>3. Sizes(messages)[k + 1] = messages[k + 1].size
    BY <2>1, SizesAre
  <2> HIDE DEF short, n
  <2>4. Sizes(short)[k + 1] = short[k + 1].size
    BY <1>1, <2>1, SizesAre
  <2>a. ASSUME NEW sizes \in Seq(Nat), Len(sizes) = n
        PROVE  UpTo(sizes, need)[k + 1] = UpTo(sizes, need)[k] + IF k + 1 \in need THEN sizes[k + 1] ELSE 0
    <3>1. k \in 0 .. Len(sizes) - 1
      BY <2>a
    <3>2. QED
      BY <3>1, UpToStep
  <2>5. p[k + 1] = p[k] + IF k + 1 \in need THEN Spare(messages[k + 1]) ELSE 0
    BY <1>2, <2>2, <2>a DEF p
  <2>6. a[k + 1] = a[k] + IF k + 1 \in need THEN messages[k + 1].size ELSE 0
    BY <1>2, <2>3, <2>a DEF a
  <2>7. b[k + 1] = b[k] + IF k + 1 \in need THEN short[k + 1].size ELSE 0
    BY <1>2, <2>4, <2>a DEF b
  <2>8. QED
    BY <2>5, <2>6, <2>7
<1>6. ASSUME NEW k \in 0 .. n - 1, k + 1 \in need
      PROVE  /\ short[k + 1].size = messages[k + 1].size -
                  (IF Beyond(excess, p[k]) < Spare(messages[k + 1]) THEN Beyond(excess, p[k])
                   ELSE Spare(messages[k + 1]))
             /\ messages[k + 1].size \in Nat /\ Spare(messages[k + 1]) \in Nat
             /\ Spare(messages[k + 1]) <= messages[k + 1].size
  <2>1. k + 1 \in 1 .. n
    BY <1>1
  <2>2. {j \in need : j < k + 1} = {j \in need : j <= k}
    <3>1. \A j \in need : j < k + 1 <=> j <= k
      OBVIOUS
    <3>2. QED
      BY <3>1
  <2>3. SpareOf(messages, {j \in need : j < k + 1}) = p[k]
    <3>1. k \in 0 .. Len(Spares(messages))
      BY <1>1, <1>2
    <3>2. Total(Spares(messages), {j \in need : j <= k}) = p[k]
      <4> HIDE DEF n, short
      <4>1. QED
        BY <1>2, <3>1, TotalBelow DEF p
    <3>3. QED
      BY <2>2, <3>2, SparesAre
  <2>4. short[k + 1].size = messages[k + 1].size - CutOf(messages, need, excess, k + 1)
    BY <2>1, ShortenedIs
  <2>5. messages[k + 1].size \in Nat
    <3>1. messages[k + 1] \in Message
      BY <2>1
    <3>2. QED
      BY <3>1 DEF Message
  <2>6. Spare(messages[k + 1]) \in Nat /\ Spare(messages[k + 1]) <= messages[k + 1].size
    BY <2>1, SparesAre
  <2> HIDE DEF short
  <2>7. QED
    BY <1>6, <2>3, <2>4, <2>5, <2>6 DEF CutOf
<1> HIDE DEF short
<1>7. 0 \in S
  BY <1>4
<1>8. \A k \in 0 .. n - 1 : k \in S => k + 1 \in S
  <2> SUFFICES ASSUME NEW k \in 0 .. n - 1, b[k] + Gone(k) = a[k]
               PROVE  b[k + 1] + Gone(k + 1) = a[k + 1]
    <3>1. ASSUME NEW k \in 0 .. n - 1
          PROVE  k \in 0 .. n /\ k + 1 \in Nat
      BY <1>1
    <3> HIDE DEF Gone, n
    <3>2. QED
      BY <3>1
  <2>1. p[k] \in Nat /\ a[k] \in Nat /\ b[k] \in Nat
    BY <1>1, <1>3
  <2>2. CASE k + 1 \in need
    <3> DEFINE x == messages[k + 1].size
               y == Spare(messages[k + 1])
    <3>1. p[k + 1] = p[k] + y /\ a[k + 1] = a[k] + x /\ b[k + 1] = b[k] + short[k + 1].size
      BY <1>5, <2>2
    <3>2. /\ short[k + 1].size = x - (IF Beyond(excess, p[k]) < y THEN Beyond(excess, p[k]) ELSE y)
          /\ x \in Nat /\ y \in Nat /\ y <= x
      BY <1>6, <2>2
    <3> HIDE DEF x, y
    <3>3. CASE excess <= p[k]
      <4>1. Gone(k) = excess /\ Gone(k + 1) = excess
        BY <2>1, <3>1, <3>2, <3>3
      <4>2. Beyond(excess, p[k]) = 0
        BY <2>1, <3>3 DEF Beyond
      <4>3. short[k + 1].size = x
        BY <3>2, <4>2
      <4>4. QED
        BY <2>1, <3>1, <3>2, <4>1, <4>3
    <3>4. CASE p[k] < excess /\ excess - p[k] < y
      <4>1. Gone(k) = p[k] /\ Gone(k + 1) = excess
        BY <2>1, <3>1, <3>2, <3>4
      <4>2. Beyond(excess, p[k]) = excess - p[k]
        BY <2>1, <3>4 DEF Beyond
      <4>3. short[k + 1].size = x - (excess - p[k])
        BY <3>2, <3>4, <4>2
      <4>4. b[k] + p[k] = a[k]
        BY <4>1
      <4> HIDE DEF Gone
      <4>5. QED
        BY <2>1, <3>1, <3>2, <4>1, <4>3, <4>4
    <3>5. CASE p[k] < excess /\ excess - p[k] >= y
      <4>1. Gone(k) = p[k] /\ Gone(k + 1) = p[k] + y
        BY <2>1, <3>1, <3>2, <3>5
      <4>2. Beyond(excess, p[k]) = excess - p[k]
        BY <2>1, <3>5 DEF Beyond
      <4>3. short[k + 1].size = x - y
        BY <2>1, <3>2, <3>5, <4>2
      <4>4. b[k] + p[k] = a[k]
        BY <4>1
      <4> HIDE DEF Gone
      <4>5. QED
        BY <2>1, <3>1, <3>2, <4>1, <4>3, <4>4
    <3>6. excess <= p[k] \/ (p[k] < excess /\ excess - p[k] < y) \/ (p[k] < excess /\ excess - p[k] >= y)
      BY <2>1, <3>2
    <3>7. QED
      BY <3>3, <3>4, <3>5, <3>6
  <2>3. CASE k + 1 \notin need
    <3>1. p[k + 1] = p[k] + 0 /\ a[k + 1] = a[k] + 0 /\ b[k + 1] = b[k] + 0
      BY <1>5, <2>3
    <3>2. p[k + 1] = p[k] /\ a[k + 1] = a[k] /\ b[k + 1] = b[k]
      BY <2>1, <3>1
    <3> HIDE DEF n
    <3>3. QED
      BY <3>2
  <2>4. QED
    BY <2>2, <2>3
<1>9. n \in S
  <2> HIDE DEF S
  <2>1. 0 .. n \subseteq S
    BY <1>1, <1>7, <1>8, Induct
  <2>2. QED
    BY <1>1, <2>1
<1>10. b[n] + Gone(n) = a[n] /\ n \in 0 .. n
  BY <1>1, <1>9
<1>11. /\ SizeOf(short, need) = b[n] /\ SizeOf(messages, need) = a[n]
       /\ SpareOf(messages, need) = p[n]
  <2>1. SizeOf(messages, need) = a[n]
    BY <1>2, SizesAre, TotalIs DEF a
  <2>2. SpareOf(messages, need) = p[n]
    BY <1>2, SparesAre, TotalIs DEF p
  <2>3. SizeOf(short, need) = b[n]
    <3> HIDE DEF n
    <3>1. QED
      BY <1>1, <1>2, SizesAre, TotalIs DEF b
  <2>4. QED
    BY <2>1, <2>2, <2>3
<1>12. Gone(n) = excess
  BY <1>3, <1>10, <1>11
<1>13. QED
  BY <1>10, <1>11, <1>12 DEF short

-----------------------------------------------------------------------------
(* Groups. *)

(* c is the last message up to i that is not a tool's reply. *)
LastOther(messages, c, i) ==
  /\ c \in 1 .. i /\ messages[c].role # "tool"
  /\ \A k \in 1 .. i : k > c => messages[k].role = "tool"

LEMMA StartIs ==
  ASSUME NEW messages, NEW i \in Nat, NEW c, LastOther(messages, c, i)
  PROVE  Start(messages, i) = IF messages[c].role = "call" THEN c ELSE i
<1> DEFINE from == {k \in 1 .. i : messages[k].role # "tool"}
           call == CHOOSE k \in from : \A d \in from : d <= k
<1>1. c \in from /\ c \in Int /\ \A d \in from : d \in Int
  BY DEF LastOther
<1>2. \A d \in from : d <= c
  <2> SUFFICES ASSUME NEW d \in from, ~(d <= c) PROVE FALSE
    OBVIOUS
  <2>1. d \in 1 .. i /\ d > c /\ messages[d].role # "tool"
    BY <1>1
  <2>2. QED
    BY <2>1 DEF LastOther
<1> HIDE DEF from
<1>3. call \in from /\ \A d \in from : d <= call
  BY <1>1, <1>2
<1>4. call = c
  <2>1. call <= c /\ c <= call /\ call \in Int
    BY <1>1, <1>2, <1>3
  <2> HIDE DEF call
  <2>2. QED
    BY <1>1, <2>1
<1>5. from # {}
  BY <1>1
<1>6. Start(messages, i) = IF from # {} /\ messages[call].role = "call" THEN call ELSE i
  BY DEF Start, from
<1>7. QED
  BY <1>4, <1>5, <1>6

LEMMA LastOtherIs ==
  ASSUME NEW messages, NEW i \in Nat, NEW b \in 1 .. i, messages[b].role # "tool"
  PROVE  \E c \in b .. i : LastOther(messages, c, i)
<1> DEFINE from == {k \in 0 .. i : k >= 1 /\ messages[k].role # "tool"}
<1>1. b \in from /\ from \in SUBSET (0 .. i) /\ from # {}
  OBVIOUS
<1>2. PICK c \in from : \A d \in from : d <= c
  <2> HIDE DEF from
  <2>1. QED
    BY <1>1, Greatest
<1>3. c \in b .. i /\ c \in 1 .. i /\ messages[c].role # "tool"
  BY <1>1, <1>2
<1>4. ASSUME NEW k \in 1 .. i, k > c
      PROVE  messages[k].role = "tool"
  BY <1>2, <1>3, <1>4
<1>5. QED
  BY <1>3, <1>4 DEF LastOther

(* The messages of a turn before a round: what heads them, the conversation up to the
   request at r, and after it requests of tools and their replies. *)
Shaped(messages, r) ==
  /\ messages \in Seq(Message) /\ Weighty(messages)
  /\ r \in 2 .. Len(messages)
  /\ messages[1].role = "system" /\ messages[r].role = "user"
  /\ \A i \in 2 .. r : messages[i].role \in {"user", "assistant"} /\ messages[i].tag + (r - i) = messages[r].tag
  /\ \A i \in r + 1 .. Len(messages) : messages[i].role \in {"call", "tool"}
  /\ r < Len(messages) => messages[r + 1].role = "call"

(* Every request of tools has its replies behind it, the last one with some left to come. *)
Replied(messages, left) ==
  \A c \in DOMAIN messages : messages[c].role = "call" =>
    /\ c + messages[c].calls = Len(messages) + left \/ c + messages[c].calls < Len(messages)
    /\ \A i \in DOMAIN messages : c < i /\ i <= c + messages[c].calls => messages[i].role = "tool"
    /\ c + messages[c].calls < Len(messages) => messages[c + messages[c].calls + 1].role # "tool"

LEMMA ShapedIs ==
  ASSUME NEW messages, NEW r, Shaped(messages, r)
  PROVE  /\ messages \in Seq(Message) /\ Len(messages) \in Nat /\ DOMAIN messages = 1 .. Len(messages)
         /\ r \in Nat /\ 2 <= r /\ r <= Len(messages)
         /\ \A i \in 1 .. Len(messages) :
              /\ messages[i] \in Message /\ messages[i].tag \in Nat /\ messages[i].calls \in Nat
              /\ messages[i].role = "system" <=> i = 1
              /\ messages[i].role \in {"user", "assistant"} <=> 2 <= i /\ i <= r
              /\ messages[i].role \in {"call", "tool"} <=> i > r
              /\ messages[i].role = "tool" => i > r + 1
              /\ messages[i].role = "user" => i <= r
<1>1. messages \in Seq(Message) /\ Len(messages) \in Nat /\ DOMAIN messages = 1 .. Len(messages)
  BY DEF Shaped
<1>2. r \in Nat /\ 2 <= r /\ r <= Len(messages)
  BY <1>1 DEF Shaped
<1>3. ASSUME NEW i \in 1 .. Len(messages)
      PROVE  messages[i] \in Message /\ messages[i].tag \in Nat /\ messages[i].calls \in Nat
  <2>1. messages[i] \in Message
    BY <1>1
  <2>2. QED
    BY <2>1 DEF Message
<1>4. ASSUME NEW i \in 1 .. Len(messages)
      PROVE  /\ i = 1 => messages[i].role = "system"
             /\ 2 <= i /\ i <= r => messages[i].role \in {"user", "assistant"}
             /\ i > r => messages[i].role \in {"call", "tool"}
             /\ i = r + 1 => messages[i].role = "call"
  <2>1. CASE i = 1
    BY <1>2, <2>1 DEF Shaped
  <2>2. CASE 2 <= i /\ i <= r
    <3>1. i \in 2 .. r
      BY <1>2, <2>2
    <3>2. QED
      BY <1>2, <2>2, <3>1 DEF Shaped
  <2>3. CASE i > r
    <3>1. i \in r + 1 .. Len(messages) /\ r < Len(messages)
      BY <1>2, <2>3
    <3>2. QED
      BY <1>2, <2>3, <3>1 DEF Shaped
  <2>4. QED
    BY <1>2, <2>1, <2>2, <2>3
<1>5. ASSUME NEW i \in 1 .. Len(messages)
      PROVE  /\ messages[i].role = "system" <=> i = 1
             /\ messages[i].role \in {"user", "assistant"} <=> 2 <= i /\ i <= r
             /\ messages[i].role \in {"call", "tool"} <=> i > r
             /\ messages[i].role = "tool" => i > r + 1
             /\ messages[i].role = "user" => i <= r
  <2>1. i \in Int /\ (i = 1 \/ (2 <= i /\ i <= r) \/ i = r + 1 \/ i > r + 1)
    BY <1>2
  <2>2. QED
    BY <1>2, <1>4, <2>1
<1>6. QED
  BY <1>1, <1>2, <1>3, <1>5

(* Every message but the system's has a start: a request of tools for its replies,
   itself for the others. *)
LEMMA StartsAre ==
  ASSUME NEW messages, NEW r, Shaped(messages, r), NEW i \in 2 .. Len(messages)
  PROVE  /\ Start(messages, i) \in 2 .. i
         /\ messages[Start(messages, i)].role # "tool"
         /\ \A k \in 1 .. i : k > Start(messages, i) => messages[k].role = "tool"
         /\ messages[i].role # "tool" => Start(messages, i) = i
         /\ messages[i].role = "tool" => Start(messages, i) > r /\ messages[Start(messages, i)].role = "call"
<1>1. i \in Nat /\ i \in 1 .. Len(messages) /\ i >= 2
  BY ShapedIs
<1>2. CASE messages[i].role # "tool"
  <2>1. LastOther(messages, i, i)
    BY <1>1, <1>2 DEF LastOther
  <2>2. Start(messages, i) = i
    BY <1>1, <2>1, StartIs
  <2>3. QED
    BY <1>1, <1>2, <2>2
<1>3. CASE messages[i].role = "tool"
  <2>1. /\ i > r + 1 /\ r + 1 \in 1 .. i /\ r + 1 \in 1 .. Len(messages) /\ r \in Nat
        /\ messages[r + 1].role # "tool"
    <3>1. i > r + 1 /\ r \in Nat /\ 2 <= r
      BY <1>1, <1>3, ShapedIs
    <3>2. r + 1 \in 1 .. Len(messages) /\ ~(r + 1 > r + 1)
      BY <1>1, <3>1
    <3>3. messages[r + 1].role # "tool"
      BY <3>2, ShapedIs
    <3>4. QED
      BY <1>1, <3>1, <3>2, <3>3
  <2>2. PICK c \in r + 1 .. i : LastOther(messages, c, i)
    BY <1>1, <2>1, LastOtherIs
  <2>3. c \in 1 .. Len(messages) /\ c > r /\ messages[c].role # "tool"
    BY <1>1, <2>1, <2>2 DEF LastOther
  <2>4. messages[c].role = "call"
    BY <2>3, ShapedIs
  <2>5. Start(messages, i) = c
    BY <1>1, <2>2, <2>4, StartIs
  <2>6. c \in 2 .. i
    BY <1>1, <2>1, <2>2, ShapedIs
  <2>7. QED
    BY <1>3, <2>2, <2>3, <2>4, <2>5, <2>6 DEF LastOther
<1>4. QED
  BY <1>2, <1>3

LEMMA HeadingIs ==
  ASSUME NEW messages, NEW r, Shaped(messages, r)
  PROVE  /\ Heading(messages) = {1}
         /\ DOMAIN messages \ Heading(messages) = 2 .. Len(messages)
<1>1. DOMAIN messages = 1 .. Len(messages) /\ Len(messages) \in Nat /\ 2 <= Len(messages)
  BY ShapedIs
<1>2. messages[1].role = "system" /\ messages[2].role # "system"
  <2>1. 1 \in 1 .. Len(messages) /\ 2 \in 1 .. Len(messages)
    BY <1>1
  <2>2. QED
    BY <2>1, ShapedIs
<1>3. ASSUME NEW i \in 1 .. Len(messages)
      PROVE  (\A j \in 1 .. i : messages[j].role = "system") <=> i = 1
  <2>1. i # 1 => 2 \in 1 .. i
    BY <1>1
  <2>2. QED
    BY <1>2, <2>1
<1>4. Heading(messages) = {1}
  <2>1. Heading(messages) = {i \in 1 .. Len(messages) : \A j \in 1 .. i : messages[j].role = "system"}
    BY <1>1 DEF Heading
  <2>2. 1 \in 1 .. Len(messages)
    BY <1>1
  <2>3. QED
    BY <1>3, <2>1, <2>2
<1>5. QED
  BY <1>1, <1>4

-----------------------------------------------------------------------------
(* Selections from a turn's messages. *)

Covers(I, a, d) == \A x \in a .. a + d : x \in I

LEMMA GapFree ==
  ASSUME NEW m \in Nat, NEW I, \A x \in I : x \in Nat, NEW g, Lists(g, m, I),
         NEW j \in 1 .. m, NEW d \in Nat, Covers(I, g[j], d)
  PROVE  \A k \in 0 .. d : j + k \in 1 .. m /\ g[j + k] = g[j] + k
<1> DEFINE S == {k \in Nat : k \in 0 .. d => j + k \in 1 .. m /\ g[j + k] = g[j] + k}
<1>0. \A x \in 1 .. m : g[x] \in I /\ g[x] \in Nat
  BY DEF Lists
<1>1. 0 \in S
  BY <1>0
<1>2. \A k \in 0 .. d - 1 : k \in S => k + 1 \in S
  <2> SUFFICES ASSUME NEW k \in 0 .. d - 1, j + k \in 1 .. m, g[j + k] = g[j] + k
               PROVE  j + (k + 1) \in 1 .. m /\ g[j + (k + 1)] = g[j] + (k + 1)
    OBVIOUS
  <2>1. g[j] + (k + 1) \in I
    BY <1>0 DEF Covers
  <2>2. PICK l \in 1 .. m : g[l] = g[j] + (k + 1)
    BY <2>1 DEF Lists
  <2>3. l > j + k
    <3> SUFFICES ASSUME l < j + k \/ l = j + k PROVE FALSE
      OBVIOUS
    <3>1. g[l] <= g[j + k]
      BY <1>0 DEF Lists
    <3>2. QED
      BY <1>0, <2>2, <3>1
  <2>4. j + (k + 1) \in 1 .. m /\ j + (k + 1) <= l
    BY <2>3
  <2>5. g[j + k] < g[j + (k + 1)]
    BY <2>4 DEF Lists
  <2>6. l = j + (k + 1)
    <3> SUFFICES ASSUME j + (k + 1) < l PROVE FALSE
      BY <2>4
    <3>1. g[j + (k + 1)] < g[l]
      BY <2>4 DEF Lists
    <3>2. QED
      BY <1>0, <2>2, <2>4, <2>5, <3>1
  <2>7. QED
    BY <2>2, <2>4, <2>6
<1>3. 0 .. d \subseteq S
  <2> HIDE DEF S
  <2>1. QED
    BY <1>1, <1>2, Induct
<1>4. QED
  BY <1>3

(* A selection takes a request of tools with all its replies or none of it. *)
Together(messages, I) ==
  \A c, i \in 2 .. Len(messages) :
    /\ c < i /\ messages[c].role # "tool"
    /\ \A k \in 1 .. i : k > c => messages[k].role = "tool"
    => (i \in I <=> c \in I)

(* What is sent: the system's message, the request, the conversation before it from
   some message on, and whole groups behind it. *)
Keeps(messages, r, I) ==
  /\ I \subseteq 1 .. Len(messages) /\ 1 \in I /\ r \in I
  /\ \A i, j \in 2 .. r : i \in I /\ i < j => j \in I
  /\ Together(messages, I)

LEMMA SelectionShaped ==
  ASSUME NEW messages, NEW r, Shaped(messages, r), NEW I, Keeps(messages, r, I),
         NEW p, p \in Seq(Message), NEW g, Lists(g, Len(p), I),
         \A j \in 1 .. Len(p) : p[j] = messages[g[j]]
  PROVE  \E q \in 1 .. Len(p) : g[q] = r /\ Shaped(p, q) /\ p[q].tag = messages[r].tag
<1>0. PICK n \in Nat, m \in Nat : n = Len(messages) /\ m = Len(p)
  BY ShapedIs
<1>1. /\ n \in Nat /\ m \in Nat /\ DOMAIN p = 1 .. m /\ I \in SUBSET Nat /\ I \subseteq 1 .. n
      /\ r \in Nat /\ 2 <= r /\ r <= n /\ messages \in Seq(Message) /\ DOMAIN messages = 1 .. n
  BY <1>0, ShapedIs DEF Keeps
<1>2. \A j \in 1 .. m : g[j] \in I /\ g[j] \in 1 .. n /\ g[j] \in Nat /\ p[j] = messages[g[j]]
  BY <1>0, <1>1 DEF Lists
<1>3. \A i, j \in 1 .. m : i < j => g[i] < g[j]
  BY <1>0 DEF Lists
<1>4. \A i \in I : \E j \in 1 .. m : g[j] = i
  BY <1>0 DEF Lists
<1>5. PICK q \in 1 .. m : g[q] = r
  BY <1>4 DEF Keeps
<1>6. PICK one \in 1 .. m : g[one] = 1
  BY <1>4 DEF Keeps
<1>7. one = 1 /\ 1 \in 1 .. m
  <2> SUFFICES ASSUME one # 1 PROVE FALSE
    BY <1>6
  <2>1. 1 \in 1 .. m /\ 1 < one
    BY <1>1
  <2>2. g[1] < g[one] /\ g[1] \in 1 .. n
    BY <1>2, <1>3, <2>1
  <2>3. QED
    BY <1>1, <1>6, <2>2
<1>8. q \in 2 .. m
  <2>1. q # 1
    BY <1>1, <1>5, <1>6, <1>7
  <2>2. QED
    BY <1>1, <2>1
<1>9. \A j \in 1 .. m : (j < q => g[j] < r) /\ (j > q => g[j] > r) /\ (j > 1 => g[j] > 1)
  <2> TAKE j \in 1 .. m
  <2>1. (j < q => g[j] < g[q]) /\ (q < j => g[q] < g[j]) /\ (1 < j => g[1] < g[j])
    BY <1>3, <1>7
  <2>2. QED
    BY <1>1, <1>2, <1>5, <1>6, <1>7, <2>1
<1>10. Weighty(p)
  BY <1>1, <1>2 DEF Weighty, Shaped
<1>11. p[1].role = "system" /\ p[q].role = "user"
  BY <1>2, <1>5, <1>6, <1>7 DEF Shaped
<1>12. ASSUME NEW j \in 2 .. q
       PROVE  p[j].role \in {"user", "assistant"} /\ p[j].tag + (q - j) = p[q].tag
  <2>1. j \in 1 .. m /\ j > 1 /\ j <= q
    BY <1>1
  <2>2. g[j] \in 2 .. r
    <3>1. g[j] > 1 /\ g[j] <= r /\ g[j] \in Nat
      BY <1>1, <1>2, <1>5, <1>9, <2>1
    <3>2. QED
      BY <1>1, <3>1
  <2>3. \A x \in g[j] .. g[j] + (r - g[j]) : x \in I
    <3> SUFFICES ASSUME NEW x \in g[j] .. r PROVE x \in I
      BY <1>1, <2>2
    <3>1. x = g[j] \/ (x \in 2 .. r /\ g[j] < x)
      BY <1>1, <2>2
    <3>2. QED
      BY <1>2, <2>1, <2>2, <3>1 DEF Keeps
  <2>4. r - g[j] \in Nat
    BY <1>1, <2>2
  <2>5. \A k \in 0 .. r - g[j] : j + k \in 1 .. m /\ g[j + k] = g[j] + k
    <3>1. Lists(g, m, I)
      BY <1>0
    <3>2. ASSUME NEW d \in Nat, Covers(I, g[j], d)
          PROVE  \A k \in 0 .. d : j + k \in 1 .. m /\ g[j + k] = g[j] + k
      <4>1. (\A x \in I : x \in Nat) /\ j \in 1 .. m
        BY <1>1, <2>1
      <4>2. QED
        BY ONLY <3>1, <3>2, <4>1, m \in Nat, GapFree
    <3>3. Covers(I, g[j], r - g[j])
      BY <2>3 DEF Covers
    <3>4. QED
      BY <2>4, <3>2, <3>3
  <2>6. j + (r - g[j]) \in 1 .. m /\ g[j + (r - g[j])] = r
    <3> DEFINE d == r - g[j]
    <3>1. d \in 0 .. d /\ g[j] + d = r
      BY <1>1, <2>2, <2>4
    <3> HIDE DEF d
    <3>2. j + d \in 1 .. m /\ g[j + d] = g[j] + d
      BY <2>5, <3>1 DEF d
    <3>3. QED
      BY <3>1, <3>2 DEF d
  <2>7. j + (r - g[j]) = q
    <3> DEFINE e == j + (r - g[j])
    <3>1. e \in 1 .. m /\ g[e] = r
      BY <2>6
    <3> HIDE DEF e
    <3>2. ~(e < q) /\ ~(e > q)
      BY <1>1, <1>9, <3>1
    <3>3. e = q
      BY <1>1, <3>1, <3>2
    <3>4. QED
      BY <3>3 DEF e
  <2>8. /\ messages[g[j]].role \in {"user", "assistant"}
        /\ messages[g[j]].tag + (r - g[j]) = messages[r].tag
    BY <2>2 DEF Shaped
  <2>9. q - j = r - g[j]
    BY <1>1, <2>2, <2>7
  <2>10. p[j] = messages[g[j]] /\ p[q] = messages[r]
    BY <1>2, <1>5, <2>1
  <2>11. QED
    BY <2>8, <2>9, <2>10
<1>13. ASSUME NEW j \in q + 1 .. m
       PROVE  p[j].role \in {"call", "tool"}
  <2>1. j \in 1 .. m /\ j > q
    BY <1>1
  <2>2. g[j] > r /\ g[j] \in 1 .. n
    BY <1>2, <1>9, <2>1
  <2>3. messages[g[j]].role \in {"call", "tool"}
    BY <2>2, <1>0, ShapedIs
  <2>4. QED
    BY <1>2, <2>1, <2>3
<1>14. ASSUME q < m
       PROVE  p[q + 1].role = "call"
  <2>1. q + 1 \in 1 .. m /\ q + 1 > q /\ q + 1 \in q + 1 .. m
    BY <1>1, <1>14
  <2> DEFINE x == g[q + 1]
  <2>2. x > r /\ x \in 2 .. n /\ x \in I /\ p[q + 1] = messages[x]
    <3>1. x > r /\ x \in 1 .. n
      BY <1>2, <1>9, <2>1
    <3>2. QED
      BY <1>1, <1>2, <2>1, <3>1
  <2> HIDE DEF x
  <2>3. SUFFICES ASSUME messages[x].role = "tool" PROVE FALSE
    BY <1>13, <2>1, <2>2
  <2> DEFINE c == Start(messages, x)
  <2>4. /\ c \in 2 .. x /\ c > r /\ messages[c].role # "tool"
        /\ \A k \in 1 .. x : k > c => messages[k].role = "tool"
    BY <2>2, <2>3, <1>0, StartsAre
  <2> HIDE DEF c
  <2>5. c \in 2 .. n /\ c < x
    <3>1. c # x
      BY <2>3, <2>4
    <3>2. QED
      BY <1>1, <2>2, <2>4, <3>1
  <2>6. c \in I
    <3>1. Together(messages, I)
      BY DEF Keeps
    <3>2. QED
      BY <2>2, <2>4, <2>5, <3>1, <1>0 DEF Together
  <2>7. PICK l \in 1 .. m : g[l] = c
    BY <1>4, <2>6
  <2>8. ~(l < q) /\ l # q /\ ~(q + 1 < l) /\ l # q + 1
    <3>1. q + 1 < l => x < c
      BY <1>3, <2>1, <2>7 DEF x
    <3>2. l # q + 1
      BY <1>1, <2>2, <2>5, <2>7 DEF x
    <3>3. l # q /\ ~(l < q)
      BY <1>1, <1>5, <1>9, <2>4, <2>5, <2>7
    <3>4. QED
      BY <1>1, <2>2, <2>5, <3>1, <3>2, <3>3
  <2>9. QED
    BY <1>1, <2>8
<1>15. Shaped(p, q)
  BY <1>8, <1>10, <1>11, <1>12, <1>13, <1>14, <1>0 DEF Shaped
<1>16. p[q].tag = messages[r].tag
  BY <1>2, <1>5
<1>17. QED
  BY <1>5, <1>15, <1>16, <1>0

LEMMA SelectionReplied ==
  ASSUME NEW messages, NEW r, Shaped(messages, r), Replied(messages, 0), NEW I, Keeps(messages, r, I),
         NEW p, p \in Seq(Message), NEW g, Lists(g, Len(p), I),
         \A j \in 1 .. Len(p) : p[j] = messages[g[j]]
  PROVE  Replied(p, 0)
<1>0. PICK n \in Nat, m \in Nat : n = Len(messages) /\ m = Len(p)
  BY ShapedIs
<1>1. /\ DOMAIN p = 1 .. m /\ I \subseteq 1 .. n /\ \A x \in I : x \in Nat
      /\ r \in Nat /\ 2 <= r /\ r <= n /\ DOMAIN messages = 1 .. n
  BY <1>0, ShapedIs DEF Keeps
<1>2. \A j \in 1 .. m : g[j] \in I /\ g[j] \in 1 .. n /\ g[j] \in Nat /\ p[j] = messages[g[j]]
  BY <1>0, <1>1 DEF Lists
<1>3. \A i, j \in 1 .. m : i < j => g[i] < g[j]
  BY <1>0 DEF Lists
<1>4. \A i \in I : \E j \in 1 .. m : g[j] = i
  BY <1>0 DEF Lists
<1>5. Lists(g, m, I)
  BY <1>0
<1>6. ASSUME NEW j \in 1 .. m, p[j].role = "call"
      PROVE  /\ j + p[j].calls = m + 0 \/ j + p[j].calls < m
             /\ \A i \in 1 .. m : j < i /\ i <= j + p[j].calls => p[i].role = "tool"
             /\ j + p[j].calls < m => p[j + p[j].calls + 1].role # "tool"
  <2>1. PICK c \in 1 .. n : c = g[j]
    BY <1>2
  <2>2. c \in I /\ messages[c].role = "call" /\ messages[c].role # "tool" /\ messages[c].calls = p[j].calls
    BY <1>2, <1>6, <2>1
  <2>3. PICK k \in Nat : k = messages[c].calls
    BY <1>0, ShapedIs
  <2>4. c \in 2 .. n
    <3>1. c > r
      BY <1>0, <2>2, ShapedIs
    <3>2. QED
      BY <1>1, <3>1
  <2>5. /\ c + k <= n
        /\ \A i \in 1 .. n : c < i /\ i <= c + k => messages[i].role = "tool"
        /\ c + k < n => messages[c + k + 1].role # "tool"
    <3>1. /\ c + k = n + 0 \/ c + k < n
          /\ \A i \in 1 .. n : c < i /\ i <= c + k => messages[i].role = "tool"
          /\ c + k < n => messages[c + k + 1].role # "tool"
      BY <1>0, <1>1, <2>2, <2>3 DEF Replied
    <3>2. QED
      BY <3>1
  <2>6. ASSUME NEW x \in c .. c + k
        PROVE  x \in I
    <3>1. x \in 2 .. n /\ (x = c \/ c < x)
      BY <2>4, <2>5
    <3>2. \A y \in 1 .. x : y > c => messages[y].role = "tool"
      BY <2>5, <3>1
    <3>3. Together(messages, I)
      BY DEF Keeps
    <3>4. QED
      BY <1>0, <2>2, <2>4, <3>1, <3>2, <3>3 DEF Together
  <2>7. Covers(I, g[j], k)
    BY <2>1, <2>6 DEF Covers
  <2>8. \A i \in 0 .. k : j + i \in 1 .. m /\ g[j + i] = c + i
    <3>1. \A i \in 0 .. k : j + i \in 1 .. m /\ g[j + i] = g[j] + i
      <4>1. \A x \in I : x \in Nat
        BY <1>1
      <4>2. QED
        BY ONLY <1>5, <2>7, <4>1, j \in 1 .. m, m \in Nat, k \in Nat, GapFree
    <3>2. QED
      BY <2>1, <3>1
  <2>9. j + k <= m /\ g[j + k] = c + k /\ j + k \in 1 .. m
    BY <2>8
  <2>10. ASSUME NEW i \in 1 .. m, j < i, i <= j + k
         PROVE  p[i].role = "tool"
    <3>1. i - j \in 0 .. k /\ j + (i - j) = i
      BY <2>10
    <3>2. g[i] = c + (i - j)
      BY <2>8, <3>1
    <3>3. g[i] \in 1 .. n /\ c < g[i] /\ g[i] <= c + k
      BY <1>2, <2>10, <3>1, <3>2
    <3>4. QED
      BY <1>2, <2>5, <3>3
  <2>11. ASSUME j + k < m, p[j + k + 1].role = "tool"
         PROVE  FALSE
    <3>1. j + k + 1 \in 1 .. m
      BY <2>9, <2>11
    <3>2. PICK x \in 1 .. n : x = g[j + k + 1]
      BY <1>2, <3>1
    <3>3. x > c + k /\ x \in 2 .. n /\ x \in I /\ messages[x].role = "tool"
      <4>1. g[j + k] < g[j + k + 1]
        BY <1>3, <2>9, <3>1
      <4>2. messages[x].role = "tool" /\ x \in I
        BY <1>2, <2>11, <3>1, <3>2
      <4>3. QED
        BY <2>4, <2>9, <3>2, <4>1, <4>2
    <3>4. PICK b : b = Start(messages, x)
      OBVIOUS
    <3>5. /\ b \in 2 .. x /\ messages[b].role # "tool"
          /\ \A y \in 1 .. x : y > b => messages[y].role = "tool"
      BY <1>0, <3>3, <3>4, StartsAre
    <3>6. b \in 2 .. n /\ b < x /\ c + k < b
      <4>1. b # x
        BY <3>3, <3>5
      <4>2. messages[c + k + 1].role # "tool" /\ c + k + 1 \in 1 .. x
        BY <2>4, <2>5, <3>3
      <4>3. ~(c + k + 1 > b)
        BY <3>5, <4>2
      <4>4. QED
        BY <3>5, <4>1, <4>3
    <3>7. b \in I
      <4>1. Together(messages, I)
        BY DEF Keeps
      <4>2. QED
        BY <1>0, <3>3, <3>5, <3>6, <4>1 DEF Together
    <3>8. PICK l \in 1 .. m : g[l] = b
      BY <1>4, <3>7
    <3>9. ~(l <= j + k)
      <4>1. l < j + k => g[l] < g[j + k]
        BY <1>3, <2>9
      <4>2. QED
        BY <2>9, <3>6, <3>8, <4>1
    <3>10. ~(l >= j + k + 1)
      <4>1. j + k + 1 < l => g[j + k + 1] < g[l]
        BY <1>3, <3>1
      <4>2. QED
        BY <3>1, <3>2, <3>6, <3>8, <4>1
    <3>11. QED
      BY <3>9, <3>10
  <2>12. p[j].calls = k
    BY <2>2, <2>3
  <2>13. QED
    BY <2>9, <2>10, <2>11, <2>12
<1>7. QED
  BY <1>0, <1>1, <1>6 DEF Replied

LEMMA ThinnerKeeps ==
  ASSUME NEW messages, NEW r, Shaped(messages, r), NEW short, Thinner(short, messages)
  PROVE  /\ Shaped(short, r) /\ short[r].tag = messages[r].tag
         /\ Replied(messages, 0) => Replied(short, 0)
         /\ \A I : Keeps(messages, r, I) => Keeps(short, r, I)
<1>0. PICK n \in Nat : n = Len(messages)
  BY ShapedIs
<1>1. /\ DOMAIN messages = 1 .. n /\ DOMAIN short = 1 .. n /\ Len(short) = n
      /\ r \in Nat /\ 2 <= r /\ r <= n
  BY <1>0, ShapedIs DEF Thinner
<1>2. \A i \in 1 .. n : /\ short[i].role = messages[i].role /\ short[i].tag = messages[i].tag
                        /\ short[i].calls = messages[i].calls
  BY <1>0 DEF Thinner
<1>3. Shaped(short, r)
  <2>1. short \in Seq(Message) /\ Weighty(short) /\ r \in 2 .. n
    BY <1>1 DEF Thinner
  <2>2. short[1].role = "system" /\ short[r].role = "user"
    BY <1>1, <1>2 DEF Shaped
  <2>3. ASSUME NEW i \in 2 .. r
        PROVE  short[i].role \in {"user", "assistant"} /\ short[i].tag + (r - i) = short[r].tag
    <3>1. i \in 1 .. n /\ r \in 1 .. n
      BY <1>1
    <3>2. QED
      BY <1>2, <3>1 DEF Shaped
  <2>4. ASSUME NEW i \in r + 1 .. n
        PROVE  short[i].role \in {"call", "tool"}
    <3>1. i \in 1 .. n
      BY <1>1
    <3>2. QED
      BY <1>0, <1>2, <3>1 DEF Shaped
  <2>5. ASSUME r < n
        PROVE  short[r + 1].role = "call"
    <3>1. r + 1 \in 1 .. n
      BY <1>1, <2>5
    <3>2. QED
      BY <1>0, <1>2, <2>5, <3>1 DEF Shaped
  <2>6. QED
    BY <1>1, <2>1, <2>2, <2>3, <2>4, <2>5 DEF Shaped
<1>4. short[r].tag = messages[r].tag
  BY <1>1, <1>2
<1>5. ASSUME Replied(messages, 0)
      PROVE  Replied(short, 0)
  <2> SUFFICES ASSUME NEW c \in 1 .. n, short[c].role = "call"
               PROVE  /\ c + short[c].calls = n + 0 \/ c + short[c].calls < n
                      /\ \A i \in 1 .. n : c < i /\ i <= c + short[c].calls => short[i].role = "tool"
                      /\ c + short[c].calls < n => short[c + short[c].calls + 1].role # "tool"
    BY <1>1 DEF Replied
  <2>1. PICK k \in Nat : k = messages[c].calls
    BY <1>0, ShapedIs
  <2>2. /\ c + k = n + 0 \/ c + k < n
        /\ \A i \in 1 .. n : c < i /\ i <= c + k => messages[i].role = "tool"
        /\ c + k < n => messages[c + k + 1].role # "tool"
    BY <1>0, <1>1, <1>2, <1>5, <2>1 DEF Replied
  <2>3. short[c].calls = k
    BY <1>2, <2>1
  <2>4. c + k < n => c + k + 1 \in 1 .. n
    OBVIOUS
  <2>5. QED
    BY <1>2, <2>2, <2>3, <2>4
<1>6. ASSUME NEW I, Keeps(messages, r, I)
      PROVE  Keeps(short, r, I)
  <2>1. /\ I \subseteq 1 .. n /\ 1 \in I /\ r \in I
        /\ \A i, j \in 2 .. r : i \in I /\ i < j => j \in I
    BY <1>0, <1>6 DEF Keeps
  <2>2. ASSUME NEW c \in 2 .. n, NEW i \in 2 .. n, c < i, short[c].role # "tool",
               \A k \in 1 .. i : k > c => short[k].role = "tool"
        PROVE  i \in I <=> c \in I
    <3>1. messages[c].role # "tool"
      BY <1>2, <2>2
    <3>2. \A k \in 1 .. i : k > c => messages[k].role = "tool"
      <4>1. \A k \in 1 .. i : k \in 1 .. n
        OBVIOUS
      <4>2. QED
        BY <1>2, <2>2, <4>1
    <3>3. Together(messages, I)
      BY <1>6 DEF Keeps
    <3>4. QED
      BY <1>0, <2>2, <3>1, <3>2, <3>3 DEF Together
  <2>3. Together(short, I)
    BY <1>1, <2>2 DEF Together
  <2>4. QED
    BY <1>1, <2>1, <2>3 DEF Keeps
<1>7. QED
  BY <1>3, <1>4, <1>5, <1>6

(* The selection by starts of groups. *)
LEMMA MembersKept ==
  ASSUME NEW messages, NEW r, Shaped(messages, r), NEW K, r \in K,
         \A i, j \in 2 .. r : i \in K /\ i < j => j \in K
  PROVE  Keeps(messages, r, Heading(messages) \cup Members(messages, K))
<1>0. PICK n \in Nat : n = Len(messages)
  BY ShapedIs
<1>1. r \in Nat /\ 2 <= r /\ r <= n
  BY <1>0, ShapedIs
<1> DEFINE I == {1} \cup {i \in 2 .. n : Start(messages, i) \in K}
<1>2. Heading(messages) \cup Members(messages, K) = I
  BY <1>0, HeadingIs DEF Members
<1>3. \A i \in 2 .. n : i \in I <=> Start(messages, i) \in K
  OBVIOUS
<1>4. I \subseteq 1 .. n /\ 1 \in I
  BY <1>1
<1> HIDE DEF I
<1>5. \A i \in 2 .. r : i \in 2 .. n /\ Start(messages, i) = i
  <2> TAKE i \in 2 .. r
  <2>1. i \in 2 .. n /\ i \in 1 .. n /\ ~(i > r)
    BY <1>1
  <2>2. messages[i].role # "tool"
    BY <1>0, <2>1, ShapedIs
  <2>3. QED
    BY <1>0, <2>1, <2>2, StartsAre
<1>6. r \in I
  BY <1>1, <1>3, <1>5
<1>7. \A i, j \in 2 .. r : i \in I /\ i < j => j \in I
  BY <1>3, <1>5
<1>8. ASSUME NEW c \in 2 .. n, NEW i \in 2 .. n, c < i, messages[c].role # "tool",
             \A k \in 1 .. i : k > c => messages[k].role = "tool"
      PROVE  i \in I <=> c \in I
  <2>1. Start(messages, c) = c
    BY <1>0, <1>8, StartsAre
  <2>2. PICK b : b = Start(messages, i)
    OBVIOUS
  <2>3. /\ b \in 2 .. i /\ messages[b].role # "tool"
        /\ \A k \in 1 .. i : k > b => messages[k].role = "tool"
    BY <1>0, <2>2, StartsAre
  <2>4. b = c
    <3>1. ~(b > c) /\ ~(c > b)
      BY <1>8, <2>3
    <3>2. QED
      BY <2>3, <3>1
  <2>5. QED
    BY <1>3, <2>1, <2>2, <2>4
<1>9. Together(messages, I)
  BY <1>0, <1>8 DEF Together
<1>10. QED
  BY <1>0, <1>2, <1>4, <1>6, <1>7, <1>9 DEF Keeps

LEMMA RequiredIs ==
  ASSUME NEW messages, NEW r, Shaped(messages, r)
  PROVE  /\ Groups(messages) \subseteq 2 .. Len(messages)
         /\ \A i \in 2 .. r : i \in Groups(messages)
         /\ Required(messages) \subseteq Groups(messages) /\ r \in Required(messages)
         /\ \A i \in Required(messages) : r <= i
<1>0. PICK n \in Nat : n = Len(messages)
  BY ShapedIs
<1>1. r \in Nat /\ 2 <= r /\ r <= n
  BY <1>0, ShapedIs
<1>2. Groups(messages) = {Start(messages, i) : i \in 2 .. n}
  BY <1>0, HeadingIs DEF Groups
<1>3. Groups(messages) \subseteq 2 .. n
  <2>1. \A i \in 2 .. n : Start(messages, i) \in 2 .. n
    BY <1>0, StartsAre
  <2>2. QED
    BY <1>2, <2>1
<1>4. \A i \in 2 .. r : i \in Groups(messages)
  <2> TAKE i \in 2 .. r
  <2>1. i \in 2 .. n /\ i \in 1 .. n /\ ~(i > r)
    BY <1>1
  <2>2. messages[i].role # "tool"
    BY <1>0, <2>1, ShapedIs
  <2>3. Start(messages, i) = i
    BY <1>0, <2>1, <2>2, StartsAre
  <2>4. QED
    BY <1>2, <2>1, <2>3
<1>5. r \in Groups(messages) /\ messages[r].role = "user"
  BY <1>1, <1>4 DEF Shaped
<1>6. \A i \in Groups(messages) : messages[i].role = "user" => i <= r
  <2> TAKE i \in Groups(messages)
  <2>1. i \in 1 .. n
    BY <1>3
  <2>2. QED
    BY <1>0, <2>1, ShapedIs
<1> DEFINE users == {i \in Groups(messages) : messages[i].role = "user"}
<1>7. r \in Latest(users) /\ Latest(users) \subseteq Groups(messages)
      /\ \A i \in Latest(users) : r <= i
  BY <1>5, <1>6 DEF Latest
<1>8. Latest(Groups(messages)) \subseteq Groups(messages) /\ \A i \in Latest(Groups(messages)) : r <= i
  BY <1>5 DEF Latest
<1>9. Required(messages) = Latest(Groups(messages)) \cup Latest(users)
  BY DEF Required
<1> HIDE DEF users
<1>10. QED
  BY <1>0, <1>3, <1>4, <1>7, <1>8, <1>9

LEMMA SizeNone ==
  ASSUME NEW messages, messages \in Seq(Message)
  PROVE  SizeOf(messages, {}) = 0
<1>1. Sizes(messages) \in Seq(Nat) /\ SizeOf(messages, {}) = Total(Sizes(messages), {})
  BY SizesAre
<1>2. QED
  BY <1>1, TotalNone

LEMMA SizeMonotone ==
  ASSUME NEW messages, messages \in Seq(Message), NEW I, NEW J, I \subseteq J
  PROVE  SizeOf(messages, I) <= SizeOf(messages, J)
<1>1. /\ Sizes(messages) \in Seq(Nat) /\ SizeOf(messages, I) = Total(Sizes(messages), I)
      /\ SizeOf(messages, J) = Total(Sizes(messages), J)
  BY SizesAre
<1>2. QED
  BY <1>1, TotalMonotone

LEMMA SizeUnion ==
  ASSUME NEW messages, messages \in Seq(Message), NEW I, NEW J, I \cap J = {}
  PROVE  SizeOf(messages, I \cup J) = SizeOf(messages, I) + SizeOf(messages, J)
<1>1. /\ Sizes(messages) \in Seq(Nat)
      /\ \A K : SizeOf(messages, K) = Total(Sizes(messages), K)
  BY SizesAre
<1>2. Total(Sizes(messages), I \cup J) = Total(Sizes(messages), I) + Total(Sizes(messages), J)
  BY <1>1, TotalUnion
<1>3. QED
  BY <1>1, <1>2

(* The newest groups that fit: all from one on, and they fit. *)
LEMMA RecentIs ==
  ASSUME NEW messages, messages \in Seq(Message), NEW rest, \A s \in rest : s \in Nat, NEW room \in Nat
  PROVE  /\ Recent(messages, rest, room) \subseteq rest
         /\ \A s \in Recent(messages, rest, room) : \A t \in rest : s <= t => t \in Recent(messages, rest, room)
         /\ SizeOf(messages, Members(messages, Recent(messages, rest, room))) <= room
<1> DEFINE from(s) == {t \in rest : t >= s}
           recent == Recent(messages, rest, room)
<1>1. recent = {s \in rest : SizeOf(messages, Members(messages, from(s))) <= room}
  BY DEF Recent
<1>2. ASSUME NEW s \in recent, NEW t \in rest, s <= t
      PROVE  t \in recent
  <2>1. s \in Nat /\ t \in Nat /\ s \in rest
    BY <1>1
  <2>2. from(t) \subseteq from(s)
    <3>1. \A u \in rest : u >= t => u >= s
      BY <1>2, <2>1
    <3>2. QED
      BY <3>1
  <2>3. Members(messages, from(t)) \subseteq Members(messages, from(s))
    BY <2>2 DEF Members
  <2>4. SizeOf(messages, Members(messages, from(t))) <= SizeOf(messages, Members(messages, from(s)))
    <3> HIDE DEF from
    <3>1. QED
      BY <2>3, SizeMonotone
  <2>5. SizeOf(messages, Members(messages, from(s))) <= room
    BY <1>1
  <2>6. /\ SizeOf(messages, Members(messages, from(t))) \in Nat
        /\ SizeOf(messages, Members(messages, from(s))) \in Nat
    <3> HIDE DEF from
    <3>1. QED
      BY TokensNat
  <2> HIDE DEF from
  <2>7. SizeOf(messages, Members(messages, from(t))) <= room
    BY <2>4, <2>5, <2>6
  <2>8. QED
    BY <1>1, <2>7
<1>3. CASE recent = {}
  <2>1. Members(messages, {}) = {}
    BY DEF Members
  <2>2. SizeOf(messages, Members(messages, recent)) = 0
    <3> HIDE DEF recent
    <3>1. QED
      BY <1>3, <2>1, SizeNone
  <2> HIDE DEF from
  <2>3. recent \subseteq rest
    BY <1>1
  <2> HIDE DEF recent
  <2>4. SizeOf(messages, Members(messages, recent)) <= room
    BY <2>2
  <2>5. QED
    BY <1>2, <2>3, <2>4 DEF recent
<1>4. CASE recent # {}
  <2>1. recent \in SUBSET Nat
    BY <1>1
  <2>2. PICK s \in recent : \A t \in recent : s <= t
    <3> HIDE DEF recent
    <3>1. QED
      BY <1>4, <2>1, Least
  <2>3. recent = from(s)
    <3>1. \A t \in recent : t \in rest /\ t \in Nat /\ s <= t
      BY <1>1, <2>1, <2>2
    <3>2. \A t \in rest : t >= s => t \in recent
      BY <1>2, <2>1
    <3> HIDE DEF recent
    <3>3. QED
      BY <2>1, <3>1, <3>2
  <2>4. SizeOf(messages, Members(messages, from(s))) <= room
    BY <1>1
  <2>5. recent \subseteq rest
    BY <1>1
  <2>6. QED
    BY <1>2, <2>3, <2>4, <2>5
<1>5. QED
  BY <1>3, <1>4

(* Trim without the functions that name what it computes. *)
Sent(messages, schema, need, rest, short) ==
  Picked(short, need \cup Members(messages, Recent(messages, rest,
                                                   Beyond(Budget, SizeOf(short, need) + schema))))

LEMMA CutIs ==
  ASSUME NEW messages, messages \in Seq(Message), Weighty(messages), NEW schema \in Nat,
         NEW need \in SUBSET (1 .. Len(messages)), NEW rest,
         NEW excess, excess = Beyond(SizeOf(messages, need) + schema, Budget),
         NEW short, short = Shortened(messages, need, excess)
  PROVE  /\ excess \in Nat
         /\ Cut(messages, schema, need, rest) =
              IF excess > SpareOf(messages, need) THEN Exceeded ELSE Sent(messages, schema, need, rest, short)
<1>1. DOMAIN messages = 1 .. Len(messages)
  OBVIOUS
<1>2. SizeOf(messages, need) \in Nat
  BY TokensNat
<1>3. excess \in Nat
  BY <1>2, BudgetAssumption DEF Beyond
<1>4. short \in Seq(Message)
  BY <1>3, ShortenedIs DEF Thinner
<1>5. PICK room : room = Beyond(Budget, SizeOf(short, need) + schema)
  OBVIOUS
<1>6. room \in Nat
  <2>1. SizeOf(short, need) \in Nat
    BY <1>4, TokensNat
  <2>2. QED
    BY <1>5, <2>1, BudgetAssumption DEF Beyond
<1>7. PICK I : I = need \cup Members(messages, Recent(messages, rest, room))
  OBVIOUS
<1>8. I \in SUBSET DOMAIN messages
  BY <1>1, <1>7 DEF Members
<1> DEFINE sent == [J \in SUBSET DOMAIN messages |-> Picked(short, J)]
           within == [x \in Nat |-> sent[need \cup Members(messages, Recent(messages, rest, x))]]
<1>9. within[room] = Picked(short, I)
  BY <1>6, <1>7, <1>8
<1>10. Cut(messages, schema, need, rest) = IF excess > SpareOf(messages, need) THEN Exceeded ELSE within[room]
  BY <1>5 DEF Cut
<1>11. QED
  BY <1>3, <1>5, <1>7, <1>9, <1>10 DEF Sent

LEMMA TrimIs ==
  ASSUME NEW messages, NEW r, Shaped(messages, r), NEW schema,
         NEW need, need = Heading(messages) \cup Members(messages, Required(messages)),
         NEW rest, rest = Groups(messages) \ Required(messages), ~(Tokens(messages) + schema <= Budget)
  PROVE  Trim(messages, schema) = Cut(messages, schema, need, rest)
<1>1. DOMAIN messages = 1 .. Len(messages) /\ Len(messages) \in Nat
  BY ShapedIs
<1>2. need \in SUBSET DOMAIN messages
  BY <1>1 DEF Heading, Members
<1>3. rest \in SUBSET DOMAIN messages
  <2>1. Groups(messages) \subseteq 2 .. Len(messages)
    BY RequiredIs
  <2>2. QED
    BY <1>1, <2>1
<1> DEFINE keeping == [n \in SUBSET DOMAIN messages |->
                         [t \in SUBSET DOMAIN messages |-> Cut(messages, schema, n, t)]]
<1>4. Trim(messages, schema) = keeping[need][rest]
  BY DEF Trim
<1>5. keeping[need][rest] = Cut(messages, schema, need, rest)
  BY <1>2, <1>3
<1>6. QED
  BY <1>4, <1>5

LEMMA TotalLess ==
  ASSUME NEW n \in Nat, NEW a, a \in Seq(Nat), Len(a) = n, NEW b, b \in Seq(Nat), Len(b) = n, NEW I,
         \A i \in 1 .. n : a[i] <= b[i]
  PROVE  Total(a, I) <= Total(b, I)
<1> DEFINE S == {i \in Nat : i \in 0 .. n => UpTo(a, I)[i] <= UpTo(b, I)[i]}
<1>1. \A i \in 0 .. n : UpTo(a, I)[i] \in Nat /\ UpTo(b, I)[i] \in Nat
  BY UpToNat
<1>2. 0 \in S
  BY UpToStep
<1>3. \A i \in 0 .. n - 1 : i \in S => i + 1 \in S
  <2> TAKE i \in 0 .. n - 1
  <2>1. i \in 0 .. n /\ i + 1 \in 0 .. n /\ i + 1 \in 1 .. n /\ a[i + 1] \in Nat /\ b[i + 1] \in Nat
    OBVIOUS
  <2>2. UpTo(a, I)[i + 1] = UpTo(a, I)[i] + IF i + 1 \in I THEN a[i + 1] ELSE 0
    BY <2>1, UpToStep
  <2>3. UpTo(b, I)[i + 1] = UpTo(b, I)[i] + IF i + 1 \in I THEN b[i + 1] ELSE 0
    BY <2>1, UpToStep
  <2>4. a[i + 1] <= b[i + 1]
    BY <2>1
  <2>5. QED
    BY <1>1, <2>1, <2>2, <2>3, <2>4
<1> HIDE DEF S
<1>4. n \in S /\ n \in 0 .. n
  <2>1. 0 .. n \subseteq S
    BY <1>2, <1>3, Induct
  <2>2. QED
    BY <2>1
<1>5. QED
  BY <1>4, TotalIs DEF S

LEMMA MembersApart ==
  ASSUME NEW messages, NEW r, Shaped(messages, r), NEW K, NEW J, K \cap J = {}
  PROVE  (Heading(messages) \cup Members(messages, K)) \cap Members(messages, J) = {}
BY HeadingIs DEF Members

LEMMA SizeThinner ==
  ASSUME NEW messages, messages \in Seq(Message), NEW short, Thinner(short, messages), NEW I
  PROVE  SizeOf(short, I) <= SizeOf(messages, I)
<1>1. short \in Seq(Message) /\ Len(short) = Len(messages) /\ Len(messages) \in Nat
  BY DEF Thinner
<1>a. PICK a, b : a = Sizes(short) /\ b = Sizes(messages)
  OBVIOUS
<1>b. PICK n \in Nat : n = Len(messages)
  BY <1>1
<1>2. a = Sizes(short) /\ b = Sizes(messages) /\ n = Len(messages)
  BY <1>a, <1>b
<1>3. /\ a \in Seq(Nat) /\ b \in Seq(Nat) /\ Len(a) = n /\ Len(b) = n
      /\ SizeOf(short, I) = Total(a, I) /\ SizeOf(messages, I) = Total(b, I)
      /\ \A i \in 1 .. n : a[i] = short[i].size /\ b[i] = messages[i].size
  BY <1>1, <1>2, SizesAre
<1>4. \A i \in 1 .. n : a[i] <= b[i]
  BY <1>2, <1>3 DEF Thinner
<1>5. Total(a, I) <= Total(b, I)
  BY <1>3, <1>4, TotalLess
<1>6. QED
  BY <1>3, <1>5

(* What trim_messages sends of a well-formed list is well formed, has the same request
   and fits. *)
THEOREM TrimSound ==
  ASSUME NEW messages, NEW r, Shaped(messages, r), Replied(messages, 0), NEW schema \in Nat,
         NEW prompt, prompt = Trim(messages, schema), prompt # Exceeded
  PROVE  /\ Tokens(prompt) + schema <= Budget /\ Replied(prompt, 0)
         /\ \E q \in 1 .. Len(prompt) : Shaped(prompt, q) /\ prompt[q].tag = messages[r].tag
<1>1. messages \in Seq(Message) /\ Weighty(messages) /\ r \in 1 .. Len(messages)
  BY ShapedIs DEF Shaped
<1>2. CASE Tokens(messages) + schema <= Budget
  <2>1. prompt = messages
    BY <1>2 DEF Trim
  <2>2. QED
    BY <1>1, <1>2, <2>1
<1>3. CASE ~(Tokens(messages) + schema <= Budget)
  <2>1. PICK required, need, rest, excess, short, room, recent :
          /\ required = Required(messages)
          /\ need = Heading(messages) \cup Members(messages, required)
          /\ rest = Groups(messages) \ required
          /\ excess = Beyond(SizeOf(messages, need) + schema, Budget)
          /\ short = Shortened(messages, need, excess)
          /\ room = Beyond(Budget, SizeOf(short, need) + schema)
          /\ recent = Recent(messages, rest, room)
    OBVIOUS
  <2> DEFINE I == need \cup Members(messages, recent)
  <2>2. need \in SUBSET (1 .. Len(messages)) /\ \A i \in need : i \in Nat /\ 1 <= i /\ i <= Len(messages)
    <3>1. need \subseteq DOMAIN messages /\ DOMAIN messages = 1 .. Len(messages) /\ Len(messages) \in Nat
      BY <1>1, <2>1 DEF Heading, Members
    <3>2. QED
      BY <3>1
  <2>3. excess \in Nat /\ Cut(messages, schema, need, rest) =
          IF excess > SpareOf(messages, need) THEN Exceeded ELSE Sent(messages, schema, need, rest, short)
    BY <1>1, <2>1, <2>2, CutIs
  <2>4. prompt = Cut(messages, schema, need, rest)
    BY <1>3, <2>1, TrimIs
  <2>5. prompt = Picked(short, I) /\ excess <= SpareOf(messages, need)
    <3>1. SpareOf(messages, need) \in Nat
      BY <1>1, SparesAre, TotalNat
    <3>2. ~(excess > SpareOf(messages, need))
      BY <2>3, <2>4
    <3>3. prompt = Sent(messages, schema, need, rest, short)
      BY <2>3, <2>4, <3>2
    <3>4. Sent(messages, schema, need, rest, short) = Picked(short, I)
      BY <2>1 DEF Sent
    <3>5. QED
      BY <2>3, <3>1, <3>2, <3>3, <3>4
  <2>6. /\ Thinner(short, messages) /\ short \in Seq(Message) /\ Len(short) = Len(messages)
        /\ SizeOf(short, need) + excess = SizeOf(messages, need)
    <3>1. Thinner(short, messages)
      BY <1>1, <2>1, <2>3, ShortenedIs
    <3>2. SizeOf(Shortened(messages, need, excess), need) + excess = SizeOf(messages, need)
      <4>1. \A i \in need : i \in Nat /\ 1 <= i /\ i <= Len(messages)
        BY <2>2
      <4>2. excess \in Nat /\ excess <= SpareOf(messages, need)
        BY <2>3, <2>5
      <4>3. QED
        BY ONLY <1>1, <4>1, <4>2, ShortenedFits
    <3>3. QED
      BY <2>1, <3>1, <3>2 DEF Thinner
  <2>7. /\ recent \subseteq rest
        /\ \A s \in recent : \A t \in rest : s <= t => t \in recent
        /\ SizeOf(messages, Members(messages, recent)) <= room
        /\ room \in Nat /\ SizeOf(short, need) \in Nat /\ SizeOf(messages, need) \in Nat
    <3>1. SizeOf(short, need) \in Nat /\ SizeOf(messages, need) \in Nat
      BY <1>1, <2>6, TokensNat
    <3>2. room \in Nat
      BY <2>1, <3>1, BudgetAssumption DEF Beyond
    <3>3. \A s \in rest : s \in Nat
      <4>1. Groups(messages) \subseteq 2 .. Len(messages)
        BY RequiredIs
      <4>2. QED
        BY <2>1, <4>1
    <3>4. /\ recent \subseteq rest
          /\ \A s \in recent : \A t \in rest : s <= t => t \in recent
          /\ SizeOf(messages, Members(messages, recent)) <= room
      <4>1. messages \in Seq(Message)
        BY <1>1
      <4>2. recent = Recent(messages, rest, room)
        BY <2>1
      <4>3. QED
        BY ONLY <3>2, <3>3, <4>1, <4>2, RecentIs
    <3>5. QED
      BY <3>1, <3>2, <3>4
  <2>8. Keeps(messages, r, I)
    <3> DEFINE K == required \cup recent
    <3>1. r \in K
      BY <2>1, RequiredIs
    <3>2. \A i, j \in 2 .. r : i \in K /\ i < j => j \in K
      <4> SUFFICES ASSUME NEW i \in 2 .. r, NEW j \in 2 .. r, i \in K, i < j
                   PROVE  j \in K
        OBVIOUS
      <4>1. \A k \in required : r <= k
        BY <2>1, RequiredIs
      <4>2. r \in Nat
        BY ShapedIs
      <4>3. i \in recent
        BY <4>1, <4>2
      <4>4. j \in Groups(messages)
        BY RequiredIs
      <4>5. j \in rest => j \in recent
        BY <2>7, <4>2, <4>3
      <4>6. QED
        BY <2>1, <4>4, <4>5
    <3>3. I = Heading(messages) \cup Members(messages, K)
      BY <2>1 DEF Members
    <3> HIDE DEF K, I
    <3>4. QED
      BY <3>1, <3>2, <3>3, MembersKept
  <2>9. Shaped(short, r) /\ short[r].tag = messages[r].tag /\ Replied(short, 0) /\ Keeps(short, r, I)
    <3> HIDE DEF I
    <3>1. QED
      BY <2>6, <2>8, ThinnerKeeps
  <2>10. Tokens(prompt) = SizeOf(short, I) /\ PickOf(short, prompt, I)
    <3>1. \A i \in I : i \in Nat /\ 1 <= i /\ i <= Len(short)
      <4>1. I \subseteq 1 .. Len(short) /\ Len(short) \in Nat
        BY <2>6, <2>9 DEF Keeps
      <4> HIDE DEF I
      <4>2. QED
        BY <4>1
    <3> HIDE DEF I
    <3>2. QED
      BY <2>5, <2>6, <3>1, PickedIs
  <2>11. Tokens(prompt) + schema <= Budget
    <3>1. SizeOf(short, I) = SizeOf(short, need) + SizeOf(short, Members(messages, recent))
      <4>1. need \cap Members(messages, recent) = {}
        <5>1. required \cap recent = {}
          BY <2>1, <2>7
        <5>2. QED
          BY <2>1, <5>1, MembersApart
      <4>2. QED
        BY <2>6, <4>1, SizeUnion
    <3>2. SizeOf(short, Members(messages, recent)) <= SizeOf(messages, Members(messages, recent))
      BY <1>1, <2>6, SizeThinner
    <3>a. PICK x \in Nat, y \in Nat : x = SizeOf(short, need) /\ y = SizeOf(messages, need)
      BY <2>7
    <3>3. SizeOf(short, need) + schema <= Budget
      <4>1. x + excess = y /\ excess = IF y + schema > Budget THEN (y + schema) - Budget ELSE 0
        BY <2>1, <2>6, <3>a DEF Beyond
      <4>2. x + schema <= Budget
        BY <2>3, <4>1, BudgetAssumption
      <4>3. QED
        BY <3>a, <4>2
    <3>4. room = Budget - (SizeOf(short, need) + schema)
      <4>1. x + schema <= Budget
        BY <3>a, <3>3
      <4>2. room = IF Budget > x + schema THEN Budget - (x + schema) ELSE 0
        BY <2>1, <3>a DEF Beyond
      <4>3. room = Budget - (x + schema)
        BY <4>1, <4>2, BudgetAssumption
      <4>4. QED
        BY <3>a, <4>3
    <3>5. /\ SizeOf(short, Members(messages, recent)) \in Nat
          /\ SizeOf(messages, Members(messages, recent)) \in Nat
      BY <1>1, <2>6, TokensNat
    <3>6. QED
      BY <2>7, <2>10, <3>1, <3>2, <3>4, <3>5, BudgetAssumption
  <2>12. PICK g : Lists(g, Len(prompt), I) /\ \A j \in 1 .. Len(prompt) : prompt[j] = short[g[j]]
    BY <2>10 DEF PickOf
  <2>13. prompt \in Seq(Message)
    BY <2>10 DEF PickOf
  <2> HIDE DEF I
  <2>14. Replied(prompt, 0)
    BY <2>9, <2>12, <2>13, SelectionReplied
  <2>15. \E q \in 1 .. Len(prompt) : Shaped(prompt, q) /\ prompt[q].tag = short[r].tag
    BY <2>9, <2>12, <2>13, SelectionShaped
  <2>16. QED
    BY <2>9, <2>11, <2>14, <2>15
<1>4. QED
  BY <1>2, <1>3

-----------------------------------------------------------------------------
(* What a well-formed list is worth to the model. *)

CallsAnswered(messages) ==
  /\ \A i \in DOMAIN messages : messages[i].role = "call" => Cardinality(Answers(messages, i)) = messages[i].calls
  /\ \A i \in DOMAIN messages : messages[i].role = "tool" =>
       \E c \in 1 .. i - 1 : messages[c].role = "call" /\ i \in Answers(messages, c)

LEMMA RepliedReads ==
  ASSUME NEW messages, NEW r, Shaped(messages, r), Replied(messages, 0)
  PROVE  CallsAnswered(messages)
<1>0. PICK n \in Nat : n = Len(messages)
  BY ShapedIs
<1>1. DOMAIN messages = 1 .. n
  BY <1>0, ShapedIs
<1>2. ASSUME NEW c \in 1 .. n, messages[c].role = "call"
      PROVE  Cardinality(Answers(messages, c)) = messages[c].calls
  <2>1. PICK k \in Nat : k = messages[c].calls
    BY <1>0, ShapedIs
  <2>2. /\ c + k = n + 0 \/ c + k < n
        /\ \A i \in 1 .. n : c < i /\ i <= c + k => messages[i].role = "tool"
        /\ c + k < n => messages[c + k + 1].role # "tool"
    BY <1>0, <1>1, <1>2, <2>1 DEF Replied
  <2>3. Answers(messages, c) = {j \in c + 1 .. n : \A x \in c + 1 .. j : messages[x].role = "tool"}
    BY <1>0 DEF Answers
  <2>4. ASSUME NEW j \in c + 1 .. n
        PROVE  (\A x \in c + 1 .. j : messages[x].role = "tool") <=> j <= c + k
    <3>1. ASSUME j <= c + k, NEW x \in c + 1 .. j
          PROVE  messages[x].role = "tool"
      <4>1. x \in 1 .. n /\ c < x /\ x <= c + k
        BY <3>1
      <4>2. QED
        BY <2>2, <4>1
    <3>2. ASSUME ~(j <= c + k), \A x \in c + 1 .. j : messages[x].role = "tool"
          PROVE  FALSE
      <4>1. c + k + 1 \in c + 1 .. j /\ c + k < n
        BY <3>2
      <4>2. QED
        BY <2>2, <3>2, <4>1
    <3>3. QED
      BY <3>1, <3>2
  <2>5. Answers(messages, c) = c + 1 .. c + k
    <3>1. \A j : j \in c + 1 .. c + k <=> j \in c + 1 .. n /\ j <= c + k
      BY <2>2
    <3>2. QED
      BY <2>3, <2>4, <3>1
  <2>6. Cardinality(c + 1 .. c + k) = k
    <3>1. c + 1 \in Int /\ c + k \in Int
      OBVIOUS
    <3>2. Cardinality(c + 1 .. c + k) = IF c + 1 > c + k THEN 0 ELSE (c + k) - (c + 1) + 1
      BY <3>1, FS_Interval
    <3>3. QED
      BY <3>2
  <2>7. QED
    BY <2>1, <2>5, <2>6
<1>3. ASSUME NEW i \in 1 .. n, messages[i].role = "tool"
      PROVE  \E c \in 1 .. i - 1 : messages[c].role = "call" /\ i \in Answers(messages, c)
  <2>1. i \in 2 .. n
    <3>1. i # 1
      BY <1>0, <1>3, ShapedIs
    <3>2. QED
      BY <3>1
  <2>2. PICK c : c = Start(messages, i)
    OBVIOUS
  <2>3. /\ c \in 2 .. i /\ messages[c].role = "call"
        /\ \A k \in 1 .. i : k > c => messages[k].role = "tool"
    BY <1>0, <1>3, <2>1, <2>2, StartsAre
  <2>4. c \in 1 .. i - 1
    <3>1. c # i
      BY <1>3, <2>3
    <3>2. QED
      BY <2>3, <3>1
  <2>5. i \in Answers(messages, c)
    <3>1. i \in c + 1 .. n /\ \A k \in c + 1 .. i : k \in 1 .. i /\ k > c
      BY <2>4
    <3>2. QED
      BY <1>0, <2>3, <3>1 DEF Answers
  <2>6. QED
    BY <2>3, <2>4, <2>5
<1>4. QED
  BY <1>1, <1>2, <1>3 DEF CallsAnswered

Spoken(messages) == {messages[i].tag : i \in {j \in DOMAIN messages : messages[j].role \in {"user", "assistant"}}}
LastSpoken(messages) == CHOOSE n \in Spoken(messages) : \A m \in Spoken(messages) : m <= n
FirstSpoken(messages) == CHOOSE n \in Spoken(messages) : \A m \in Spoken(messages) : n <= m

LEMMA SaidIs ==
  ASSUME NEW messages, NEW r, Shaped(messages, r)
  PROVE  LastSpoken(messages) = messages[r].tag /\ Spoken(messages) = FirstSpoken(messages) .. LastSpoken(messages)
<1>0. PICK n \in Nat : n = Len(messages)
  BY ShapedIs
<1>1. r \in Nat /\ 2 <= r /\ r <= n /\ DOMAIN messages = 1 .. n
  BY <1>0, ShapedIs
<1>2. PICK last \in Nat, first \in Nat : last = messages[r].tag /\ first = messages[2].tag
  BY <1>0, <1>1, ShapedIs
<1>3. \A i \in 2 .. r : messages[i].tag \in Nat /\ messages[i].tag + (r - i) = last
  <2> TAKE i \in 2 .. r
  <2>1. i \in 1 .. n
    BY <1>1
  <2>2. messages[i].tag \in Nat
    BY <1>0, <2>1, ShapedIs
  <2>3. QED
    BY <1>2, <2>2 DEF Shaped
<1>4. first + (r - 2) = last
  BY <1>1, <1>2, <1>3
<1>5. Spoken(messages) = {messages[i].tag : i \in 2 .. r}
  <2>1. {j \in DOMAIN messages : messages[j].role \in {"user", "assistant"}} = 2 .. r
    <3>1. \A j \in 1 .. n : messages[j].role \in {"user", "assistant"} <=> 2 <= j /\ j <= r
      BY <1>0, ShapedIs
    <3>2. \A j : j \in 2 .. r <=> j \in 1 .. n /\ 2 <= j /\ j <= r
      BY <1>1
    <3>3. QED
      BY <1>1, <3>1, <3>2
  <2>2. QED
    BY <2>1 DEF Spoken
<1>6. Spoken(messages) = first .. last
  <2>1. ASSUME NEW i \in 2 .. r
        PROVE  messages[i].tag \in first .. last
    BY <1>1, <1>3, <1>4
  <2>2. ASSUME NEW t \in first .. last
        PROVE  \E i \in 2 .. r : t = messages[i].tag
    <3>1. PICK i \in 2 .. r : i = 2 + (t - first)
      BY <1>1, <1>4
    <3>2. messages[i].tag = t
      BY <1>1, <1>3, <1>4, <3>1
    <3>3. QED
      BY <3>2
  <2>3. QED
    BY <1>5, <2>1, <2>2
<1>7. first <= last
  BY <1>1, <1>4
<1>8. LastSpoken(messages) = last /\ FirstSpoken(messages) = first
  <2>1. last \in first .. last /\ first \in first .. last
    BY <1>7
  <2>2. LastSpoken(messages) \in first .. last /\ \A m \in first .. last : m <= LastSpoken(messages)
    BY <1>6, <2>1 DEF LastSpoken
  <2>3. FirstSpoken(messages) \in first .. last /\ \A m \in first .. last : FirstSpoken(messages) <= m
    BY <1>6, <2>1 DEF FirstSpoken
  <2>4. QED
    BY <2>1, <2>2, <2>3
<1>9. QED
  BY <1>2, <1>6, <1>8

(* A list that may be sent after left more replies: of the agent's conversation, with
   the request that came after it. *)
Ready(agent, messages, left) ==
  /\ \E r \in 1 .. Len(messages) :
       /\ Shaped(messages, r) /\ \E past \in Past[agent] : messages[r].tag = Len(past) + 1
       /\ left # 0 => r < Len(messages)
  /\ Replied(messages, left)

LEMMA OpeningReady ==
  ASSUME NEW agent \in Agents, NEW past \in Past[agent]
  PROVE  Ready(agent, Opening(past), 0)
<1> DEFINE ms == Opening(past)
           head == [role |-> "system", size |-> 1, tag |-> 0, calls |-> 0]
           ask == [role |-> "user", size |-> 1, tag |-> Len(past) + 1, calls |-> 0]
<1>1. /\ past \in Seq(Message) /\ Len(past) \in Nat
      /\ \A i \in 1 .. Len(past) : past[i].role \in {"user", "assistant"} /\ past[i].tag = i
  <2>1. /\ past \in Seq(Message)
        /\ \A i \in DOMAIN past : past[i].role \in {"user", "assistant"} /\ past[i].tag = i
    BY LoopAssumption
  <2>2. QED
    BY <2>1
<1>2. PICK n \in Nat : n = Len(past)
  BY <1>1
<1>3. head \in Message /\ ask \in Message
  BY <1>1 DEF Message
<1>4. /\ ms \in Seq(Message) /\ Len(ms) = n + 2 /\ ms[1] = head /\ ms[n + 2] = ask
      /\ \A i \in 2 .. n + 1 : ms[i] = past[i - 1]
  <2>1. ms = <<head>> \o past \o <<ask>>
    BY DEF Opening
  <2> HIDE DEF head, ask, ms
  <2>2. QED
    BY <1>1, <1>2, <1>3, <2>1
<1> HIDE DEF ms
<1>5. \A i \in 2 .. n + 2 : ms[i].role \in {"user", "assistant"} /\ ms[i].tag = i - 1
  <2> TAKE i \in 2 .. n + 2
  <2>1. CASE i = n + 2
    BY <1>2, <1>4, <2>1
  <2>2. CASE i # n + 2
    <3>1. i \in 2 .. n + 1 /\ i - 1 \in 1 .. Len(past)
      BY <1>2, <2>2
    <3>2. QED
      BY <1>1, <1>4, <3>1
  <2>3. QED
    BY <2>1, <2>2
<1>6. DOMAIN ms = 1 .. n + 2
  BY <1>4
<1>7. \A i \in 1 .. n + 2 : ms[i].role \notin {"call", "tool"}
  <2> TAKE i \in 1 .. n + 2
  <2>1. i = 1 \/ i \in 2 .. n + 2
    OBVIOUS
  <2>2. CASE i = 1
    BY <1>4, <2>2
  <2>3. CASE i \in 2 .. n + 2
    BY <1>5, <2>3
  <2>4. QED
    BY <2>1, <2>2, <2>3
<1>8. Weighty(ms) /\ Replied(ms, 0)
  BY <1>6, <1>7 DEF Weighty, Replied
<1>9. Shaped(ms, n + 2)
  <2>1. n + 2 \in 2 .. n + 2 /\ ms[1].role = "system" /\ ms[n + 2].role = "user"
    BY <1>4
  <2>2. \A i \in 2 .. n + 2 : ms[i].role \in {"user", "assistant"} /\ ms[i].tag + ((n + 2) - i) = ms[n + 2].tag
    BY <1>5
  <2>3. (n + 2) + 1 .. n + 2 = {}
    OBVIOUS
  <2>4. QED
    BY <1>4, <1>8, <2>1, <2>2, <2>3 DEF Shaped
<1>10. ms[n + 2].tag = Len(past) + 1 /\ n + 2 \in 1 .. Len(ms)
  BY <1>4
<1>11. QED
  BY <1>8, <1>9, <1>10 DEF Ready, ms

LEMMA OfferedTools ==
  ASSUME NEW agent \in Agents
  PROVE  \A t \in Offered(agent) : t \in Tool /\ (t.kind = "delegate" => t.to \in Agents)
<1>1. ASSUME NEW s, s.type = "delegate" => s.to \in Agents,
             NEW t \in Registered(agent, s)
      PROVE  t \in Tool /\ (t.kind = "delegate" => t.to \in Agents)
  BY <1>1 DEF Registered, Tool
<1>2. ASSUME NEW s \in Skills[agent], NEW t \in OfParts(agent, s)
      PROVE  t \in Tool /\ (t.kind = "delegate" => t.to \in Agents)
  <2>1. PICK part \in s.parts : part.type # "delegate" /\ t \in Registered(agent, part)
    BY <1>2 DEF OfParts
  <2>2. QED
    BY <1>1, <2>1
<1>3. \A s \in Skills[agent] : s.type = "delegate" => s.to \in Agents
  BY LoopAssumption
<1>4. \A t \in Offered(agent) : \E s \in Skills[agent] : t \in OfParts(agent, s) \/ t \in Registered(agent, s)
  BY DEF Offered
<1>5. QED
  BY <1>1, <1>2, <1>3, <1>4

LEMMA SchemaNat == \A agent : SchemaOf(agent) \in Nat
BY LoopAssumption DEF SchemaOf

LEMMA ReadyType ==
  ASSUME NEW agent, NEW messages, NEW left, Ready(agent, messages, left)
  PROVE  messages \in Seq(Message)
BY DEF Ready, Shaped

LEMMA TrimReady ==
  ASSUME NEW agent, NEW messages, Ready(agent, messages, 0),
         NEW prompt, prompt = Trim(messages, SchemaOf(agent)), prompt # Exceeded
  PROVE  Ready(agent, prompt, 0) /\ Tokens(prompt) + SchemaOf(agent) <= Budget
<1>1. PICK r \in 1 .. Len(messages) :
        Shaped(messages, r) /\ \E past \in Past[agent] : messages[r].tag = Len(past) + 1
  BY DEF Ready
<1>2. Replied(messages, 0)
  BY DEF Ready
<1>3. PICK schema \in Nat : schema = SchemaOf(agent)
  BY SchemaNat
<1>4. /\ Tokens(prompt) + schema <= Budget /\ Replied(prompt, 0)
      /\ \E q \in 1 .. Len(prompt) : Shaped(prompt, q) /\ prompt[q].tag = messages[r].tag
  <2>1. prompt = Trim(messages, schema)
    BY <1>3
  <2>2. QED
    BY <1>1, <1>2, <2>1, TrimSound
<1>5. QED
  BY <1>1, <1>3, <1>4 DEF Ready

LEMMA ShapedAppend ==
  ASSUME NEW messages, NEW r, Shaped(messages, r), NEW m \in Message, m.role \in {"call", "tool"},
         m.role = "tool" => m.size >= 1 /\ r < Len(messages)
  PROVE  Shaped(Append(messages, m), r) /\ Append(messages, m)[r] = messages[r]
<1>0. PICK n \in Nat : n = Len(messages)
  BY ShapedIs
<1>1. PICK longer : longer = Append(messages, m)
  OBVIOUS
<1>2. /\ longer \in Seq(Message) /\ Len(longer) = n + 1 /\ longer[n + 1] = m /\ DOMAIN longer = 1 .. n + 1
      /\ \A i \in 1 .. n : longer[i] = messages[i]
  BY <1>0, <1>1, ShapedIs
<1>3. r \in Nat /\ 2 <= r /\ r <= n /\ r \in 2 .. n + 1
  BY <1>0, ShapedIs
<1>4. Weighty(longer)
  <2>1. \A i \in 1 .. n : messages[i].role = "tool" => messages[i].size >= 1
    BY <1>0, ShapedIs DEF Shaped, Weighty
  <2>2. \A i \in 1 .. n + 1 : i \in 1 .. n \/ i = n + 1
    OBVIOUS
  <2>3. QED
    BY <1>2, <2>1, <2>2 DEF Weighty
<1>5. longer[1].role = "system" /\ longer[r].role = "user" /\ longer[r] = messages[r]
  BY <1>2, <1>3 DEF Shaped
<1>6. ASSUME NEW i \in 2 .. r
      PROVE  longer[i].role \in {"user", "assistant"} /\ longer[i].tag + (r - i) = longer[r].tag
  <2>1. i \in 1 .. n
    BY <1>3
  <2>2. QED
    BY <1>2, <1>5, <2>1 DEF Shaped
<1>7. ASSUME NEW i \in r + 1 .. n + 1
      PROVE  longer[i].role \in {"call", "tool"}
  <2>1. i = n + 1 \/ (i \in 1 .. n /\ i > r)
    BY <1>3
  <2>2. QED
    BY <1>0, <1>2, <2>1, ShapedIs
<1>8. longer[r + 1].role = "call"
  <2>1. CASE r < n
    <3>1. r + 1 \in 1 .. n
      BY <1>3, <2>1
    <3>2. QED
      BY <1>0, <1>2, <2>1, <3>1 DEF Shaped
  <2>2. CASE ~(r < n)
    BY <1>0, <1>2, <1>3, <2>2
  <2>3. QED
    BY <2>1, <2>2
<1>9. QED
  BY <1>1, <1>2, <1>3, <1>4, <1>5, <1>6, <1>7, <1>8 DEF Shaped

LEMMA CallReady ==
  ASSUME NEW agent, NEW messages, Ready(agent, messages, 0), NEW n \in Nat, n # 0,
         NEW m, m = [role |-> "call", size |-> 1, tag |-> Len(messages), calls |-> n]
  PROVE  Ready(agent, Append(messages, m), n)
<1>1. PICK r \in 1 .. Len(messages) :
        Shaped(messages, r) /\ \E past \in Past[agent] : messages[r].tag = Len(past) + 1
  BY DEF Ready
<1>2. PICK l \in Nat : l = Len(messages)
  BY <1>1, ShapedIs
<1>3. m \in Message /\ m.role = "call" /\ m.calls = n
  BY <1>2 DEF Message
<1>4. PICK longer : longer = Append(messages, m)
  OBVIOUS
<1>5. /\ Len(longer) = l + 1 /\ DOMAIN longer = 1 .. l + 1 /\ longer[l + 1] = m
      /\ \A i \in 1 .. l : longer[i] = messages[i]
      /\ DOMAIN messages = 1 .. l
  BY <1>1, <1>2, <1>4, ShapedIs
<1>6. Shaped(longer, r) /\ longer[r] = messages[r]
  BY <1>1, <1>3, <1>4, ShapedAppend
<1>7. Replied(longer, n)
  <2> SUFFICES ASSUME NEW c \in 1 .. l + 1, longer[c].role = "call"
               PROVE  /\ c + longer[c].calls = (l + 1) + n \/ c + longer[c].calls < l + 1
                      /\ \A i \in 1 .. l + 1 : c < i /\ i <= c + longer[c].calls => longer[i].role = "tool"
                      /\ c + longer[c].calls < l + 1 => longer[c + longer[c].calls + 1].role # "tool"
    BY <1>5 DEF Replied
  <2>1. CASE c = l + 1
    BY <1>3, <1>5, <2>1
  <2>2. CASE c \in 1 .. l
    <3>1. messages[c].role = "call" /\ longer[c].calls = messages[c].calls
      BY <1>5, <2>2
    <3>2. PICK k \in Nat : k = messages[c].calls
      BY <1>1, <1>2, <2>2, ShapedIs
    <3>3. /\ c + k = l + 0 \/ c + k < l
          /\ \A i \in 1 .. l : c < i /\ i <= c + k => messages[i].role = "tool"
          /\ c + k < l => messages[c + k + 1].role # "tool"
      BY <1>2, <1>5, <2>2, <3>1, <3>2 DEF Ready, Replied
    <3>4. c + k < l + 1 /\ c + k + 1 \in 1 .. l + 1
      BY <3>3
    <3>5. \A i \in 1 .. l + 1 : c < i /\ i <= c + k => longer[i].role = "tool"
      <4>1. \A i \in 1 .. l + 1 : i <= c + k => i \in 1 .. l
        BY <3>3
      <4>2. QED
        BY <1>5, <3>3, <4>1
    <3>6. longer[c + k + 1].role # "tool"
      <4>1. CASE c + k < l
        BY <1>5, <3>3, <4>1
      <4>2. CASE c + k = l
        BY <1>3, <1>5, <4>2
      <4>3. QED
        BY <3>3, <4>1, <4>2
    <3>7. QED
      BY <3>1, <3>2, <3>4, <3>5, <3>6
  <2>3. QED
    BY <2>1, <2>2
<1>8. QED
  BY <1>1, <1>2, <1>4, <1>5, <1>6, <1>7 DEF Ready

LEMMA ToolReady ==
  ASSUME NEW agent, NEW messages, NEW left \in Nat, left # 0, Ready(agent, messages, left),
         NEW size \in Nat \ {0},
         NEW m, m = [role |-> "tool", size |-> size, tag |-> Len(messages), calls |-> 0]
  PROVE  Ready(agent, Append(messages, m), left - 1)
<1>1. PICK r \in 1 .. Len(messages) :
        /\ Shaped(messages, r) /\ \E past \in Past[agent] : messages[r].tag = Len(past) + 1
        /\ r < Len(messages)
  BY DEF Ready
<1>2. PICK l \in Nat : l = Len(messages)
  BY <1>1, ShapedIs
<1>3. m \in Message /\ m.role = "tool" /\ m.size >= 1
  BY <1>2 DEF Message
<1>4. PICK longer : longer = Append(messages, m)
  OBVIOUS
<1>5. /\ Len(longer) = l + 1 /\ DOMAIN longer = 1 .. l + 1 /\ longer[l + 1] = m
      /\ \A i \in 1 .. l : longer[i] = messages[i]
      /\ DOMAIN messages = 1 .. l
  BY <1>1, <1>2, <1>4, ShapedIs
<1>6. Shaped(longer, r) /\ longer[r] = messages[r] /\ r \in 1 .. l + 1 /\ r < l + 1
  <2>1. Shaped(longer, r) /\ longer[r] = messages[r]
    BY <1>1, <1>3, <1>4, ShapedAppend
  <2>2. QED
    BY <1>2, <2>1
<1>7. Replied(longer, left - 1)
  <2> SUFFICES ASSUME NEW c \in 1 .. l + 1, longer[c].role = "call"
               PROVE  /\ c + longer[c].calls = (l + 1) + (left - 1) \/ c + longer[c].calls < l + 1
                      /\ \A i \in 1 .. l + 1 : c < i /\ i <= c + longer[c].calls => longer[i].role = "tool"
                      /\ c + longer[c].calls < l + 1 => longer[c + longer[c].calls + 1].role # "tool"
    BY <1>5 DEF Replied
  <2>1. c \in 1 .. l
    <3>1. c # l + 1
      BY <1>3, <1>5
    <3>2. QED
      BY <3>1
  <2>2. messages[c].role = "call" /\ longer[c].calls = messages[c].calls
    BY <1>5, <2>1
  <2>3. PICK k \in Nat : k = messages[c].calls
    BY <1>1, <1>2, <2>1, ShapedIs
  <2>4. /\ c + k = l + left \/ c + k < l
        /\ \A i \in 1 .. l : c < i /\ i <= c + k => messages[i].role = "tool"
        /\ c + k < l => messages[c + k + 1].role # "tool"
    BY <1>2, <1>5, <2>1, <2>2, <2>3 DEF Ready, Replied
  <2>5. c + k = (l + 1) + (left - 1) \/ c + k < l + 1
    BY <2>4
  <2>6. ASSUME NEW i \in 1 .. l + 1, c < i, i <= c + k
        PROVE  longer[i].role = "tool"
    <3>1. CASE i = l + 1
      BY <1>3, <1>5, <3>1
    <3>2. CASE i \in 1 .. l
      BY <1>5, <2>4, <2>6, <3>2
    <3>3. QED
      BY <3>1, <3>2
  <2>7. ASSUME c + k < l + 1
        PROVE  longer[c + k + 1].role # "tool"
    <3>1. c + k < l /\ c + k + 1 \in 1 .. l
      BY <2>4, <2>7
    <3>2. QED
      BY <1>5, <2>4, <3>1
  <2>8. QED
    BY <2>2, <2>3, <2>5, <2>6, <2>7
<1>8. QED
  BY <1>1, <1>2, <1>4, <1>5, <1>6, <1>7 DEF Ready

(* A list all of whose calls are answered reads as the model needs it. *)
LEMMA ReadyReads ==
  ASSUME NEW agent, NEW messages, Ready(agent, messages, 0)
  PROVE  /\ CallsAnswered(messages)
         /\ LastSpoken(messages) \in {Len(past) + 1 : past \in Past[agent]}
         /\ Spoken(messages) = FirstSpoken(messages) .. LastSpoken(messages)
BY RepliedReads, SaidIs DEF Ready

-----------------------------------------------------------------------------
(* The invariant.  A turn that still works has started nothing and failed at nothing,
   a reply's calls are still to be handled as long as their replies are missing, and
   every turn below the last waits for the one above it. *)

Working == {"opening", "asking", "streaming", "plain", "calling", "waiting"}

TurnInv(t) ==
  /\ t.pc \in Working => t.started = 0 /\ ~t.failed
  /\ t.pc = "opening" => ~t.called
  /\ t.pc \in {"opening", "asking", "plain", "calling", "waiting"} \/ t.failed => ~t.text
  /\ t.started > 0 => /\ t.started = 1 /\ t.source = "workflow" /\ t.pc \in {"saving", "done"}
                      /\ t.pc = "done" => t.recorded
  /\ t.pc = "done" /\ t.called /\ ~t.recorded => t.source = "budget"
  /\ \A i \in DOMAIN t.todo : t.todo[i].kind = "delegate" => t.todo[i].to \in Agents
  /\ t.pc = "waiting" => t.todo # <<>>
  /\ t.pc \in {"asking", "streaming", "plain"} => Ready(t.agent, t.messages, 0)
  /\ t.pc \in {"streaming", "plain"} => Tokens(t.messages) + SchemaOf(t.agent) <= Budget
  /\ t.pc \in {"calling", "waiting"} => Ready(t.agent, t.messages, Len(t.todo))

Good(t) == t \in Turn /\ TurnInv(t)

Inv ==
  /\ streams \in BOOLEAN
  /\ turns \in Seq(Turn)
  /\ \A i \in 1 .. Len(turns) : TurnInv(turns[i])
  /\ \A i \in 1 .. Len(turns) : i < Len(turns) => turns[i].pc = "waiting"
  /\ ChainBounded

LEMMA NewTurnGood ==
  ASSUME NEW agent \in Agents, NEW request \in Request
  PROVE  Good(NewTurn(agent, request)) /\ NewTurn(agent, request).agent = agent
         /\ NewTurn(agent, request).pc = "opening"
<1> DEFINE t == NewTurn(agent, request)
<1>1. /\ t.agent = agent /\ t.request = request /\ t.pc = "opening" /\ t.started = 0 /\ t.failed = FALSE
      /\ t.called = FALSE /\ t.text = FALSE /\ t.todo = <<>> /\ t.round = 0 /\ t.known = FALSE
      /\ t.messages = <<>> /\ t.source = "none" /\ t.recorded = FALSE
  BY DEF NewTurn
<1>2. t \in Turn
  <2>1. 0 \in 0 .. MaxRounds - 1
    BY LoopAssumption
  <2>2. <<>> \in Seq(Tool) /\ <<>> \in Seq(Message) /\ "none" \in Source
    BY DEF Source
  <2>3. QED
    BY <2>1, <2>2 DEF NewTurn, Turn
<1>3. DOMAIN t.todo = {}
  BY <1>1
<1> HIDE DEF t
<1>4. TurnInv(t)
  BY <1>1, <1>3 DEF TurnInv, Working
<1>5. QED
  BY <1>1, <1>2, <1>4 DEF Good, t

LEMMA BlockedGood ==
  ASSUME NEW t, Good(t), t.pc = "opening"
  PROVE  Good(Unsaved(t, "risk")) /\ Unsaved(t, "risk").agent = t.agent
<1>1. PICK u : u = Unsaved(t, "risk")
  OBVIOUS
<1>2. u = [t EXCEPT !.source = "risk", !.pc = "done"] /\ t \in Turn
  BY <1>1 DEF Unsaved, Good
<1>3. u \in Turn
  BY <1>2 DEF Turn, Source
<1>4. /\ u.agent = t.agent /\ u.pc = "done" /\ u.started = t.started /\ u.failed = t.failed
      /\ u.called = t.called /\ u.text = t.text /\ u.todo = t.todo
  BY <1>2 DEF Turn
<1>5. TurnInv(u)
  BY <1>4 DEF Good, TurnInv, Working
<1>6. QED
  BY <1>1, <1>3, <1>4, <1>5 DEF Good

(* A turn that may end now, whatever is said. *)
Closable(t) ==
  /\ t \in Turn /\ t.started = 0 /\ (t.failed => ~t.text)
  /\ \A i \in DOMAIN t.todo : t.todo[i].kind = "delegate" => t.todo[i].to \in Agents

LEMMA SayingGood ==
  ASSUME NEW t, Closable(t), NEW source \in Source
  PROVE  Good(Saying(t, source)) /\ Saying(t, source).agent = t.agent
<1>1. PICK u : u = Saying(t, source)
  OBVIOUS
<1>2. u = [t EXCEPT !.source = source, !.pc = "saving"] /\ t \in Turn
  BY <1>1 DEF Saying, Closable
<1>3. u \in Turn
  BY <1>2 DEF Turn
<1>4. /\ u.agent = t.agent /\ u.pc = "saving" /\ u.started = 0 /\ u.failed = t.failed
      /\ u.text = t.text /\ u.todo = t.todo
  BY <1>2 DEF Turn, Closable
<1>5. TurnInv(u)
  BY <1>4 DEF Closable, TurnInv, Working
<1>6. QED
  BY <1>1, <1>3, <1>4, <1>5 DEF Good

LEMMA UnsavedGood ==
  ASSUME NEW t, Closable(t), NEW source \in Source, t.called => source = "budget"
  PROVE  Good(Unsaved(t, source)) /\ Unsaved(t, source).agent = t.agent
<1>1. PICK u : u = Unsaved(t, source)
  OBVIOUS
<1>2. u = [t EXCEPT !.source = source, !.pc = "done"] /\ t \in Turn
  BY <1>1 DEF Unsaved, Closable
<1>3. u \in Turn
  BY <1>2 DEF Turn
<1>4. /\ u.agent = t.agent /\ u.pc = "done" /\ u.started = 0 /\ u.failed = t.failed
      /\ u.text = t.text /\ u.todo = t.todo /\ u.called = t.called /\ u.source = source
  BY <1>2 DEF Turn, Closable
<1>5. TurnInv(u)
  BY <1>4 DEF Closable, TurnInv, Working
<1>6. QED
  BY <1>1, <1>3, <1>4, <1>5 DEF Good

LEMMA WorkflowSaid ==
  ASSUME NEW t, Closable(t),
         NEW u, \/ u = [Saying(t, "workflow") EXCEPT !.called = TRUE, !.started = @ + 1]
                \/ u = [Saying(t, "workflow") EXCEPT !.started = 1]
  PROVE  Good(u) /\ u.agent = t.agent
<1>1. PICK s : s = Saying(t, "workflow")
  OBVIOUS
<1>2. s = [t EXCEPT !.source = "workflow", !.pc = "saving"] /\ t \in Turn
  BY <1>1 DEF Saying, Closable
<1>3. /\ s \in Turn /\ s.agent = t.agent /\ s.pc = "saving" /\ s.source = "workflow" /\ s.started = 0
      /\ s.failed = t.failed /\ s.text = t.text /\ s.todo = t.todo
  BY <1>2 DEF Turn, Source, Closable
<1>4. u = [s EXCEPT !.called = TRUE, !.started = 1] \/ u = [s EXCEPT !.started = 1]
  <2>1. s.started + 1 = 1
    BY <1>3
  <2>2. QED
    BY <1>1, <2>1
<1>5. u \in Turn
  <2>1. s \in Turn /\ 1 \in Nat
    BY <1>3
  <2>2. CASE u = [s EXCEPT !.called = TRUE, !.started = 1]
    BY <2>1, <2>2 DEF Turn
  <2>3. CASE u = [s EXCEPT !.started = 1]
    BY <2>1, <2>3 DEF Turn
  <2>4. QED
    BY <1>4, <2>2, <2>3
<1>6. /\ u.agent = t.agent /\ u.pc = "saving" /\ u.source = "workflow" /\ u.started = 1
      /\ u.failed = t.failed /\ u.text = t.text /\ u.todo = t.todo
  BY <1>3, <1>4 DEF Turn
<1>7. TurnInv(u)
  BY <1>6 DEF Closable, TurnInv, Working
<1>8. QED
  BY <1>5, <1>6, <1>7 DEF Good

LEMMA GuardrailGood ==
  ASSUME NEW t, Closable(t), NEW u \in Guardrail(t)
  PROVE  Good(u) /\ u.agent = t.agent
<1>1. \/ u = [Saying(t, "workflow") EXCEPT !.called = TRUE, !.started = @ + 1]
      \/ u = [Saying(t, "tool") EXCEPT !.called = TRUE]
  BY DEF Guardrail
<1>2. CASE u = [Saying(t, "workflow") EXCEPT !.called = TRUE, !.started = @ + 1]
  BY <1>2, WorkflowSaid
<1>3. CASE u = [Saying(t, "tool") EXCEPT !.called = TRUE]
  <2>1. PICK s : s = Saying(t, "tool")
    OBVIOUS
  <2>2. Good(s) /\ s.agent = t.agent
    BY <2>1, SayingGood DEF Source
  <2>3. s = [t EXCEPT !.source = "tool", !.pc = "saving"] /\ t \in Turn /\ s \in Turn
    BY <2>1, <2>2 DEF Saying, Closable, Good
  <2>4. s.pc = "saving" /\ s.started = 0
    BY <2>3 DEF Turn, Closable
  <2>5. u = [s EXCEPT !.called = TRUE]
    BY <1>3, <2>1
  <2>6. u \in Turn
    BY <2>3, <2>5 DEF Turn
  <2>7. /\ u.agent = t.agent /\ u.pc = "saving" /\ u.started = 0
        /\ u.failed = s.failed /\ u.text = s.text /\ u.todo = s.todo
    BY <2>2, <2>3, <2>4, <2>5 DEF Turn
  <2>8. TurnInv(u)
    BY <2>2, <2>4, <2>7 DEF Good, TurnInv, Working
  <2>9. QED
    BY <2>6, <2>7, <2>8 DEF Good
<1>4. QED
  BY <1>1, <1>2, <1>3

LEMMA OpenGood ==
  ASSUME NEW t, Good(t), t.pc = "opening", NEW past \in Past[t.agent], NEW known \in BOOLEAN,
         NEW u, u = [t EXCEPT !.messages = Opening(past), !.known = known, !.pc = "asking"]
  PROVE  Good(u) /\ u.agent = t.agent
<1>1. t \in Turn /\ t.agent \in Agents
  BY DEF Good, Turn
<1>2. Ready(t.agent, Opening(past), 0)
  BY <1>1, OpeningReady
<1>3. Opening(past) \in Seq(Message)
  BY <1>2, ReadyType
<1>4. u \in Turn
  BY <1>1, <1>3 DEF Turn
<1>5. /\ u.agent = t.agent /\ u.pc = "asking" /\ u.started = t.started /\ u.failed = t.failed
      /\ u.text = t.text /\ u.todo = t.todo /\ u.messages = Opening(past)
  BY <1>1 DEF Turn
<1>6. TurnInv(u)
  BY <1>2, <1>5 DEF Good, TurnInv, Working
<1>7. QED
  BY <1>4, <1>5, <1>6 DEF Good

LEMMA Goes ==
  ASSUME NEW t, Good(t), t.pc \in Working
  PROVE  Closable(t)
BY DEF Good, TurnInv, Closable

LEMMA AskGood ==
  ASSUME NEW t, Good(t), t.pc = "asking", NEW prompt, prompt = Trim(t.messages, SchemaOf(t.agent)),
         NEW pc \in {"streaming", "plain"}, NEW u,
         u = IF prompt = Exceeded THEN Unsaved(t, "budget") ELSE [t EXCEPT !.messages = prompt, !.pc = pc]
  PROVE  Good(u) /\ u.agent = t.agent
<1>1. CASE prompt = Exceeded
  <2>1. Closable(t) /\ "budget" \in Source
    BY Goes DEF Working, Source
  <2>2. QED
    BY <1>1, <2>1, UnsavedGood
<1>2. CASE prompt # Exceeded
  <2>1. t \in Turn /\ Ready(t.agent, t.messages, 0)
    BY DEF Good, TurnInv
  <2>2. Ready(t.agent, prompt, 0) /\ Tokens(prompt) + SchemaOf(t.agent) <= Budget
    BY <1>2, <2>1, TrimReady
  <2>3. prompt \in Seq(Message)
    BY <2>2, ReadyType
  <2>4. u = [t EXCEPT !.messages = prompt, !.pc = pc]
    BY <1>2
  <2>5. u \in Turn
    BY <2>1, <2>3, <2>4 DEF Turn
  <2>6. /\ u.agent = t.agent /\ u.pc = pc /\ u.started = t.started /\ u.failed = t.failed
        /\ u.text = t.text /\ u.todo = t.todo /\ u.messages = prompt
    BY <2>1, <2>4 DEF Turn
  <2>7. TurnInv(u)
    BY <2>2, <2>6 DEF Good, TurnInv, Working
  <2>8. QED
    BY <2>5, <2>6, <2>7 DEF Good
<1>3. QED
  BY <1>1, <1>2

LEMMA StreamingGood ==
  ASSUME NEW t, Good(t), t.pc = "streaming", NEW u,
         u = [t EXCEPT !.text = TRUE] \/ u = [t EXCEPT !.text = FALSE, !.pc = "plain"]
  PROVE  Good(u) /\ u.agent = t.agent
<1>1. t \in Turn
  BY DEF Good
<1>2. u \in Turn
  BY <1>1 DEF Turn
<1>3. /\ u.agent = t.agent /\ u.started = t.started /\ u.failed = t.failed /\ u.todo = t.todo
      /\ u.messages = t.messages /\ u.called = t.called
      /\ u.pc = "streaming" \/ (u.pc = "plain" /\ u.text = FALSE)
  BY <1>1 DEF Turn
<1>4. TurnInv(u)
  BY <1>3 DEF Good, TurnInv, Working
<1>5. QED
  BY <1>2, <1>3, <1>4 DEF Good

LEMMA ModelFailsGood ==
  ASSUME NEW t, Good(t), t.pc \in {"streaming", "plain"}, NEW f, f = [t EXCEPT !.text = FALSE, !.failed = TRUE]
  PROVE  /\ \A u \in Guardrail(f) : Good(u) /\ u.agent = t.agent
         /\ Good(WithoutModel(f)) /\ WithoutModel(f).agent = t.agent
<1>1. t \in Turn /\ Closable(t)
  BY Goes DEF Good, Working
<1>2. f \in Turn /\ f.agent = t.agent /\ f.text = FALSE /\ f.started = t.started /\ f.todo = t.todo
  BY <1>1 DEF Turn
<1>3. Closable(f)
  BY <1>1, <1>2 DEF Closable
<1>4. {"tool_result", "retrieval", "apology"} \subseteq Source
  BY DEF Source
<1>5. Good(WithoutModel(f)) /\ WithoutModel(f).agent = t.agent
  <2>1. CASE f.called
    BY <1>2, <1>3, <1>4, <2>1, SayingGood DEF WithoutModel
  <2>2. CASE ~f.called /\ f.known
    BY <1>2, <1>3, <1>4, <2>2, SayingGood DEF WithoutModel
  <2>3. CASE ~f.called /\ ~f.known
    BY <1>2, <1>3, <1>4, <2>3, UnsavedGood DEF WithoutModel
  <2>4. QED
    BY <2>1, <2>2, <2>3
<1>6. QED
  BY <1>2, <1>3, <1>5, GuardrailGood

LEMMA WantsToolsGood ==
  ASSUME NEW t, Good(t), t.pc \in {"streaming", "plain"}, NEW calls \in Calls(t.agent), NEW u,
         u = [t EXCEPT !.text = FALSE, !.todo = calls, !.pc = "calling",
                !.messages = Append(@, [role |-> "call", size |-> 1, tag |-> Len(@), calls |-> Len(calls)])]
  PROVE  Good(u) /\ u.agent = t.agent
<1>1. t \in Turn /\ t.agent \in Agents /\ Ready(t.agent, t.messages, 0)
  BY DEF Good, TurnInv, Turn
<1>2. PICK n \in 1 .. MaxCalls[t.agent] : calls \in [1 .. n -> Offered(t.agent) \cup {Unknown}]
  BY DEF Calls
<1>3. n \in Nat /\ n # 0
  BY <1>1, LoopAssumption
<1>4. \A c \in Offered(t.agent) \cup {Unknown} : c \in Tool /\ (c.kind = "delegate" => c.to \in Agents)
  <2>1. Unknown \in Tool /\ Unknown.kind # "delegate"
    BY DEF Unknown, Tool
  <2>2. QED
    BY <1>1, <2>1, OfferedTools
<1>5. /\ calls \in [1 .. n -> Tool] /\ DOMAIN calls = 1 .. n
      /\ \A i \in 1 .. n : calls[i].kind = "delegate" => calls[i].to \in Agents
  BY <1>2, <1>4
<1>6. calls \in Seq(Tool) /\ Len(calls) = n
  BY <1>3, <1>5
<1>7. PICK m : m = [role |-> "call", size |-> 1, tag |-> Len(t.messages), calls |-> n]
  OBVIOUS
<1>8. PICK longer : longer = Append(t.messages, m)
  OBVIOUS
<1>9. Ready(t.agent, longer, n)
  BY <1>1, <1>3, <1>7, <1>8, CallReady
<1>10. longer \in Seq(Message)
  BY <1>9, ReadyType
<1>11. u = [t EXCEPT !.text = FALSE, !.todo = calls, !.pc = "calling", !.messages = longer]
  BY <1>6, <1>7, <1>8
<1>12. u \in Turn
  BY <1>1, <1>6, <1>10, <1>11 DEF Turn
<1>13. /\ u.agent = t.agent /\ u.pc = "calling" /\ u.started = t.started /\ u.failed = t.failed
       /\ u.text = FALSE /\ u.todo = calls /\ u.messages = longer
  BY <1>1, <1>11 DEF Turn
<1>14. TurnInv(u)
  BY <1>5, <1>6, <1>9, <1>13 DEF Good, TurnInv, Working
<1>15. QED
  BY <1>12, <1>13, <1>14 DEF Good

LEMMA HandledGood ==
  ASSUME NEW t, Good(t), t.pc \in {"calling", "waiting"}, t.todo # <<>>, NEW size \in Nat \ {0}
  PROVE  /\ Good(Handled(t, size)) /\ Handled(t, size).agent = t.agent
         /\ Handled(t, size).pc = "calling" /\ Handled(t, size).started = 0
         /\ Good([Handled(t, size) EXCEPT !.called = t.called])
         /\ [Handled(t, size) EXCEPT !.called = t.called].agent = t.agent
<1>1. /\ t \in Turn /\ Ready(t.agent, t.messages, Len(t.todo)) /\ t.todo \in Seq(Tool)
      /\ t.started = 0 /\ ~t.failed /\ t.text = FALSE
      /\ \A i \in DOMAIN t.todo : t.todo[i].kind = "delegate" => t.todo[i].to \in Agents
  BY DEF Good, TurnInv, Turn, Working
<1>2. PICK todo, rest : todo = t.todo /\ rest = Tail(t.todo)
  OBVIOUS
<1>3. /\ rest \in Seq(Tool) /\ Len(rest) = Len(todo) - 1 /\ Len(todo) \in Nat /\ Len(todo) # 0
      /\ \A i \in DOMAIN rest : rest[i] = todo[i + 1] /\ i + 1 \in DOMAIN todo
  BY <1>1, <1>2
<1>4. PICK m : m = [role |-> "tool", size |-> size, tag |-> Len(t.messages), calls |-> 0]
  OBVIOUS
<1>5. PICK longer : longer = Append(t.messages, m)
  OBVIOUS
<1>6. Ready(t.agent, longer, Len(rest))
  BY <1>1, <1>2, <1>3, <1>4, <1>5, ToolReady
<1>7. longer \in Seq(Message)
  BY <1>6, ReadyType
<1>8. ASSUME NEW called \in BOOLEAN, NEW u,
             u = [t EXCEPT !.todo = rest, !.called = called, !.pc = "calling", !.messages = longer]
      PROVE  Good(u) /\ u.agent = t.agent /\ u.pc = "calling" /\ u.started = 0
  <2>1. u \in Turn
    BY <1>1, <1>3, <1>7, <1>8 DEF Turn
  <2>2. /\ u.agent = t.agent /\ u.pc = "calling" /\ u.started = 0 /\ ~u.failed
        /\ u.text = FALSE /\ u.todo = rest /\ u.messages = longer
    BY <1>1, <1>8 DEF Turn
  <2>3. \A i \in DOMAIN u.todo : u.todo[i].kind = "delegate" => u.todo[i].to \in Agents
    BY <1>1, <1>2, <1>3, <2>2
  <2>4. TurnInv(u)
    BY <1>6, <2>2, <2>3 DEF TurnInv, Working
  <2>5. QED
    BY <2>1, <2>2, <2>4 DEF Good
<1>9. Handled(t, size) = [t EXCEPT !.todo = rest, !.called = TRUE, !.pc = "calling", !.messages = longer]
  BY <1>2, <1>4, <1>5 DEF Handled
<1>10. [Handled(t, size) EXCEPT !.called = t.called]
         = [t EXCEPT !.todo = rest, !.called = t.called, !.pc = "calling", !.messages = longer]
  BY <1>1, <1>9 DEF Turn
<1>11. t.called \in BOOLEAN
  BY <1>1 DEF Turn
<1>12. QED
  BY <1>8, <1>9, <1>10, <1>11

LEMMA StartGood ==
  ASSUME NEW t, Good(t), t.pc = "calling", t.todo # <<>>, NEW u,
         u = [Saying(Handled(t, 1), "workflow") EXCEPT !.started = t.started + 1]
  PROVE  Good(u) /\ u.agent = t.agent
<1>1. PICK h : h = Handled(t, 1)
  OBVIOUS
<1>2. Good(h) /\ h.agent = t.agent /\ h.pc = "calling" /\ h.started = 0
  <2>1. 1 \in Nat \ {0} /\ t.pc \in {"calling", "waiting"}
    OBVIOUS
  <2>2. QED
    BY <1>1, <2>1, HandledGood
<1>3. t.started = 0
  BY DEF Good, TurnInv, Working
<1>4. Closable(h)
  BY <1>2, Goes DEF Working
<1>5. t.started + 1 = 1
  BY <1>3
<1>6. u = [Saying(h, "workflow") EXCEPT !.started = 1]
  BY <1>1, <1>5
<1>7. QED
  BY <1>2, <1>4, <1>6, WorkflowSaid

LEMMA WaitingGood ==
  ASSUME NEW t, Good(t), t.pc = "calling", t.todo # <<>>, NEW u, u = [t EXCEPT !.pc = "waiting"]
  PROVE  Good(u) /\ u.agent = t.agent /\ u.pc = "waiting"
<1>1. t \in Turn
  BY DEF Good
<1>2. u \in Turn
  BY <1>1 DEF Turn
<1>3. /\ u.agent = t.agent /\ u.pc = "waiting" /\ u.started = t.started /\ u.failed = t.failed
      /\ u.text = t.text /\ u.todo = t.todo /\ u.messages = t.messages
  BY <1>1 DEF Turn
<1>4. TurnInv(u)
  BY <1>3 DEF Good, TurnInv, Working
<1>5. QED
  BY <1>2, <1>3, <1>4 DEF Good

LEMMA NextRoundGood ==
  ASSUME NEW t, Good(t), t.pc = "calling", t.todo = <<>>, t.round + 1 < MaxRounds,
         NEW u, u = [t EXCEPT !.round = @ + 1, !.pc = "asking"]
  PROVE  Good(u) /\ u.agent = t.agent
<1>1. t \in Turn
  BY DEF Good
<1>2. t.round + 1 \in 0 .. MaxRounds - 1
  BY <1>1, LoopAssumption DEF Turn
<1>3. u = [t EXCEPT !.round = t.round + 1, !.pc = "asking"]
  OBVIOUS
<1>4. u \in Turn
  BY <1>1, <1>2, <1>3 DEF Turn
<1>5. /\ u.agent = t.agent /\ u.pc = "asking" /\ u.started = t.started /\ u.failed = t.failed
      /\ u.text = t.text /\ u.todo = t.todo /\ u.messages = t.messages
  BY <1>1, <1>3 DEF Turn
<1>6. Len(t.todo) = 0
  OBVIOUS
<1>7. TurnInv(u)
  BY <1>5, <1>6 DEF Good, TurnInv, Working
<1>8. QED
  BY <1>4, <1>5, <1>7 DEF Good

LEMMA SaveGood ==
  ASSUME NEW t, Good(t), t.pc = "saving", NEW u, u = [t EXCEPT !.recorded = TRUE, !.pc = "done"]
  PROVE  Good(u) /\ u.agent = t.agent
<1>1. t \in Turn
  BY DEF Good
<1>2. u \in Turn
  BY <1>1 DEF Turn
<1>3. /\ u.agent = t.agent /\ u.pc = "done" /\ u.started = t.started /\ u.failed = t.failed
      /\ u.text = t.text /\ u.todo = t.todo /\ u.recorded = TRUE /\ u.source = t.source
  BY <1>1 DEF Turn
<1>4. TurnInv(u)
  BY <1>3 DEF Good, TurnInv, Working
<1>5. QED
  BY <1>2, <1>3, <1>4 DEF Good

LEMMA InvIs ==
  ASSUME Inv
  PROVE  /\ streams \in BOOLEAN /\ turns \in Seq(Turn) /\ Depth \in Nat
         /\ \A i \in 1 .. Depth : turns[i] \in Turn /\ Good(turns[i])
         /\ \A i \in 1 .. Depth : i < Depth => turns[i].pc = "waiting"
         /\ Depth <= MaxDepth + 1
         /\ \A i, j \in 1 .. Depth : turns[i].agent = turns[j].agent => i = j
         /\ \A i, j \in 1 .. Depth : Tenant[turns[i].agent] = Tenant[turns[j].agent]
         /\ turns # <<>> => Depth \in 1 .. Depth /\ Good(Top)
<1>1. turns \in Seq(Turn) /\ Depth = Len(turns) /\ Depth \in Nat
  BY DEF Inv, Depth
<1>2. \A i \in 1 .. Depth : turns[i] \in Turn /\ Good(turns[i])
  BY <1>1 DEF Inv, Good
<1>3. turns # <<>> => Depth \in 1 .. Depth
  BY <1>1
<1>4. QED
  BY <1>1, <1>2, <1>3 DEF Inv, ChainBounded, Top

(* A stack one of whose turns is another turn of the same agent, or one longer. *)
LEMMA StackInv ==
  ASSUME NEW s, s \in Seq(Turn), NEW b \in BOOLEAN,
         \A i \in 1 .. Len(s) : Good(s[i]),
         \A i \in 1 .. Len(s) : i < Len(s) => s[i].pc = "waiting",
         Len(s) <= MaxDepth + 1,
         \A i, j \in 1 .. Len(s) : s[i].agent = s[j].agent => i = j,
         \A i, j \in 1 .. Len(s) : Tenant[s[i].agent] = Tenant[s[j].agent],
         turns' = s, streams' = b
  PROVE  Inv'
<1>1. \A i \in 1 .. Len(s) : TurnInv(s[i])
  BY DEF Good
<1>2. ChainBounded'
  BY DEF ChainBounded, Depth
<1>3. QED
  BY <1>1, <1>2 DEF Inv

LEMMA BecomesInv ==
  ASSUME Inv, turns # <<>>, NEW t, Good(t), t.agent = Top.agent, Becomes(t)
  PROVE  Inv'
<1>1. PICK n \in Nat : n = Depth
  BY InvIs
<1>2. PICK s : s = turns'
  OBVIOUS
<1>3. /\ turns \in Seq(Turn) /\ Len(turns) = n /\ n \in 1 .. n
      /\ s = [turns EXCEPT ![n] = t] /\ streams' = streams /\ streams \in BOOLEAN
  BY <1>1, <1>2, InvIs DEF Becomes, Depth
<1>4. t \in Turn
  BY DEF Good
<1>5. s \in Seq(Turn) /\ Len(s) = n /\ s[n] = t /\ \A i \in 1 .. n : i # n => s[i] = turns[i]
  BY <1>3, <1>4
<1>6. \A i \in 1 .. n : s[i].agent = turns[i].agent
  BY <1>1, <1>5 DEF Top
<1>7. \A i \in 1 .. n : Good(s[i])
  BY <1>1, <1>5, InvIs
<1>8. \A i \in 1 .. n : i < n => s[i].pc = "waiting"
  BY <1>1, <1>5, InvIs
<1>9. /\ n <= MaxDepth + 1
      /\ \A i, j \in 1 .. n : s[i].agent = s[j].agent => i = j
      /\ \A i, j \in 1 .. n : Tenant[s[i].agent] = Tenant[s[j].agent]
  BY <1>1, <1>6, InvIs
<1>10. turns' = s /\ streams' = streams /\ streams \in BOOLEAN /\ s \in Seq(Turn) /\ Len(s) = n
  BY <1>2, <1>3, <1>5
<1>11. QED
  BY <1>7, <1>8, <1>9, <1>10, StackInv

LEMMA ChainIs ==
  ASSUME Inv
  PROVE  IsFiniteSet(Chain) /\ Cardinality(Chain) = Depth
<1>1. PICK n \in Nat : n = Depth
  BY InvIs
<1> DEFINE f == [i \in 1 .. n |-> turns[i].agent]
<1>2. Chain = {turns[i].agent : i \in 1 .. n}
  BY <1>1 DEF Chain
<1>3. f \in [1 .. n -> Chain]
  BY <1>2
<1>4. \A x, y \in 1 .. n : f[x] = f[y] => x = y
  BY <1>1, InvIs
<1>5. \A c \in Chain : \E x \in 1 .. n : f[x] = c
  BY <1>2
<1>6. f \in Bijection(1 .. n, Chain)
  <2> HIDE DEF f
  <2>1. QED
    BY <1>3, <1>4, <1>5 DEF Bijection, Injection, Surjection, IsInjective
<1>7. ExistsBijection(1 .. n, Chain)
  BY <1>6 DEF ExistsBijection
<1>8. IsFiniteSet(1 .. n) /\ Cardinality(1 .. n) = n
  <2>1. Cardinality(1 .. n) = IF 1 > n THEN 0 ELSE n - 1 + 1
    BY FS_Interval
  <2>2. IsFiniteSet(1 .. n)
    BY FS_Interval
  <2>3. QED
    BY <2>1, <2>2
<1>9. QED
  BY <1>1, <1>7, <1>8, FS_Bijection

LEMMA InitInv ==
  ASSUME Init
  PROVE  Inv
<1>1. PICK agent \in Roots, request \in Requests : turns = <<NewTurn(agent, request)>>
  BY DEF Init
<1>2. agent \in Agents /\ request \in Request
  BY LoopAssumption
<1>3. PICK t : t = NewTurn(agent, request)
  OBVIOUS
<1>4. Good(t) /\ t \in Turn
  BY <1>2, <1>3, NewTurnGood DEF Good
<1>5. turns = <<t>> /\ Len(turns) = 1 /\ turns[1] = t /\ turns \in Seq(Turn)
  BY <1>1, <1>3, <1>4
<1>6. ChainBounded
  <2>1. 1 <= MaxDepth + 1
    BY LoopAssumption
  <2>2. QED
    BY <1>5, <2>1 DEF ChainBounded, Depth
<1>7. QED
  BY <1>4, <1>5, <1>6 DEF Init, Inv, Good

LEMMA ReturnInv ==
  ASSUME Inv, Depth > 1, NEW size \in Nat \ {0}, BackToParent(size)
  PROVE  Inv'
<1>1. PICK n \in Nat : n = Depth
  BY InvIs
<1>2. PICK s, h : s = turns' /\ h = Handled(Parent, size)
  OBVIOUS
<1>3. /\ turns \in Seq(Turn) /\ Len(turns) = n /\ n > 1 /\ n - 1 \in 1 .. n /\ n - 1 < n
      /\ streams' = streams /\ streams \in BOOLEAN /\ Parent = turns[n - 1]
  BY <1>1, InvIs DEF Depth, Parent, BackToParent
<1>4. Good(Parent) /\ Parent.pc = "waiting" /\ Parent.todo # <<>>
  <2>1. Good(Parent) /\ Parent.pc = "waiting"
    BY <1>1, <1>3, InvIs
  <2>2. QED
    BY <2>1 DEF Good, TurnInv
<1>5. Good(h) /\ h.agent = Parent.agent /\ h \in Turn
  <2>1. Good(h) /\ h.agent = Parent.agent
    BY <1>2, <1>4, HandledGood
  <2>2. QED
    BY <2>1 DEF Good
<1>6. s = [SubSeq(turns, 1, n - 1) EXCEPT ![n - 1] = h]
  BY <1>1, <1>2 DEF BackToParent
<1>7. PICK below : below = SubSeq(turns, 1, n - 1)
  OBVIOUS
<1>8. below \in Seq(Turn) /\ Len(below) = n - 1 /\ \A i \in 1 .. n - 1 : below[i] = turns[i]
  BY <1>3, <1>7
<1>9. s \in Seq(Turn) /\ Len(s) = n - 1 /\ s[n - 1] = h /\ \A i \in 1 .. n - 1 : i # n - 1 => s[i] = turns[i]
  <2>1. PICK m \in Nat : m = n - 1 /\ m \in 1 .. m
    BY <1>3
  <2>2. below \in Seq(Turn) /\ Len(below) = m /\ s = [below EXCEPT ![m] = h]
    BY <1>6, <1>7, <1>8, <2>1
  <2>3. s \in Seq(Turn) /\ Len(s) = m /\ s[m] = h /\ \A i \in 1 .. m : i # m => s[i] = below[i]
    BY <1>5, <2>1, <2>2
  <2>4. QED
    BY <1>8, <2>1, <2>3
<1>10. \A i \in 1 .. n - 1 : i \in 1 .. n /\ s[i].agent = turns[i].agent
  BY <1>3, <1>5, <1>9
<1>11. \A i \in 1 .. n - 1 : Good(s[i])
  BY <1>1, <1>5, <1>9, <1>10, InvIs
<1>12. \A i \in 1 .. n - 1 : i < n - 1 => s[i].pc = "waiting"
  BY <1>1, <1>9, <1>10, InvIs
<1>13. /\ n - 1 <= MaxDepth + 1
       /\ \A i, j \in 1 .. n - 1 : s[i].agent = s[j].agent => i = j
       /\ \A i, j \in 1 .. n - 1 : Tenant[s[i].agent] = Tenant[s[j].agent]
  <2>1. n <= MaxDepth + 1 /\ MaxDepth \in Nat
    BY <1>1, LoopAssumption, InvIs
  <2>2. QED
    BY <1>1, <1>10, <2>1, InvIs
<1>14. QED
  BY <1>2, <1>3, <1>9, <1>11, <1>12, <1>13, StackInv

LEMMA DelegateInv ==
  ASSUME Inv, Delegate
  PROVE  Inv'
<1>1. /\ turns # <<>> /\ Good(Top) /\ Top.pc = "calling" /\ Top.todo # <<>> /\ Head(Top.todo).kind = "delegate"
  BY InvIs DEF Delegate, Next1, At
<1>2. PICK agent : agent = Head(Top.todo).to
  OBVIOUS
<1>3. CASE ~MayDelegate(agent)
  <2>1. Becomes(Handled(Top, 1))
    BY <1>2, <1>3 DEF Delegate
  <2>2. Good(Handled(Top, 1)) /\ Handled(Top, 1).agent = Top.agent
    <3>1. 1 \in Nat \ {0} /\ Top.pc \in {"calling", "waiting"}
      BY <1>1
    <3>2. QED
      BY <1>1, <3>1, HandledGood
  <2>3. QED
    BY <1>1, <2>1, <2>2, BecomesInv
<1>4. CASE MayDelegate(agent)
  <2>1. PICK asked \in Requests :
          /\ turns' = Append([turns EXCEPT ![Depth].pc = "waiting"],
                             NewTurn(agent, [asked EXCEPT !.intent = "none"]))
          /\ streams' = streams
    BY <1>2, <1>4 DEF Delegate
  <2>2. PICK request : request = [asked EXCEPT !.intent = "none"]
    OBVIOUS
  <2>3. request \in Request
    BY <2>2, LoopAssumption DEF Request
  <2>4. agent \in Agents
    <3>1. /\ \A i \in DOMAIN Top.todo : Top.todo[i].kind = "delegate" => Top.todo[i].to \in Agents
          /\ Top.todo \in Seq(Tool)
      BY <1>1 DEF Good, TurnInv, Turn
    <3>2. 1 \in DOMAIN Top.todo /\ Head(Top.todo) = Top.todo[1]
      BY <1>1, <3>1
    <3>3. QED
      BY <1>1, <1>2, <3>1, <3>2
  <2>5. PICK new, old : new = NewTurn(agent, request) /\ old = [Top EXCEPT !.pc = "waiting"]
    OBVIOUS
  <2>6. Good(new) /\ new \in Turn /\ new.agent = agent
    BY <2>3, <2>4, <2>5, NewTurnGood DEF Good
  <2>7. Good(old) /\ old \in Turn /\ old.agent = Top.agent /\ old.pc = "waiting"
    BY <1>1, <2>5, WaitingGood DEF Good
  <2>8. PICK n \in Nat : n = Depth
    BY InvIs
  <2>9. PICK s : s = turns'
    OBVIOUS
  <2>10. PICK below : below = [turns EXCEPT ![n] = old]
    OBVIOUS
  <2>11. turns \in Seq(Turn) /\ Len(turns) = n /\ n \in 1 .. n /\ Top = turns[n] /\ streams \in BOOLEAN
    BY <1>1, <2>8, InvIs DEF Depth, Top
  <2>12. below \in Seq(Turn) /\ Len(below) = n /\ below[n] = old /\ \A i \in 1 .. n : i # n => below[i] = turns[i]
    BY <2>7, <2>10, <2>11
  <2>13. s = Append(below, new)
    <3>1. [turns EXCEPT ![n].pc = "waiting"] = below
      BY <2>5, <2>10, <2>11
    <3>2. QED
      BY <2>1, <2>2, <2>5, <2>8, <2>9, <3>1
  <2>14. /\ s \in Seq(Turn) /\ Len(s) = n + 1 /\ s[n + 1] = new /\ s[n] = old
         /\ \A i \in 1 .. n : i # n => s[i] = turns[i]
    BY <2>6, <2>7, <2>11, <2>12, <2>13
  <2>15. \A i \in 1 .. n : s[i].agent = turns[i].agent
    BY <2>7, <2>11, <2>14
  <2>16. \A i \in 1 .. n + 1 : i = n + 1 \/ i \in 1 .. n
    OBVIOUS
  <2>17. \A i \in 1 .. n + 1 : Good(s[i])
    BY <2>6, <2>7, <2>8, <2>14, <2>16, InvIs
  <2>18. \A i \in 1 .. n + 1 : i < n + 1 => s[i].pc = "waiting"
    <3>1. \A i \in 1 .. n : i = n \/ i < n
      OBVIOUS
    <3>2. QED
      BY <2>7, <2>8, <2>14, <2>16, <3>1, InvIs
  <2>19. n + 1 <= MaxDepth + 1
    <3>1. Cardinality(Chain) <= MaxDepth /\ Cardinality(Chain) = n
      BY <1>4, <2>8, ChainIs DEF MayDelegate
    <3>2. QED
      BY <3>1, LoopAssumption
  <2>20. \A i \in 1 .. n : s[i].agent # agent /\ Tenant[s[i].agent] = Tenant[agent]
    <3> TAKE i \in 1 .. n
    <3>1. turns[i].agent \in Chain
      BY <2>8 DEF Chain
    <3>2. agent \notin Chain /\ Tenant[agent] = Tenant[Top.agent]
      BY <1>4 DEF MayDelegate
    <3>3. Tenant[turns[i].agent] = Tenant[turns[n].agent]
      BY <2>8, <2>11, InvIs
    <3>4. QED
      BY <2>11, <2>15, <3>1, <3>2, <3>3
  <2>21. \A i, j \in 1 .. n + 1 : s[i].agent = s[j].agent => i = j
    <3> SUFFICES ASSUME NEW i \in 1 .. n + 1, NEW j \in 1 .. n + 1, s[i].agent = s[j].agent
                 PROVE  i = j
      OBVIOUS
    <3>1. CASE i \in 1 .. n /\ j \in 1 .. n
      BY <2>8, <2>15, <3>1, InvIs
    <3>2. CASE i = n + 1 \/ j = n + 1
      BY <2>6, <2>14, <2>16, <2>20, <3>2
    <3>3. QED
      BY <2>16, <3>1, <3>2
  <2>22. \A i, j \in 1 .. n + 1 : Tenant[s[i].agent] = Tenant[s[j].agent]
    <3> SUFFICES ASSUME NEW i \in 1 .. n + 1
                 PROVE  Tenant[s[i].agent] = Tenant[agent]
      OBVIOUS
    <3>1. QED
      BY <2>6, <2>14, <2>16, <2>20
  <2>23. streams' = streams /\ s = turns'
    BY <2>1, <2>9
  <2>24. Len(s) = n + 1 /\ s \in Seq(Turn)
    BY <2>14
  <2>25. QED
    BY <2>11, <2>17, <2>18, <2>19, <2>21, <2>22, <2>23, <2>24, StackInv
<1>5. QED
  BY <1>3, <1>4

LEMMA StutterInv ==
  ASSUME Inv, turns' = turns, streams' = streams
  PROVE  Inv'
<1>1. (streams \in BOOLEAN)' /\ (turns \in Seq(Turn))' /\ Depth' = Depth
  BY DEF Inv, Depth
<1>2. (\A i \in 1 .. Len(turns) : TurnInv(turns[i]))'
  BY DEF Inv
<1>3. (\A i \in 1 .. Len(turns) : i < Len(turns) => turns[i].pc = "waiting")'
  BY DEF Inv
<1>4. ChainBounded'
  BY <1>1 DEF Inv, ChainBounded
<1>5. QED
  BY <1>1, <1>2, <1>3, <1>4 DEF Inv

LEMMA EmptyInv ==
  ASSUME Inv, turns' = <<>>, streams' = streams
  PROVE  Inv'
<1>1. (streams \in BOOLEAN)' /\ (turns \in Seq(Turn))' /\ Depth' = 0 /\ Len(turns') = 0
  BY DEF Inv, Depth
<1>2. \A i \in 1 .. Len(turns') : FALSE
  BY <1>1
<1>3. (\A i \in 1 .. Len(turns) : TurnInv(turns[i]))'
  BY <1>2
<1>4. (\A i \in 1 .. Len(turns) : i < Len(turns) => turns[i].pc = "waiting")'
  BY <1>2
<1>5. ChainBounded'
  BY <1>1, LoopAssumption DEF ChainBounded
<1>6. QED
  BY <1>1, <1>3, <1>4, <1>5 DEF Inv

LEMMA StepInv ==
  ASSUME Inv, [Next]_vars
  PROVE  Inv'
<1> USE DEF At
<1>1. ASSUME Blocked PROVE Inv'
  <2>1. turns # <<>> /\ Good(Top) /\ Top.pc = "opening"
    BY <1>1, InvIs DEF Blocked
  <2>2. QED
    BY <1>1, <2>1, BlockedGood, BecomesInv DEF Blocked
<1>2. ASSUME Open PROVE Inv'
  <2>1. turns # <<>> /\ Good(Top) /\ Top.pc = "opening"
    BY <1>2, InvIs DEF Open
  <2>2. PICK past \in Past[Top.agent], known \in BOOLEAN :
          Becomes([Top EXCEPT !.messages = Opening(past), !.known = known, !.pc = "asking"])
    BY <1>2 DEF Open
  <2>3. QED
    BY <2>1, <2>2, OpenGood, BecomesInv
<1>3. ASSUME Ask PROVE Inv'
  <2>1. turns # <<>> /\ Good(Top) /\ Top.pc = "asking"
    BY <1>3, InvIs DEF Ask
  <2>2. PICK prompt : /\ prompt = Trim(Top.messages, SchemaOf(Top.agent))
                      /\ Becomes(IF prompt = Exceeded THEN Unsaved(Top, "budget")
                                 ELSE [Top EXCEPT !.messages = prompt,
                                         !.pc = IF streams /\ Depth = 1 THEN "streaming" ELSE "plain"])
    BY <1>3 DEF Ask
  <2>3. PICK pc \in {"streaming", "plain"} : pc = IF streams /\ Depth = 1 THEN "streaming" ELSE "plain"
    OBVIOUS
  <2>4. PICK u : u = IF prompt = Exceeded THEN Unsaved(Top, "budget")
                     ELSE [Top EXCEPT !.messages = prompt, !.pc = pc]
    OBVIOUS
  <2>5. Becomes(u)
    BY <2>2, <2>3, <2>4
  <2>6. Good(u) /\ u.agent = Top.agent
    BY <2>1, <2>2, <2>4, AskGood
  <2>7. QED
    BY <2>1, <2>5, <2>6, BecomesInv
<1>4. ASSUME Delta \/ StreamFails PROVE Inv'
  <2>1. turns # <<>> /\ Good(Top) /\ Top.pc = "streaming"
    BY <1>4, InvIs DEF Delta, StreamFails
  <2>2. PICK u : /\ u = [Top EXCEPT !.text = TRUE] \/ u = [Top EXCEPT !.text = FALSE, !.pc = "plain"]
                 /\ Becomes(u)
    BY <1>4 DEF Delta, StreamFails
  <2>3. QED
    BY <2>1, <2>2, StreamingGood, BecomesInv
<1>5. ASSUME Answer PROVE Inv'
  <2>1. turns # <<>> /\ Good(Top) /\ Top.pc \in {"streaming", "plain"}
    BY <1>5, InvIs DEF Answer
  <2>2. Closable(Top)
    BY <2>1, Goes DEF Working
  <2>3. ASSUME NEW turn \in Guardrail(Top), Becomes(turn)
        PROVE  Inv'
    BY <2>1, <2>2, <2>3, GuardrailGood, BecomesInv
  <2>4. ASSUME NEW source \in {"model", WithoutText(Top)}, Becomes(Saying(Top, source))
        PROVE  Inv'
    <3>1. source \in Source
      BY DEF WithoutText, Source
    <3>2. QED
      BY <2>1, <2>2, <2>4, <3>1, SayingGood, BecomesInv
  <2>5. QED
    BY <1>5, <2>3, <2>4 DEF Answer
<1>6. ASSUME ModelFails PROVE Inv'
  <2>1. turns # <<>> /\ Good(Top) /\ Top.pc \in {"streaming", "plain"}
    BY <1>6, InvIs DEF ModelFails
  <2>2. PICK f : f = [Top EXCEPT !.text = FALSE, !.failed = TRUE]
    OBVIOUS
  <2>3. PICK u : Becomes(u) /\ (u \in Guardrail(f) \/ u = WithoutModel(f))
    BY <1>6, <2>2 DEF ModelFails
  <2>4. Good(u) /\ u.agent = Top.agent
    <3>1. /\ \A v \in Guardrail(f) : Good(v) /\ v.agent = Top.agent
          /\ Good(WithoutModel(f)) /\ WithoutModel(f).agent = Top.agent
      BY <2>1, <2>2, ModelFailsGood
    <3>2. QED
      BY <2>3, <3>1
  <2>5. QED
    BY <2>1, <2>3, <2>4, BecomesInv
<1>7. ASSUME WantsTools PROVE Inv'
  <2>1. turns # <<>> /\ Good(Top) /\ Top.pc \in {"streaming", "plain"}
    BY <1>7, InvIs DEF WantsTools
  <2>2. PICK calls \in Calls(Top.agent) :
          Becomes([Top EXCEPT !.text = FALSE, !.todo = calls, !.pc = "calling",
            !.messages = Append(@, [role |-> "call", size |-> 1, tag |-> Len(@), calls |-> Len(calls)])])
    BY <1>7 DEF WantsTools
  <2>3. QED
    BY <2>1, <2>2, WantsToolsGood, BecomesInv
<1>8. ASSUME CallUnknown \/ CallTool \/ StartWorkflow PROVE Inv'
  <2>1. /\ turns # <<>> /\ Good(Top) /\ Top.pc = "calling" /\ Top.todo # <<>>
        /\ Top.pc \in {"calling", "waiting"} /\ 1 \in Nat \ {0}
    BY <1>8, InvIs DEF CallUnknown, CallTool, StartWorkflow, Next1
  <2>2. CASE CallUnknown
    <3>1. Becomes([Handled(Top, 1) EXCEPT !.called = Top.called])
      BY <2>2 DEF CallUnknown
    <3>2. QED
      BY <2>1, <3>1, HandledGood, BecomesInv
  <2>3. CASE CallTool
    <3>1. PICK size \in Weights[Top.agent] : Becomes(Handled(Top, size))
      BY <2>3 DEF CallTool
    <3>2. size \in Nat \ {0}
      BY <2>1, LoopAssumption DEF Good, Turn
    <3>3. QED
      BY <2>1, <3>1, <3>2, HandledGood, BecomesInv
  <2>4. CASE StartWorkflow
    <3>1. Becomes([Saying(Handled(Top, 1), "workflow") EXCEPT !.started = Top.started + 1])
      BY <2>4 DEF StartWorkflow
    <3>2. QED
      BY <2>1, <3>1, StartGood, BecomesInv
  <2>5. QED
    BY <1>8, <2>2, <2>3, <2>4
<1>9. ASSUME Delegate PROVE Inv'
  BY <1>9, DelegateInv
<1>10. ASSUME Return \/ DelegateFails PROVE Inv'
  <2>1. Depth > 1 /\ \E size \in Weights[Parent.agent] \cup {1} : BackToParent(size)
    BY <1>10 DEF Return, DelegateFails
  <2>2. Parent.agent \in Agents
    <3>1. Depth - 1 \in 1 .. Depth
      BY <2>1, InvIs
    <3>2. Good(Parent)
      BY <3>1, InvIs DEF Parent
    <3>3. QED
      BY <3>2 DEF Good, Turn
  <2>3. PICK size \in Nat \ {0} : BackToParent(size)
    BY <2>1, <2>2, LoopAssumption
  <2>4. QED
    BY <2>1, <2>3, ReturnInv
<1>11. ASSUME NextRound PROVE Inv'
  <2>1. turns # <<>> /\ Good(Top) /\ Top.pc = "calling" /\ Top.todo = <<>>
    BY <1>11, InvIs DEF NextRound
  <2>2. CASE Top.round + 1 < MaxRounds
    <3>1. Becomes([Top EXCEPT !.round = @ + 1, !.pc = "asking"])
      BY <1>11, <2>2 DEF NextRound
    <3>2. QED
      BY <2>1, <2>2, <3>1, NextRoundGood, BecomesInv
  <2>3. CASE ~(Top.round + 1 < MaxRounds)
    <3>1. PICK source : /\ source \in {"model", IF Top.known THEN "retrieval" ELSE "stock"}
                        /\ Becomes(Saying(Top, source))
      BY <1>11, <2>3 DEF NextRound
    <3>2. source \in Source
      BY <3>1 DEF Source
    <3>3. Closable(Top)
      BY <2>1, Goes DEF Working
    <3>4. QED
      BY <2>1, <3>1, <3>2, <3>3, SayingGood, BecomesInv
  <2>4. QED
    BY <2>2, <2>3
<1>12. ASSUME Save PROVE Inv'
  <2>1. turns # <<>> /\ Good(Top) /\ Top.pc = "saving"
    BY <1>12, InvIs DEF Save
  <2>2. Becomes([Top EXCEPT !.recorded = TRUE, !.pc = "done"])
    BY <1>12 DEF Save
  <2>3. QED
    BY <2>1, <2>2, SaveGood, BecomesInv
<1>13. ASSUME Aborted PROVE Inv'
  <2>1. turns' = <<>> /\ streams' = streams
    BY <1>13 DEF Aborted
  <2>2. QED
    BY <2>1, EmptyInv
<1>14. ASSUME UNCHANGED vars PROVE Inv'
  <2>1. turns' = turns /\ streams' = streams
    BY <1>14 DEF vars
  <2>2. QED
    BY <2>1, StutterInv
<1>15. QED
  BY <1>1, <1>2, <1>3, <1>4, <1>5, <1>6, <1>7, <1>8, <1>9, <1>10, <1>11, <1>12, <1>13, <1>14
  DEF Next, Work

(* The invariant holds of every turn and every delegated turn, however deep the chain,
   however many calls a reply makes and however long the conversation was. *)
THEOREM Invariance == Spec => []Inv
<1>1. Init => Inv
  BY InitInv
<1>2. Inv /\ [Next]_vars => Inv'
  BY StepInv
<1>3. QED
  BY <1>1, <1>2, PTL DEF Spec

(* A turn that started a workflow started one, says what the workflow said and is
   recorded, and what a tool did in a turn is in the conversation afterwards, unless
   its reply outgrew the prompt (agent_runtime.py, the tool loop and its ways out). *)
THEOREM DeedsAreTold == Spec => []DeedsTold
<1>1. Inv => DeedsTold
  <2> SUFFICES ASSUME Inv PROVE DeedsTold
    OBVIOUS
  <2>1. \A i \in 1 .. Depth : TurnInv(turns[i])
    BY DEF Inv, Depth
  <2>2. TypeOK
    BY DEF Inv, TypeOK
  <2>3. WorkflowHasTheLastWord
    BY <2>1 DEF WorkflowHasTheLastWord, InTurns, TurnInv
  <2>4. EffectsRecorded
    BY <2>1 DEF EffectsRecorded, InTurns, TurnInv
  <2>5. QED
    BY <2>2, <2>3, <2>4 DEF DeedsTold
<1>2. QED
  BY <1>1, Invariance, PTL

(* Agents that delegate to each other never come round, never go deeper than the limit
   and never leave their tenant, whoever may delegate to whom (_make_delegate_handler). *)
THEOREM DelegationEnds == Spec => []ChainBounded
<1>1. Inv => ChainBounded
  BY DEF Inv
<1>2. QED
  BY <1>1, Invariance, PTL

(* When the model is asked again, handles calls or could not be reached, the client holds
   no text of an earlier attempt (_stream_round). *)
THEOREM TextIsCurrent == Spec => []NoStaleText
<1>1. Inv => NoStaleText
  BY DEF Inv, NoStaleText, InTurns, TurnInv, Depth
<1>2. QED
  BY <1>1, Invariance, PTL

(* What goes to the model fits the budget with the schema of the tools, has every call
   with all its replies and no reply without its call, has the user's present request
   and, before it, the latest part of the conversation without a gap, for every budget,
   every length of the conversation and all sizes (trim_messages). *)
THEOREM PromptsSound == Spec => []PromptSound
<1>1. Inv => PromptSound
  <2> SUFFICES ASSUME Inv, NEW i \in 1 .. Depth, turns[i].pc \in {"streaming", "plain"}
               PROVE  /\ Tokens(turns[i].messages) + SchemaOf(turns[i].agent) <= Budget
                      /\ CallsAnswered(turns[i].messages)
                      /\ LastSpoken(turns[i].messages) \in {Len(past) + 1 : past \in Past[turns[i].agent]}
                      /\ Spoken(turns[i].messages)
                           = FirstSpoken(turns[i].messages) .. LastSpoken(turns[i].messages)
    BY DEF PromptSound, InTurns, CallsAnswered, Spoken, FirstSpoken, LastSpoken
  <2>1. /\ Ready(turns[i].agent, turns[i].messages, 0)
        /\ Tokens(turns[i].messages) + SchemaOf(turns[i].agent) <= Budget
    BY DEF Inv, Depth, TurnInv
  <2>2. QED
    BY <2>1, ReadyReads
<1>2. QED
  BY <1>1, Invariance, PTL
================================================================================
