------------------------ MODULE ConversationStoreProofs ------------------------
(***************************************************************************)
(* What the operations of ConversationStore do to its tables, for the      *)
(* proofs about the modules that use it.                                   *)
(***************************************************************************)
EXTENDS ConversationStore, TLAPS

-----------------------------------------------------------------------------
(* The list of conversations. *)

LEMMA WithoutType ==
  ASSUME NEW S, NEW s \in Seq(S), NEW c
  PROVE  /\ Without(s, c) \in Seq(S)
         /\ ToSet(Without(s, c)) \subseteq ToSet(s)
         /\ ToSet(s) \ {c} \subseteq ToSet(Without(s, c))
         /\ Len(Without(s, c)) = IF c \in ToSet(s) THEN Len(s) - 1 ELSE Len(s)
  <1>1. CASE c \notin ToSet(s)
    BY <1>1 DEF Without
  <1>2. CASE c \in ToSet(s)
    <2> DEFINE i == CHOOSE j \in DOMAIN s : s[j] = c
    <2>1. i \in DOMAIN s /\ s[i] = c /\ DOMAIN s = 1 .. Len(s) /\ Len(s) \in Nat
      BY <1>2 DEF ToSet
    <2>2. Without(s, c) = RemoveAt(s, i)
      BY <1>2, Zenon DEF Without
    <2> HIDE DEF i
    <2> DEFINE front == SubSeq(s, 1, i - 1)
               back == SubSeq(s, i + 1, Len(s))
    <2>3. /\ front \in Seq(S) /\ Len(front) = i - 1
          /\ \A j \in 1 .. i - 1 : front[j] = s[j]
      BY <2>1
    <2>4. /\ back \in Seq(S) /\ Len(back) = Len(s) - i
          /\ \A j \in 1 .. Len(s) - i : back[j] = s[j + i]
      BY <2>1
    <2>5. RemoveAt(s, i) = front \o back
      BY DEF RemoveAt
    <2> HIDE DEF front, back
    <2>6. /\ Without(s, c) \in Seq(S) /\ Len(Without(s, c)) = Len(s) - 1
          /\ \A j \in 1 .. i - 1 : Without(s, c)[j] = s[j]
          /\ \A j \in i .. Len(s) - 1 : Without(s, c)[j] = s[j + 1]
      <3>1. /\ front \o back \in Seq(S) /\ Len(front \o back) = (i - 1) + (Len(s) - i)
            /\ \A j \in 1 .. i - 1 : (front \o back)[j] = front[j]
            /\ \A j \in i .. Len(s) - 1 : (front \o back)[j] = back[j - (i - 1)]
        <4>1. Len(front) \in Nat /\ Len(back) \in Nat /\ i - 1 \in Nat /\ Len(s) - i \in Nat
          BY <2>1, <2>3, <2>4
        <4>2. /\ front \o back \in Seq(S) /\ Len(front \o back) = Len(front) + Len(back)
              /\ \A j \in 1 .. Len(front) : (front \o back)[j] = front[j]
              /\ \A j \in Len(front) + 1 .. Len(front) + Len(back) :
                   (front \o back)[j] = back[j - Len(front)]
          BY <2>3, <2>4
        <4>3. /\ \A j \in 1 .. i - 1 : j \in 1 .. Len(front)
              /\ \A j \in i .. Len(s) - 1 : j \in Len(front) + 1 .. Len(front) + Len(back)
          BY <2>1, <2>3, <2>4, <4>1
        <4>4. Len(front) = i - 1 /\ Len(back) = Len(s) - i
          BY <2>3, <2>4
        <4> QED
          BY <4>2, <4>3, <4>4
      <3>2. \A j \in i .. Len(s) - 1 : j - (i - 1) \in 1 .. Len(s) - i
        BY <2>1
      <3>3. \A j \in i .. Len(s) - 1 : back[j - (i - 1)] = s[j + 1]
        BY <2>1, <2>4, <3>2
      <3> QED
        BY <2>1, <2>2, <2>3, <2>5, <3>1, <3>3
    <2>7. ToSet(Without(s, c)) \subseteq ToSet(s)
      <3>1. \A j \in 1 .. Len(s) - 1 :
              \E l \in 1 .. Len(s) : Without(s, c)[j] = s[l]
        BY <2>1, <2>6
      <3>2. DOMAIN Without(s, c) = 1 .. Len(s) - 1
        BY <2>6
      <3> QED
        BY <2>1, <3>1, <3>2, Zenon DEF ToSet
    <2>8. ASSUME NEW d \in ToSet(s), d # c PROVE d \in ToSet(Without(s, c))
      <3>1. PICK j \in 1 .. Len(s) : s[j] = d
        BY <2>1 DEF ToSet
      <3>2. j # i
        BY <2>1, <2>8, <3>1
      <3>3. CASE j < i
        <4>1. j \in 1 .. Len(s) - 1 /\ Without(s, c)[j] = d
          BY <2>1, <2>6, <3>1, <3>3
        <4> QED
          BY <2>6, <4>1 DEF ToSet
      <3>4. CASE j > i
        <4>1. j - 1 \in 1 .. Len(s) - 1 /\ Without(s, c)[j - 1] = d
          BY <2>1, <2>6, <3>1, <3>4
        <4> QED
          BY <2>6, <4>1 DEF ToSet
      <3> QED
        BY <2>1, <3>2, <3>3, <3>4
    <2> QED
      BY <1>2, <2>6, <2>7, <2>8
  <1> QED
    BY <1>1, <1>2

LEMMA TouchedType ==
  ASSUME NEW S, NEW s \in Seq(S), NEW c \in S
  PROVE  /\ Touched(s, c) \in Seq(S) /\ ToSet(Touched(s, c)) = ToSet(s) \cup {c}
         /\ Len(Touched(s, c)) = IF c \in ToSet(s) THEN Len(s) ELSE Len(s) + 1
         /\ Touched(s, c)[Len(Touched(s, c))] = c
  <1> DEFINE w == Without(s, c)
  <1>1. /\ w \in Seq(S) /\ ToSet(w) \subseteq ToSet(s) /\ ToSet(s) \ {c} \subseteq ToSet(w)
        /\ Len(w) = IF c \in ToSet(s) THEN Len(s) - 1 ELSE Len(s)
    BY WithoutType
  <1>2. Touched(s, c) = Append(w, c)
    BY DEF Touched
  <1> HIDE DEF w
  <1>3. /\ Append(w, c) \in Seq(S) /\ Len(Append(w, c)) = Len(w) + 1
        /\ Append(w, c)[Len(w) + 1] = c /\ Len(w) \in Nat
        /\ \A j \in 1 .. Len(w) : Append(w, c)[j] = w[j]
    BY <1>1
  <1>4. ToSet(Append(w, c)) = ToSet(w) \cup {c}
    <2>1. DOMAIN Append(w, c) = 1 .. Len(w) + 1 /\ DOMAIN w = 1 .. Len(w)
      BY <1>1, <1>3
    <2>2. 1 .. Len(w) + 1 = (1 .. Len(w)) \cup {Len(w) + 1}
      BY <1>3
    <2> QED
      BY <1>3, <2>1, <2>2 DEF ToSet
  <1>5. Len(s) \in Nat
    OBVIOUS
  <1> QED
    BY <1>1, <1>2, <1>3, <1>4, <1>5

\* What trimming keeps is within the limit, and the conversation touched last is kept.
LEMMA KeptType ==
  ASSUME NEW S, NEW s \in Seq(S), Len(s) > 0
  PROVE  /\ Kept(s) \in Seq(S) /\ ToSet(Kept(s)) \subseteq ToSet(s)
         /\ Len(Kept(s)) <= MaxConversations
         /\ s[Len(s)] \in ToSet(Kept(s))
         /\ Len(s) <= MaxConversations => Kept(s) = s
  <1>1. Len(s) \in Nat /\ MaxConversations \in Nat /\ MaxConversations > 0 /\ DOMAIN s = 1 .. Len(s)
    BY StoreAssumption
  <1>2. CASE Len(s) <= MaxConversations
    BY <1>1, <1>2 DEF Kept, ToSet
  <1>3. CASE Len(s) > MaxConversations
    <2> DEFINE m == Len(s) - MaxConversations
    <2>1. Kept(s) = SubSeq(s, m + 1, Len(s))
      BY <1>3 DEF Kept, Trimmed
    <2>2. m \in Nat /\ m < Len(s)
      BY <1>1, <1>3
    <2>3. /\ Kept(s) \in Seq(S) /\ Len(Kept(s)) = Len(s) - m
          /\ \A j \in 1 .. Len(s) - m : Kept(s)[j] = s[j + m]
      BY <1>1, <2>1, <2>2
    <2>4. ToSet(Kept(s)) \subseteq ToSet(s)
      <3>1. DOMAIN Kept(s) = 1 .. Len(s) - m
        BY <2>3
      <3>2. \A j \in 1 .. Len(s) - m : j + m \in 1 .. Len(s)
        BY <1>1, <2>2
      <3> QED
        BY <1>1, <2>3, <3>1, <3>2, Zenon DEF ToSet
    <2>5. Kept(s)[Len(s) - m] = s[Len(s)] /\ Len(s) - m \in 1 .. Len(Kept(s))
      BY <1>1, <2>2, <2>3
    <2>6. s[Len(s)] \in ToSet(Kept(s))
      BY <2>3, <2>5 DEF ToSet
    <2> QED
      BY <1>1, <1>3, <2>3, <2>4, <2>6
  <1> QED
    BY <1>1, <1>2, <1>3
=============================================================================
