----------------------------- MODULE ListLemmas -----------------------------
(* Facts about lists that the proofs of the kernel's modules share.        *)
EXTENDS Naturals, Sequences, SequencesExt, TLAPS

-----------------------------------------------------------------------------
(* Lists: what list_push_back() and list_pop_front() do to the elements.   *)

LEMMA AppendElements ==
    ASSUME NEW S, NEW q \in Seq(S), NEW e \in S
    PROVE  /\ Append(q, e) \in Seq(S)
           /\ Append(q, e) # <<>>
           /\ ToSet(Append(q, e)) = ToSet(q) \cup {e}
           /\ IsInjective(q) /\ e \notin ToSet(q) => IsInjective(Append(q, e))
  <1>1. /\ Append(q, e) \in Seq(S)
        /\ Len(q) \in Nat /\ DOMAIN q = 1 .. Len(q)
        /\ DOMAIN Append(q, e) = 1 .. Len(q) + 1
        /\ Append(q, e)[Len(q) + 1] = e
        /\ \A i \in 1 .. Len(q) : Append(q, e)[i] = q[i]
    OBVIOUS
  <1>0. Append(q, e) # <<>>
    BY <1>1
  <1>2. ToSet(Append(q, e)) = ToSet(q) \cup {e}
    <2>1. ASSUME NEW x \in ToSet(Append(q, e)) PROVE x \in ToSet(q) \cup {e}
      <3>1. PICK i \in 1 .. Len(q) + 1 : x = Append(q, e)[i]
        BY <1>1 DEF ToSet
      <3>2. i \in 1 .. Len(q) \/ i = Len(q) + 1
        BY <1>1
      <3> QED BY <3>1, <3>2, <1>1 DEF ToSet
    <2>2. ASSUME NEW x \in ToSet(q) PROVE x \in ToSet(Append(q, e))
      <3>1. PICK i \in 1 .. Len(q) : x = q[i]
        BY <1>1 DEF ToSet
      <3>2. i \in 1 .. Len(q) + 1
        BY <1>1
      <3> QED BY <3>1, <3>2, <1>1 DEF ToSet
    <2>3. e \in ToSet(Append(q, e))
      <3>1. Len(q) + 1 \in 1 .. Len(q) + 1
        BY <1>1
      <3> QED BY <3>1, <1>1 DEF ToSet
    <2> QED BY <2>1, <2>2, <2>3
  <1>3. IsInjective(q) /\ e \notin ToSet(q) => IsInjective(Append(q, e))
    BY DEF ToSet, IsInjective
  <1> QED BY <1>0, <1>1, <1>2, <1>3

LEMMA TailElements ==
    ASSUME NEW S, NEW q \in Seq(S), q # <<>>
    PROVE  /\ Head(q) \in S
           /\ Head(q) \in ToSet(q)
           /\ Tail(q) \in Seq(S)
           /\ ToSet(q) = ToSet(Tail(q)) \cup {Head(q)}
           /\ IsInjective(q) => IsInjective(Tail(q)) /\ Head(q) \notin ToSet(Tail(q))
  <1>1. Head(q) \in S /\ Tail(q) \in Seq(S)
    OBVIOUS
  <1>2. Len(q) \in Nat \ {0} /\ DOMAIN q = 1 .. Len(q) /\ Head(q) = q[1]
    OBVIOUS
  <1>3. DOMAIN Tail(q) = 1 .. Len(q) - 1 /\ \A i \in 1 .. Len(q) - 1 : Tail(q)[i] = q[i + 1]
    BY <1>2
  <1>4. Head(q) \in ToSet(q)
    BY <1>2 DEF ToSet
  <1>5. ASSUME NEW x \in ToSet(q) PROVE x \in ToSet(Tail(q)) \cup {Head(q)}
    <2>1. PICK i \in 1 .. Len(q) : x = q[i]
      BY <1>2 DEF ToSet
    <2>2. CASE i = 1
      BY <2>1, <2>2, <1>2
    <2>3. CASE i # 1
      <3>1. i - 1 \in 1 .. Len(q) - 1 /\ Tail(q)[i - 1] = x
        BY <2>1, <2>3, <1>2, <1>3
      <3> QED BY <3>1, <1>3 DEF ToSet
    <2> QED BY <2>2, <2>3
  <1>6. ASSUME NEW x \in ToSet(Tail(q)) PROVE x \in ToSet(q)
    <2>1. PICK i \in 1 .. Len(q) - 1 : x = q[i + 1]
      BY <1>3 DEF ToSet
    <2> QED BY <2>1, <1>2 DEF ToSet
  <1>7. ASSUME IsInjective(q)
        PROVE  IsInjective(Tail(q)) /\ Head(q) \notin ToSet(Tail(q))
    BY <1>2, <1>3, <1>7 DEF ToSet, IsInjective
  <1> QED BY <1>1, <1>4, <1>5, <1>6, <1>7

LEMMA ConcatElements ==
    ASSUME NEW S, NEW p \in Seq(S), NEW q \in Seq(S)
    PROVE  /\ p \o q \in Seq(S)
           /\ q = <<>> => p \o q = p
           /\ q # <<>> => p \o q # <<>>
  OBVIOUS

LEMMA EmptyLen ==
    ASSUME NEW S, NEW q \in Seq(S)
    PROVE  q # <<>> <=> Len(q) # 0
  OBVIOUS

LEMMA ConcatOne ==
    ASSUME NEW S, NEW q \in Seq(S), NEW e \in S
    PROVE  q \o <<e>> = Append(q, e)
  OBVIOUS

LEMMA ConcatKeeps ==
    ASSUME NEW S, NEW p \in Seq(S), NEW q \in Seq(S)
    PROVE  p \o q \in Seq(S) /\ ToSet(p) \subseteq ToSet(p \o q)
  <1>1. /\ DOMAIN p = 1 .. Len(p) /\ Len(p) \in Nat /\ Len(q) \in Nat
        /\ p \o q \in Seq(S) /\ DOMAIN (p \o q) = 1 .. Len(p) + Len(q)
        /\ \A i \in 1 .. Len(p) : (p \o q)[i] = p[i]
    OBVIOUS
  <1>2. ASSUME NEW x \in ToSet(p) PROVE x \in ToSet(p \o q)
    <2>1. PICK i \in 1 .. Len(p) : x = p[i]
      BY <1>1 DEF ToSet
    <2>2. i \in 1 .. Len(p) + Len(q) /\ (p \o q)[i] = x
      BY <1>1, <2>1
    <2> QED BY <1>1, <2>2 DEF ToSet
  <1> QED BY <1>1, <1>2
=============================================================================
