--------------------------- MODULE SequenceFacts ---------------------------
(***************************************************************************)
(* Sequences as tables and logs: an entry is replaced or added.  And the   *)
(* least of some numbers, which stands in for induction.                   *)
(***************************************************************************)
EXTENDS Naturals, Sequences, TLAPS, SequenceTheorems, WellFoundedInduction

(* A table keeps its type when it may hold more.                           *)
LEMMA WidenedSeq ==
  ASSUME NEW S, NEW T, S \subseteq T, NEW s \in Seq(S)
  PROVE  s \in Seq(T)
  OBVIOUS

(* A row is replaced.                                                      *)
LEMMA UpdatedSeq ==
  ASSUME NEW S, NEW T, S \subseteq T, NEW s \in Seq(S), NEW i \in DOMAIN s, NEW e \in T
  PROVE  /\ [s EXCEPT ![i] = e] \in Seq(T)
         /\ Len([s EXCEPT ![i] = e]) = Len(s)
         /\ DOMAIN [s EXCEPT ![i] = e] = DOMAIN s
         /\ [s EXCEPT ![i] = e][i] = e
         /\ \A j \in DOMAIN s : j # i => [s EXCEPT ![i] = e][j] = s[j]
<1>1. s \in Seq(T)
  BY WidenedSeq
<1>2. QED  BY <1>1, ExceptSeq

(* A row is added.                                                         *)
LEMMA ExtendedSeq ==
  ASSUME NEW S, NEW T, S \subseteq T, NEW s \in Seq(S), NEW e \in T
  PROVE  /\ Append(s, e) \in Seq(T)
         /\ Len(Append(s, e)) = Len(s) + 1
         /\ DOMAIN Append(s, e) = DOMAIN s \cup {Len(s) + 1}
         /\ Append(s, e)[Len(s) + 1] = e
         /\ \A j \in DOMAIN s : Append(s, e)[j] = s[j]
         /\ Len(s) + 1 \notin DOMAIN s
<1>1. s \in Seq(T)
  BY WidenedSeq
<1>2. QED  BY <1>1, AppendProperties

(* Of some natural numbers there is a least one.                           *)
LEMMA LeastNatural ==
  ASSUME NEW S \in SUBSET Nat, S # {}
  PROVE  \E x \in S : \A y \in S : x <= y
<1> DEFINE Less == {p \in Nat \X Nat : p[1] < p[2]}
<1>1. IsWellFoundedOn(Less, Nat)
  BY NatLessThanWellFounded, Zenon DEF OpToRel
<1> HIDE DEF Less
<1>2. PICK x \in S : \A y \in S : ~(<<y, x>> \in Less)
  BY <1>1, WFMin
<1>3. \A y, z \in Nat : y < z => <<y, z>> \in Less
  BY DEF Less
<1>4. \A y \in S : ~(y < x)
  BY <1>2, <1>3
<1>5. QED  BY <1>4
=============================================================================
