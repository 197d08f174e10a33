---------------------------- MODULE StackLemmas ----------------------------
(***************************************************************************)
(* What pushing, popping and replacing the last element do to a sequence   *)
(* used as a stack: the calls nested in the controller, the dialogs open   *)
(* in the main window.                                                     *)
(***************************************************************************)
EXTENDS Naturals, Sequences, SequenceTheorems, TLAPS

LEMMA PushOnStack ==
    ASSUME NEW S, NEW s \in Seq(S), NEW f \in S
    PROVE  LET t == Append(s, f)
           IN  t \in Seq(S) /\ Len(t) = Len(s) + 1 /\ t[Len(t)] = f
  OBVIOUS

LEMMA PopFromStack ==
    ASSUME NEW S, NEW s \in Seq(S), s # <<>>
    PROVE  LET t == SubSeq(s, 1, Len(s) - 1)
           IN  t \in Seq(S) /\ Len(t) = Len(s) - 1 /\ (Len(s) = 1 => t = <<>>)
<1> DEFINE n == Len(s) - 1
<1>1. Len(s) \in Nat \ {0}
  BY EmptySeq
<1>2. \A i \in 1 .. n : s[i] \in S
  BY <1>1, ElementOfSeq
<1>3. n \in Nat /\ (Len(s) = 1 => n = 0)
  BY <1>1
<1> HIDE DEF n
<1>4. SubSeq(s, 1, n) \in Seq(S)
  BY <1>2, <1>3, SubSeqProperties
<1>5. Len(SubSeq(s, 1, n)) = n
  <2>1. Len(SubSeq(s, 1, n)) = IF 1 <= n THEN n - 1 + 1 ELSE 0
    BY <1>2, <1>3, SubSeqProperties
  <2>2. QED
    BY <1>3, <2>1
<1>6. n = 0 => SubSeq(s, 1, n) = <<>>
  BY <1>3, SubSeqEmpty
<1>7. QED
  BY <1>3, <1>4, <1>5, <1>6, Zenon DEF n

LEMMA ReplaceTopOfStack ==
    ASSUME NEW S, NEW s \in Seq(S), s # <<>>, NEW f \in S
    PROVE  LET t == [s EXCEPT ![Len(s)] = f]
           IN  t \in Seq(S) /\ Len(t) = Len(s) /\ t[Len(t)] = f
  OBVIOUS

=============================================================================
