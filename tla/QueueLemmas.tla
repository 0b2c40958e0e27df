----------------------------- MODULE QueueLemmas -----------------------------
(***************************************************************************)
(* What the queues of the models hold after something is put on them or    *)
(* taken off.                                                              *)
(***************************************************************************)
EXTENDS SequencesExt, SequenceTheorems, WellFoundedInduction, TLAPS

\* The range of a sequence is the set of its elements.
LEMMA RangeIsElements ==
  ASSUME NEW S, NEW s \in Seq(S)
  PROVE  /\ Range(s) \subseteq S
         /\ \A x : x \in Range(s) <=> \E i \in 1 .. Len(s) : s[i] = x
BY RangeOfSeq, RangeEquality

\* Something is put at the end.
LEMMA Appended ==
  ASSUME NEW S, NEW s \in Seq(S), NEW e \in S
  PROVE  /\ Append(s, e) \in Seq(S) /\ Append(s, e) # <<>>
         /\ Range(Append(s, e)) = Range(s) \cup {e}
         /\ s # <<>> => /\ Head(Append(s, e)) = Head(s)
                        /\ Tail(Append(s, e)) = Append(Tail(s), e)
         /\ s = <<>> => Head(Append(s, e)) = e /\ Tail(Append(s, e)) = <<>>
<1>1. /\ Append(s, e) \in Seq(S) /\ Append(s, e) # <<>> /\ Len(Append(s, e)) = Len(s) + 1
      /\ \A i \in 1 .. Len(s) : Append(s, e)[i] = s[i]
      /\ Append(s, e)[Len(s) + 1] = e
  BY AppendProperties
<1>2. Range(Append(s, e)) = Range(s) \cup {e}
  <2>1. ASSUME NEW x PROVE x \in Range(Append(s, e)) <=> x \in Range(s) \/ x = e
    <3> DEFINE t == Append(s, e)
    <3>1. x \in Range(t) <=> \E i \in 1 .. Len(s) + 1 : t[i] = x
      <4>1. t \in Seq(S) /\ Len(t) = Len(s) + 1
        BY <1>1
      <4> HIDE DEF t
      <4>2. x \in Range(t) <=> \E i \in 1 .. Len(t) : t[i] = x
        BY <4>1, RangeIsElements
      <4> QED BY <4>1, <4>2
    <3>2. x \in Range(s) <=> \E i \in 1 .. Len(s) : s[i] = x
      BY RangeIsElements
    <3>3. t[Len(s) + 1] = e /\ Len(s) \in Nat /\ \A i \in 1 .. Len(s) : t[i] = s[i]
      BY <1>1, LenProperties
    <3> HIDE DEF t
    <3>4. x \in Range(t) <=> x \in Range(s) \/ x = e
      BY <3>1, <3>2, <3>3
    <3> QED BY <3>4 DEF t
  <2> QED BY <2>1
<1>3. /\ Head(Append(s, e)) = IF s = <<>> THEN e ELSE Head(s)
      /\ Tail(Append(s, e)) = IF s = <<>> THEN <<>> ELSE Append(Tail(s), e)
  BY HeadTailAppend
<1> QED BY <1>1, <1>2, <1>3

\* The first is taken off.
LEMMA Taken ==
  ASSUME NEW S, NEW s \in Seq(S), s # <<>>
  PROVE  /\ Head(s) \in S /\ Tail(s) \in Seq(S)
         /\ Range(s) = Range(Tail(s)) \cup {Head(s)}
<1>1. /\ Head(s) \in S /\ Tail(s) \in Seq(S) /\ Len(Tail(s)) = Len(s) - 1
      /\ \A i \in 1 .. Len(Tail(s)) : Tail(s)[i] = s[i + 1]
  BY HeadTailProperties
<1>2. Head(s) = s[1] /\ Len(s) \in Nat \ {0}
  BY EmptySeq
<1>3. ASSUME NEW x PROVE x \in Range(s) <=> x \in Range(Tail(s)) \/ x = Head(s)
  <2>1. x \in Range(s) <=> \E i \in 1 .. Len(s) : s[i] = x
    BY RangeIsElements
  <2>2. x \in Range(Tail(s)) <=> \E i \in 1 .. Len(s) - 1 : s[i + 1] = x
    <3> DEFINE t == Tail(s)
    <3>1. t \in Seq(S) /\ Len(t) = Len(s) - 1 /\ \A i \in 1 .. Len(t) : t[i] = s[i + 1]
      BY <1>1
    <3> HIDE DEF t
    <3>2. x \in Range(t) <=> \E i \in 1 .. Len(t) : t[i] = x
      BY <3>1, RangeIsElements
    <3>3. x \in Range(t) <=> \E i \in 1 .. Len(s) - 1 : s[i + 1] = x
      BY <3>1, <3>2
    <3> QED BY <3>3 DEF t
  <2>3. ASSUME NEW i \in 1 .. Len(s), s[i] = x, x # s[1]
        PROVE  \E j \in 1 .. Len(s) - 1 : s[j + 1] = x
    <3>1. i - 1 \in 1 .. Len(s) - 1 /\ s[(i - 1) + 1] = x
      BY <1>2, <2>3
    <3> QED BY <3>1
  <2>4. \A j \in 1 .. Len(s) - 1 : j + 1 \in 1 .. Len(s)
    BY <1>2
  <2>5. 1 \in 1 .. Len(s)
    BY <1>2
  <2> QED BY <1>2, <2>1, <2>2, <2>3, <2>4, <2>5
<1> QED BY <1>1, <1>3

\* The empty queue.
LEMMA EmptyQueue ==
  /\ \A S : <<>> \in Seq(S)
  /\ Range(<<>>) = {}
<1>1. \A S : <<>> \in Seq(S)
  BY EmptySeq
<1>2. Range(<<>>) = {}
  <2>1. \A s \in Seq({}) : Range(s) \subseteq {}
    BY RangeOfSeq
  <2> QED BY <1>1, <2>1
<1> QED BY <1>1, <1>2

\* Something is put in front.
LEMMA Prepended ==
  ASSUME NEW S, NEW s \in Seq(S), NEW e \in S
  PROVE  /\ <<e>> \o s \in Seq(S) /\ <<e>> \o s # <<>>
         /\ Head(<<e>> \o s) = e /\ Tail(<<e>> \o s) = s
         /\ Range(<<e>> \o s) = Range(s) \cup {e}
<1>1. <<e>> \in Seq(S) /\ Len(<<e>>) = 1 /\ <<e>>[1] = e
  OBVIOUS
<1>2. /\ <<e>> \o s \in Seq(S) /\ Len(<<e>> \o s) = 1 + Len(s)
      /\ \A i \in 1 .. 1 + Len(s) : (<<e>> \o s)[i] = IF i <= 1 THEN <<e>>[i] ELSE s[i - 1]
  <2>1. /\ <<e>> \o s \in Seq(S) /\ Len(<<e>> \o s) = Len(<<e>>) + Len(s)
        /\ \A i \in 1 .. Len(<<e>>) + Len(s) :
             (<<e>> \o s)[i] = IF i <= Len(<<e>>) THEN <<e>>[i] ELSE s[i - Len(<<e>>)]
    BY <1>1, ConcatProperties
  <2> QED BY <1>1, <2>1
<1> DEFINE t == <<e>> \o s
<1>3. Len(s) \in Nat /\ t \in Seq(S) /\ Len(t) = 1 + Len(s) /\ t[1] = e
      /\ \A i \in 1 .. Len(s) : t[i + 1] = s[i]
  BY <1>1, <1>2, LenProperties
<1> HIDE DEF t
<1>4. t # <<>> /\ Head(t) = e
  BY <1>3, EmptySeq
<1>5. Tail(t) = s
  <2>1. Tail(t) \in Seq(S) /\ Len(Tail(t)) = Len(s)
        /\ \A i \in 1 .. Len(Tail(t)) : Tail(t)[i] = t[i + 1]
    BY <1>3, <1>4, HeadTailProperties
  <2> QED BY <1>3, <2>1, SeqEqual
<1>6. Range(t) = Range(s) \cup {e}
  BY <1>3, <1>4, <1>5, Taken
<1> QED BY <1>3, <1>4, <1>5, <1>6 DEF t

-----------------------------------------------------------------------------
(* The same by place.                                                      *)

\* What is put at the end has the last place, and the others keep theirs.
LEMMA AppendedByPlace ==
  ASSUME NEW S, NEW s \in Seq(S), NEW e \in S
  PROVE  /\ Append(s, e) \in Seq(S) /\ Len(s) + 1 \in Nat
         /\ DOMAIN Append(s, e) = DOMAIN s \cup {Len(s) + 1}
         /\ Append(s, e)[Len(s) + 1] = e
         /\ \A k \in DOMAIN s : k \in Nat /\ 0 < k /\ k < Len(s) + 1 /\ Append(s, e)[k] = s[k]
OBVIOUS

\* When the first is taken, all others move up.
LEMMA TakenByPlace ==
  ASSUME NEW S, NEW s \in Seq(S), s # <<>>
  PROVE  /\ Tail(s) \in Seq(S) /\ 1 \in DOMAIN s /\ Head(s) = s[1] /\ s[1] \in S
         /\ \A k \in DOMAIN Tail(s) : k \in Nat /\ 0 < k /\ k + 1 \in DOMAIN s /\ Tail(s)[k] = s[k + 1]
         /\ \A k \in DOMAIN s : k \in Nat /\ 0 < k /\ (k # 1 =>
              k - 1 \in DOMAIN Tail(s) /\ Tail(s)[k - 1] = s[k])
OBVIOUS

\* What is put at the end together comes after what was there.
LEMMA JoinedByPlace ==
  ASSUME NEW S, NEW s \in Seq(S), NEW t \in Seq(S)
  PROVE  /\ s \o t \in Seq(S) /\ DOMAIN s \subseteq DOMAIN (s \o t)
         /\ \A k \in DOMAIN s : k \in Nat /\ 0 < k /\ k <= Len(s) /\ (s \o t)[k] = s[k]
         /\ \A k \in DOMAIN (s \o t) \ DOMAIN s :
              k \in Nat /\ Len(s) < k /\ k - Len(s) \in DOMAIN t /\ (s \o t)[k] = t[k - Len(s)]
         /\ \A k \in DOMAIN t : k \in Nat /\ Len(s) + k \in DOMAIN (s \o t)
                                /\ (s \o t)[Len(s) + k] = t[k]
         /\ Len(s) \in Nat
<1>1. /\ s \o t \in Seq(S) /\ Len(s) \in Nat /\ Len(t) \in Nat /\ Len(s \o t) = Len(s) + Len(t)
      /\ \A i \in 1 .. Len(s) + Len(t) :
           (s \o t)[i] = IF i <= Len(s) THEN s[i] ELSE t[i - Len(s)]
  BY ConcatProperties, LenProperties
<1>2. /\ DOMAIN s = 1 .. Len(s) /\ DOMAIN t = 1 .. Len(t)
      /\ DOMAIN (s \o t) = 1 .. Len(s) + Len(t)
  BY <1>1
<1> QED BY <1>1, <1>2

\* One element put at the end.
LEMMA AppendJoins ==
  ASSUME NEW S, NEW s \in Seq(S), NEW e \in S
  PROVE  Append(s, e) = s \o <<e>> /\ <<e>> \in Seq(S)
OBVIOUS

\* What is put at the end together is in the queue with what was there.
LEMMA Joined ==
  ASSUME NEW S, NEW s \in Seq(S), NEW t \in Seq(S)
  PROVE  s \o t \in Seq(S) /\ Range(s \o t) = Range(s) \cup Range(t)
<1> DEFINE u == s \o t
<1>1. /\ u \in Seq(S) /\ DOMAIN s \subseteq DOMAIN u /\ Len(s) \in Nat
      /\ \A k \in DOMAIN s : k \in Nat /\ 0 < k /\ k <= Len(s) /\ u[k] = s[k]
      /\ \A k \in DOMAIN u \ DOMAIN s : k - Len(s) \in DOMAIN t /\ u[k] = t[k - Len(s)]
      /\ \A k \in DOMAIN t : Len(s) + k \in DOMAIN u /\ u[Len(s) + k] = t[k]
  BY JoinedByPlace
<1> HIDE DEF u
<1>2. \A q : Range(q) = {q[k] : k \in DOMAIN q}
  BY DEF Range
<1>3. ASSUME NEW x PROVE x \in Range(u) <=> x \in Range(s) \/ x \in Range(t)
  <2>1. x \in Range(u) => x \in Range(s) \/ x \in Range(t)
    BY <1>1, <1>2
  <2>2. x \in Range(s) => x \in Range(u)
    BY <1>1, <1>2
  <2>3. x \in Range(t) => x \in Range(u)
    BY <1>1, <1>2
  <2> QED BY <2>1, <2>2, <2>3
<1> QED BY <1>1, <1>3 DEF u

-----------------------------------------------------------------------------
(* The last of one kind.  A receiver that handles in turn what a sender    *)
(* tells it ends with what the last message of a kind says: so what is     *)
(* known is right in the end when the last of the kind that is queued is   *)
(* right, and, while none is, what is known already.                       *)

\* Nothing of kind K is queued; e is, and nothing of the kind after it.
NoneIn(q, K) == \A k \in DOMAIN q : q[k] \notin K
LastIn(q, K, e) ==
  e \in K /\ \E k \in DOMAIN q : q[k] = e /\ \A j \in DOMAIN q : k < j => q[j] \notin K

\* What is put at the end is the last of its kind.
LEMMA LastAppended ==
  ASSUME NEW S, NEW s \in Seq(S), NEW e \in S, NEW K
  PROVE  /\ Append(s, e) \in Seq(S)
         /\ e \in K => /\ ~NoneIn(Append(s, e), K) /\ LastIn(Append(s, e), K, e)
                      /\ \A x : LastIn(Append(s, e), K, x) => x = e
         /\ e \notin K => /\ NoneIn(Append(s, e), K) <=> NoneIn(s, K)
                         /\ \A x : LastIn(Append(s, e), K, x) => LastIn(s, K, x)
<1> DEFINE t == Append(s, e)
<1>1. /\ t \in Seq(S) /\ Len(s) + 1 \in Nat /\ DOMAIN t = DOMAIN s \cup {Len(s) + 1}
      /\ t[Len(s) + 1] = e
      /\ \A k \in DOMAIN s : k \in Nat /\ 0 < k /\ k < Len(s) + 1 /\ t[k] = s[k]
  BY AppendedByPlace
<1> HIDE DEF t
<1>2. ASSUME e \in K
      PROVE  ~NoneIn(t, K) /\ LastIn(t, K, e) /\ \A x : LastIn(t, K, x) => x = e
  BY <1>1, <1>2 DEF NoneIn, LastIn
<1>3. ASSUME e \notin K
      PROVE  (NoneIn(t, K) <=> NoneIn(s, K)) /\ \A x : LastIn(t, K, x) => LastIn(s, K, x)
  BY <1>1, <1>3 DEF NoneIn, LastIn
<1> QED BY <1>1, <1>2, <1>3 DEF t

\* The first is taken: it was the last of its kind when none is left.
LEMMA LastTaken ==
  ASSUME NEW S, NEW s \in Seq(S), s # <<>>, NEW K
  PROVE  /\ Tail(s) \in Seq(S) /\ Head(s) \in S
         /\ \A x : LastIn(Tail(s), K, x) => LastIn(s, K, x)
         /\ NoneIn(Tail(s), K) /\ Head(s) \in K => LastIn(s, K, Head(s))
         /\ NoneIn(s, K) <=> NoneIn(Tail(s), K) /\ Head(s) \notin K
<1> DEFINE t == Tail(s)
<1>1. /\ t \in Seq(S) /\ 1 \in DOMAIN s /\ Head(s) = s[1] /\ s[1] \in S
      /\ \A k \in DOMAIN t : k \in Nat /\ 0 < k /\ k + 1 \in DOMAIN s /\ t[k] = s[k + 1]
      /\ \A k \in DOMAIN s : k \in Nat /\ 0 < k /\ (k # 1 => k - 1 \in DOMAIN t /\ t[k - 1] = s[k])
  BY TakenByPlace
<1> HIDE DEF t
<1>2. ASSUME NEW x, LastIn(t, K, x) PROVE LastIn(s, K, x)
  <2>1. PICK k \in DOMAIN t : t[k] = x /\ \A j \in DOMAIN t : k < j => t[j] \notin K
    BY <1>2 DEF LastIn
  <2>2. ASSUME NEW j \in DOMAIN s, k + 1 < j PROVE s[j] \notin K
    <3>1. j - 1 \in DOMAIN t /\ t[j - 1] = s[j] /\ k < j - 1
      BY <1>1, <2>2
    <3> QED BY <2>1, <3>1
  <2> QED BY <1>1, <1>2, <2>1, <2>2 DEF LastIn
<1>3. ASSUME NoneIn(t, K), NEW j \in DOMAIN s, 1 < j PROVE s[j] \notin K
  <2>1. j - 1 \in DOMAIN t /\ t[j - 1] = s[j]
    BY <1>1, <1>3
  <2> QED BY <1>3, <2>1 DEF NoneIn
<1>4. NoneIn(t, K) /\ Head(s) \in K => LastIn(s, K, Head(s))
  BY <1>1, <1>3 DEF LastIn
<1>5. NoneIn(s, K) <=> NoneIn(t, K) /\ Head(s) \notin K
  <2>1. ASSUME NoneIn(s, K), NEW k \in DOMAIN t PROVE t[k] \notin K
    BY <1>1, <2>1 DEF NoneIn
  <2>2. ASSUME NoneIn(t, K), s[1] \notin K, NEW k \in DOMAIN s PROVE s[k] \notin K
    <3>1. k # 1 => s[k] \notin K
      BY <1>1, <1>3, <2>2
    <3> QED BY <2>2, <3>1
  <2> QED BY <1>1, <2>1, <2>2 DEF NoneIn
<1> QED BY <1>1, <1>2, <1>4, <1>5 DEF t

\* What is put at the end together has the last, if it has one of the kind.
LEMMA LastJoined ==
  ASSUME NEW S, NEW s \in Seq(S), NEW t \in Seq(S), NEW K
  PROVE  /\ NoneIn(s \o t, K) <=> NoneIn(s, K) /\ NoneIn(t, K)
         /\ NoneIn(t, K) => \A x : LastIn(s \o t, K, x) => LastIn(s, K, x)
         /\ ~NoneIn(t, K) => \A x : LastIn(s \o t, K, x) => x \in K /\ \E k \in DOMAIN t : t[k] = x
<1> DEFINE u == s \o t
           n == Len(s)
<1>1. /\ DOMAIN s \subseteq DOMAIN u /\ n \in Nat
      /\ \A k \in DOMAIN s : k \in Nat /\ k <= n /\ u[k] = s[k]
      /\ \A k \in DOMAIN u \ DOMAIN s : k \in Nat /\ n < k /\ k - n \in DOMAIN t /\ u[k] = t[k - n]
      /\ \A k \in DOMAIN t : k \in Nat /\ n + k \in DOMAIN u /\ u[n + k] = t[k]
  BY JoinedByPlace
<1> HIDE DEF u, n
<1>2. NoneIn(u, K) <=> NoneIn(s, K) /\ NoneIn(t, K)
  BY <1>1 DEF NoneIn
<1>3. ASSUME NoneIn(t, K), NEW x, LastIn(u, K, x) PROVE LastIn(s, K, x)
  BY <1>1, <1>3 DEF NoneIn, LastIn
<1>4. ASSUME ~NoneIn(t, K), NEW x, LastIn(u, K, x) PROVE x \in K /\ \E k \in DOMAIN t : t[k] = x
  <2>1. PICK i \in DOMAIN t : t[i] \in K
    BY <1>4 DEF NoneIn
  <2>2. PICK k \in DOMAIN u : u[k] = x /\ \A j \in DOMAIN u : k < j => u[j] \notin K
    BY <1>4 DEF LastIn
  <2>3. n + i \in DOMAIN u /\ u[n + i] \in K /\ i \in Nat
    BY <1>1, <2>1
  <2>4. k \in DOMAIN s => i > 0
    <3>1. i > 0
      BY <2>1
    <3> QED BY <3>1
  <2>5. k \notin DOMAIN s
    BY <1>1, <2>2, <2>3, <2>4
  <2> QED BY <1>1, <1>4, <2>2, <2>5 DEF LastIn
<1> QED BY <1>2, <1>3, <1>4 DEF u

\* The empty queue has none, and a queue that has none has no last.
LEMMA NoneHasNoLast ==
  ASSUME NEW K
  PROVE  /\ <<>> \in Seq({}) /\ NoneIn(<<>>, K) /\ \A x : ~LastIn(<<>>, K, x)
         /\ \A q, x : NoneIn(q, K) => ~LastIn(q, K, x)
BY DEF NoneIn, LastIn

\* A set of naturals that is not empty has a least element.
LEMMA NatMinimum ==
  ASSUME NEW T, T \subseteq Nat, T # {}
  PROVE  \E x \in T : \A y \in T : x <= y
<1> DEFINE R == OpToRel(<, Nat)
<1>1. IsWellFoundedOn(R, Nat)
  BY NatLessThanWellFounded
<1>2. \A x, y \in Nat : <<y, x>> \in R <=> y < x
  BY DEF OpToRel
<1> HIDE DEF R
<1>3. PICK x \in T : \A y \in T : ~ (<<y, x>> \in R)
  BY <1>1, WFMin
<1>4. ASSUME NEW y \in T PROVE x <= y
  <2>1. x \in Nat /\ y \in Nat /\ ~ (<<y, x>> \in R)
    BY <1>3
  <2>2. ~ (y < x)
    BY <1>2, <2>1
  <2> QED BY <2>1, <2>2
<1> QED BY <1>3, <1>4

\* If there is one of a kind, there is a last one.
LEMMA LastExists ==
  ASSUME NEW S, NEW s \in Seq(S), NEW K, ~NoneIn(s, K)
  PROVE  \E x : LastIn(s, K, x)
<1> DEFINE T == {n \in Nat : \E k \in DOMAIN s : s[k] \in K /\ n = Len(s) - k}
<1>1. Len(s) \in Nat /\ \A k \in DOMAIN s : k \in Nat /\ k <= Len(s)
  OBVIOUS
<1>2. T # {} /\ T \subseteq Nat
  <2>1. PICK k \in DOMAIN s : s[k] \in K
    BY DEF NoneIn
  <2>2. Len(s) - k \in T
    BY <1>1, <2>1
  <2> QED BY <2>2
<1>3. PICK n \in T : \A y \in T : n <= y
  <2> HIDE DEF T
  <2> QED BY <1>2, NatMinimum
<1>4. PICK k \in DOMAIN s : s[k] \in K /\ n = Len(s) - k
  OBVIOUS
<1>5. ASSUME NEW j \in DOMAIN s, k < j, s[j] \in K PROVE FALSE
  <2>1. Len(s) - j \in T
    BY <1>1, <1>5
  <2>2. n <= Len(s) - j
    BY <1>3, <2>1
  <2> QED BY <1>1, <1>4, <1>5, <2>2
<1> QED BY <1>4, <1>5 DEF LastIn

=============================================================================
