------------------------- MODULE StorageKeysProofs -------------------------
(***************************************************************************)
(* Facts about quarantine object names, for every setting of               *)
(* QUARANTINE_PREFIX, every owner and every file id.                       *)
(***************************************************************************)
EXTENDS StorageKeys, SequenceTheorems, WellFoundedInduction, TLAPS

\* A non-empty set of naturals has a least element.
LEMMA LeastNatural ==
    ASSUME NEW T, T \subseteq Nat, T # {}
    PROVE  \E x \in T : \A y \in T : x <= y
<1>1. PICK x \in T : \A y \in T : ~ (<<y, x>> \in OpToRel(<, Nat))
  BY NatLessThanWellFounded, WFMin
<1>2. \A y \in T : ~ (y < x)
  BY <1>1, Zenon DEF OpToRel
<1>3. \A y \in T : x <= y
  BY <1>2
<1> QED
  BY <1>3

\* Min and Max of a non-empty set of positions of a sequence are such
\* positions, the least and the greatest.
LEMMA MinMaxOfPositions ==
    ASSUME NEW n \in Nat, NEW K, K \subseteq 1..n, K # {}
    PROVE  /\ Min(K) \in K /\ \A k \in K : Min(K) <= k
           /\ Max(K) \in K /\ \A k \in K : k <= Max(K)
<1>0. \A k \in K : k \in Nat /\ k <= n
  OBVIOUS
<1>1. \E x \in K : \A k \in K : x <= k
  <2>1. K \subseteq Nat
    BY <1>0
  <2> QED
    BY <2>1, LeastNatural
<1>2. \E x \in K : \A k \in K : k <= x
  <2> DEFINE R == {n - k : k \in K}
  <2>1. R \subseteq Nat /\ R # {}
    <3>1. \A k \in K : n - k \in Nat
      BY <1>0
    <3>2. PICK k \in K : TRUE
      OBVIOUS
    <3>3. n - k \in R
      OBVIOUS
    <3> QED
      BY <3>1, <3>3
  <2> HIDE DEF R
  <2>2. PICK r \in R : \A q \in R : r <= q
    BY <2>1, LeastNatural
  <2>3. PICK x \in K : r = n - x
    BY DEF R
  <2>4. \A k \in K : k <= x
    <3> SUFFICES ASSUME NEW k \in K PROVE k <= x
      OBVIOUS
    <3>1. n - k \in R
      BY DEF R
    <3>2. n - x <= n - k
      BY <2>2, <2>3, <3>1
    <3> QED
      BY <1>0, <3>2
  <2> QED
    BY <2>4
<1>3. Min(K) \in K /\ \A k \in K : Min(K) <= k
  BY <1>1 DEF Min
<1>4. Max(K) \in K /\ \A k \in K : Max(K) >= k
  BY <1>2 DEF Max
<1> QED
  BY <1>3, <1>4

\* The stripped prefix is a name; unless it is the empty string it neither
\* starts nor ends with a slash.
THEOREM RootIsStripped ==
    /\ Root \in Name
    /\ Root # <<Empty>> => Root[1] # Empty /\ Root[Len(Root)] # Empty
<1> DEFINE P == QuarantinePrefix
<1>1. P \in Seq(Segment) /\ Len(P) \in Nat /\ DOMAIN P = 1..Len(P)
  BY PrefixAssumption, LenProperties
<1>2. CASE Kept = {}
  <2>1. Root = <<Empty>>
    BY <1>2 DEF Root
  <2> QED
    BY <2>1, EmptyAssumption DEF Name
<1>3. CASE Kept # {}
  <2> DEFINE lo == Min(Kept)
             hi == Max(Kept)
  <2>1. Kept \subseteq 1..Len(P)
    BY <1>1 DEF Kept
  <2>2. lo \in Kept /\ hi \in Kept /\ lo <= hi
    BY <1>1, <1>3, <2>1, MinMaxOfPositions
  <2>3. lo \in 1..Len(P) /\ hi \in 1..Len(P) /\ P[lo] # Empty /\ P[hi] # Empty
    BY <2>1, <2>2 DEF Kept
  <2>4. Root = SubSeq(P, lo, hi)
    BY <1>3 DEF Root
  <2> HIDE DEF lo, hi
  <2>5. \A i \in lo..hi : P[i] \in Segment
    BY <1>1, <2>3, ElementOfSeq
  <2>6. /\ SubSeq(P, lo, hi) \in Seq(Segment)
        /\ Len(SubSeq(P, lo, hi)) = hi - lo + 1
        /\ \A i \in 1..(hi - lo + 1) : SubSeq(P, lo, hi)[i] = P[lo + i - 1]
    BY <1>1, <2>2, <2>3, <2>5, SubSeqProperties
  <2>7. /\ Len(Root) = hi - lo + 1
        /\ Root[1] = P[lo]
        /\ Root[Len(Root)] = P[hi]
    BY <1>1, <2>2, <2>3, <2>4, <2>6
  <2> QED
    BY <1>1, <2>2, <2>3, <2>4, <2>6, <2>7, EmptySeq DEF Name
<1> QED
  BY <1>2, <1>3

\* What a storage key consists of.
LEMMA KeyShape ==
    ASSUME NEW owner \in Segment, NEW file \in Segment
    PROVE  LET key == StorageKey(owner, file)
           IN  /\ key \in Name
               /\ Len(key) = Len(Root) + 2
               /\ \A i \in 1..Len(Root) : key[i] = Root[i]
               /\ key[Len(Root) + 1] = owner
               /\ key[Len(Root) + 2] = file
               /\ FileIdOf(key) = file
<1> DEFINE tail == <<owner, file>>
           key == StorageKey(owner, file)
<1>1. Root \in Seq(Segment) /\ Len(Root) \in Nat
  BY RootIsStripped, LenProperties DEF Name
<1>2. tail \in Seq(Segment) /\ Len(tail) = 2 /\ tail[1] = owner /\ tail[2] = file
  OBVIOUS
<1>3. key = Root \o tail
  BY DEF StorageKey
<1> HIDE DEF tail, key
<1>4. /\ key \in Seq(Segment)
      /\ Len(key) = Len(Root) + 2
      /\ \A i \in 1..(Len(Root) + 2) :
            key[i] = IF i <= Len(Root) THEN Root[i] ELSE tail[i - Len(Root)]
  <2>1. /\ Root \o tail \in Seq(Segment)
        /\ Len(Root \o tail) = Len(Root) + Len(tail)
        /\ \A i \in 1..(Len(Root) + Len(tail)) :
              (Root \o tail)[i] = IF i <= Len(Root) THEN Root[i]
                                  ELSE tail[i - Len(Root)]
    BY <1>1, <1>2, ConcatProperties
  <2> QED
    BY <1>2, <1>3, <2>1
<1>5. /\ \A i \in 1..Len(Root) : key[i] = Root[i]
      /\ key[Len(Root) + 1] = owner
      /\ key[Len(Root) + 2] = file
  <2>1. PICK n \in Nat : n = Len(Root)
    BY <1>1
  <2>2. \A i \in 1..(n + 2) : key[i] = IF i <= n THEN Root[i] ELSE tail[i - n]
    BY <1>4, <2>1
  <2>3. \A i \in 1..n : i \in 1..(n + 2) /\ i <= n
    BY <2>1
  <2>4. \A i \in 1..n : key[i] = Root[i]
    BY <2>2, <2>3
  <2>5. /\ n + 1 \in 1..(n + 2) /\ ~ (n + 1 <= n) /\ (n + 1) - n = 1
        /\ n + 2 \in 1..(n + 2) /\ ~ (n + 2 <= n) /\ (n + 2) - n = 2
    BY <2>1
  <2>6. key[n + 1] = tail[1]
    BY <2>2, <2>5
  <2>7. key[n + 2] = tail[2]
    BY <2>2, <2>5
  <2> QED
    BY <1>2, <2>1, <2>4, <2>6, <2>7
<1>6. key \in Name
  BY <1>1, <1>4, EmptySeq DEF Name
<1> QED
  BY <1>4, <1>5, <1>6 DEF FileIdOf, key

\* The keys of different uploads are different objects: a key determines its
\* owner and its file id (files/service.py:90).
THEOREM KeyInjective ==
    ASSUME NEW o1 \in Segment, NEW f1 \in Segment,
           NEW o2 \in Segment, NEW f2 \in Segment,
           StorageKey(o1, f1) = StorageKey(o2, f2)
    PROVE  o1 = o2 /\ f1 = f2
BY KeyShape

\* The finalized event of any upload is recognised when the prefix is not
\* empty (files/service.py:85-90 against 131-144).
THEOREM KeyRecognised ==
    ASSUME NEW owner \in Segment \ {Empty}, NEW file \in Segment \ {Empty},
           Root # <<Empty>>
    PROVE  /\ IsQuarantineKey(StorageKey(owner, file))
           /\ FileIdOf(StorageKey(owner, file)) = file
<1> DEFINE key == StorageKey(owner, file)
<1>1. Root \in Seq(Segment) /\ Len(Root) \in Nat \ {0}
  BY RootIsStripped, EmptySeq DEF Name
<1>2. /\ key \in Seq(Segment)
      /\ Len(key) = Len(Root) + 2
      /\ \A i \in 1..Len(Root) : key[i] = Root[i]
      /\ key[Len(Root) + 1] = owner
      /\ key[Len(Root) + 2] = file
      /\ FileIdOf(key) = file
  BY KeyShape DEF Name
<1> HIDE DEF key
<1>3. SubSeq(key, 1, Len(Root)) = Root
  <2>1. \A i \in 1..Len(Root) : key[i] \in Segment
    BY <1>1, <1>2, ElementOfSeq
  <2>2. /\ SubSeq(key, 1, Len(Root)) \in Seq(Segment)
        /\ Len(SubSeq(key, 1, Len(Root))) = Len(Root)
        /\ \A i \in 1..Len(Root) : SubSeq(key, 1, Len(Root))[i] = key[i]
    BY <1>1, <2>1, SubSeqProperties
  <2> QED
    BY <1>1, <1>2, <2>2, SeqEqual
<1>4. IsQuarantineKey(key)
  BY <1>2, <1>3 DEF IsQuarantineKey
<1> QED
  BY <1>2, <1>4 DEF key

\* Every recognised object name is a storage key: the handler reads an owner
\* and a file id from nothing else.
THEOREM RecognisedIsKey ==
    ASSUME NEW name \in Name, IsQuarantineKey(name)
    PROVE  \E owner \in Segment \ {Empty} :
              /\ FileIdOf(name) \in Segment \ {Empty}
              /\ name = StorageKey(owner, FileIdOf(name))
<1> DEFINE owner == name[Len(Root) + 1]
           file == FileIdOf(name)
           key == StorageKey(owner, file)
<1>1. Root \in Seq(Segment) /\ Len(Root) \in Nat \ {0}
  BY RootIsStripped, EmptySeq DEF Name
<1>2. name \in Seq(Segment) /\ Len(name) = Len(Root) + 2
  BY DEF Name, IsQuarantineKey
<1>3. file = name[Len(Root) + 2]
  BY <1>2 DEF FileIdOf
<1>4. owner \in Segment \ {Empty} /\ file \in Segment \ {Empty}
  BY <1>1, <1>2, <1>3, ElementOfSeq DEF IsQuarantineKey
<1>5. \A i \in 1..Len(Root) : name[i] = Root[i]
  <2>1. \A i \in 1..Len(Root) : name[i] \in Segment
    BY <1>1, <1>2, ElementOfSeq
  <2>2. \A i \in 1..Len(Root) : SubSeq(name, 1, Len(Root))[i] = name[i]
    BY <1>1, <2>1, SubSeqProperties
  <2> QED
    BY <2>2 DEF IsQuarantineKey
<1>6. /\ key \in Seq(Segment)
      /\ Len(key) = Len(Root) + 2
      /\ \A i \in 1..Len(Root) : key[i] = Root[i]
      /\ key[Len(Root) + 1] = owner
      /\ key[Len(Root) + 2] = file
  <2> HIDE DEF owner, file
  <2> QED
    BY <1>4, KeyShape DEF Name
<1> HIDE DEF key, owner, file
<1>7. \A i \in 1..Len(name) : name[i] = key[i]
  BY <1>1, <1>2, <1>3, <1>5, <1>6 DEF owner
<1>8. name = key
  BY <1>2, <1>6, <1>7, SeqEqual
<1> QED
  BY <1>4, <1>8 DEF key, owner, file

=============================================================================
