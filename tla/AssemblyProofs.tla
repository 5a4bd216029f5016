--------------------------- MODULE AssemblyProofs ---------------------------
(***************************************************************************)
(* Theorems about Assembly, for every answer of any length and every       *)
(* provider.  What a consumer has assembled while a stream is open is what *)
(* was sent of the answer (Holds, part of AInv): the blocks before the one *)
(* that is arriving, merged, and of that one the pieces so far.  From this *)
(* follow that a finished stream is the answer of Chat, that a broken one  *)
(* is a beginning of it, and that two blocks are never open at once.       *)
(***************************************************************************)
EXTENDS Assembly, SequenceTheorems, FiniteSetTheorems, TLAPS

\* Merging, block after block.
MergeInto(b, content) == Merge(content, b)
Greatest(S) == Max(S)

Merges == INSTANCE FoldLemmas WITH Op <- MergeInto, Base <- <<>>, Choice <- Greatest

-----------------------------------------------------------------------------
(* Folds over sequences, from the left *)

\* The indices of a sequence can be counted, and the greatest is the last.
LEMMA Indexes ==
  ASSUME NEW n \in Nat
  PROVE  /\ \E size : \A T \in SUBSET (1 .. n) :
              size[T] \in Nat /\ \A U \in SUBSET T : U # T => size[U] < size[T]
         /\ \A T \in SUBSET (1 .. n) : T # {} => Greatest(T) \in T
         /\ n # 0 => Greatest(1 .. n) = n
<1> DEFINE S == 1 .. n
           size == [T \in SUBSET S |-> Cardinality(T)]
<1>1. IsFiniteSet(S)
  BY FS_Interval
<1>2. ASSUME NEW T \in SUBSET S
      PROVE  size[T] \in Nat /\ \A U \in SUBSET T : U # T => size[U] < size[T]
  <2>1. IsFiniteSet(T) /\ size[T] = Cardinality(T) /\ Cardinality(T) \in Nat
    BY <1>1, FS_Subset, FS_CardinalityType
  <2>2. ASSUME NEW U \in SUBSET T, U # T PROVE size[U] < size[T]
    <3>1. size[U] = Cardinality(U) /\ Cardinality(U) \in Nat
      BY <2>1, FS_Subset, FS_CardinalityType
    <3>2. Cardinality(U) <= Cardinality(T) /\ Cardinality(U) # Cardinality(T)
      BY <2>1, <2>2, FS_Subset
    <3>3. QED
      BY <2>1, <3>1, <3>2
  <2>3. QED
    BY <2>1, <2>2
<1>3. ASSUME NEW T \in SUBSET S, T # {} PROVE Greatest(T) \in T
  <2>1. T \in SUBSET Nat /\ \A i \in T : i <= n
    OBVIOUS
  <2> HIDE DEF S
  <2>2. \E m \in T : \A i \in T : i <= m
    BY <1>3, <2>1, Merges!GreatestMember
  <2>3. QED
    BY <2>2 DEF Greatest, Max
<1>4. ASSUME n # 0 PROVE Greatest(S) = n
  <2>1. n \in S /\ \A m \in S : m \in Nat /\ m <= n
    BY <1>4
  <2> HIDE DEF S
  <2>2. Greatest(S) \in S /\ \A i \in S : i <= Greatest(S)
    BY <2>1 DEF Greatest, Max
  <2> HIDE DEF Greatest
  <2> DEFINE g == Greatest(S)
  <2>3. g \in Nat /\ g <= n /\ n <= g
    BY <2>1, <2>2
  <2> HIDE DEF g
  <2>4. g = n
    BY <2>3
  <2>5. QED
    BY <2>4 DEF g
<1>5. \E z : \A T \in SUBSET S :
        z[T] \in Nat /\ \A U \in SUBSET T : U # T => z[U] < z[T]
  <2> HIDE DEF size, S
  <2>1. \A T \in SUBSET S : size[T] \in Nat /\ \A U \in SUBSET T : U # T => size[U] < size[T]
    BY <1>2
  <2>2. QED
    BY <2>1, Zenon
<1>6. QED
  BY <1>3, <1>4, <1>5, Zenon

-----------------------------------------------------------------------------
(* Sequences *)

\* Induction over sequences: what holds of none and of one more holds of all.
LEMMA SeqInduction ==
  ASSUME NEW A, NEW T, <<>> \in T, \A s \in Seq(A), e \in A : s \in T => Append(s, e) \in T
  PROVE  \A s \in Seq(A) : s \in T
<1> DEFINE K == {k \in Nat : \A s \in Seq(A) : Len(s) = k => s \in T}
<1>1. 0 \in K
  BY EmptySeq
<1>2. ASSUME NEW k \in Nat, k \in K PROVE k + 1 \in K
  <2>1. ASSUME NEW s \in Seq(A), Len(s) = k + 1 PROVE s \in T
    <3>1. s # <<>>
      BY <2>1
    <3>2. PICK u \in Seq(A), z \in A : s = Append(u, z)
      BY <3>1, SequenceEmptyOrAppend
    <3>3. u \in T
      <4>1. Len(u) = k
        BY <2>1, <3>2, AppendProperties, LenProperties
      <4>2. QED
        BY <1>2, <4>1
    <3>4. QED
      BY <3>2, <3>3
  <2>2. QED
    BY <2>1
<1>3. \A n \in Nat : n \in K
  <2> HIDE DEF K
  <2>1. QED
    BY <1>1, <1>2, Merges!SetInduction
<1>4. QED
  BY <1>3, LenProperties

\* Sequences of sequences, one after the other.
Flattens(g, seqs) ==
  g = [i \in 1 .. Len(seqs) |-> IF i = 1 THEN seqs[i] ELSE g[i - 1] \o seqs[i]]

LEMMA FlattensExists ==
  ASSUME NEW seqs, NEW n \in Nat, Len(seqs) = n
  PROVE  \E g : Flattens(g, seqs)
<1> DEFINE To(k) == 1 .. k
           G(g, k) == g = [i \in To(k) |-> IF i = 1 THEN seqs[i] ELSE g[i - 1] \o seqs[i]]
           K == {k \in Nat : \E g : G(g, k)}
<1>1. 0 \in K
  <2>1. To(0) = {}
    OBVIOUS
  <2>2. G([i \in To(0) |-> 0], 0)
    BY <2>1
  <2>3. QED
    BY <2>2
<1>2. ASSUME NEW k \in Nat, k \in K PROVE k + 1 \in K
  <2>1. PICK g : G(g, k)
    BY <1>2
  <2> DEFINE h == [i \in To(k + 1) |-> IF i = 1 THEN seqs[i] ELSE g[i - 1] \o seqs[i]]
  <2>2. \A i \in To(k) : i \in To(k + 1) /\ h[i] = g[i]
    <3>1. \A i \in To(k) : i \in To(k + 1)
      OBVIOUS
    <3> HIDE DEF To
    <3>2. \A i \in To(k) : g[i] = IF i = 1 THEN seqs[i] ELSE g[i - 1] \o seqs[i]
      BY <2>1, Zenon
    <3>3. \A i \in To(k) : h[i] = IF i = 1 THEN seqs[i] ELSE g[i - 1] \o seqs[i]
      BY <3>1, Zenon
    <3> HIDE DEF h
    <3>4. QED
      BY <3>1, <3>2, <3>3, Zenon
  <2>3. \A i \in To(k + 1) : i # 1 => h[i - 1] = g[i - 1]
    <3>1. \A i \in To(k + 1) : i # 1 => i - 1 \in To(k)
      OBVIOUS
    <3> HIDE DEF h, To
    <3>2. QED
      BY <2>2, <3>1
  <2>4. h = [i \in To(k + 1) |-> IF i = 1 THEN seqs[i] ELSE h[i - 1] \o seqs[i]]
    <3>1. \A i \in To(k + 1) : (IF i = 1 THEN seqs[i] ELSE g[i - 1] \o seqs[i])
                              = (IF i = 1 THEN seqs[i] ELSE h[i - 1] \o seqs[i])
      BY <2>3, Zenon
    <3>2. QED
      BY <3>1, Zenon
  <2>5. k + 1 \in Nat
    OBVIOUS
  <2> HIDE DEF h, To
  <2>6. QED
    BY <2>4, <2>5
<1>3. n \in K
  <2>1. \A k \in Nat : k \in K
    <3> HIDE DEF K
    <3>1. QED
      BY <1>1, <1>2, Merges!SetInduction
  <2>2. QED
    BY <2>1
<1>4. QED
  BY <1>3 DEF Flattens

LEMMA FlattenIsSolution ==
  ASSUME NEW A, NEW seqs \in Seq(A), seqs # <<>>
  PROVE  \E g : Flattens(g, seqs) /\ FlattenSeq(seqs) = g[Len(seqs)]
<1> DEFINE it == CHOOSE g : g = [i \in 1 .. Len(seqs) |->
                   IF i = 1 THEN seqs[i] ELSE g[i - 1] \o seqs[i]]
<1>1. \E g : g = [i \in 1 .. Len(seqs) |->
                   IF i = 1 THEN seqs[i] ELSE g[i - 1] \o seqs[i]]
  <2>1. PICK g : Flattens(g, seqs)
    BY FlattensExists
  <2>2. g = [i \in 1 .. Len(seqs) |-> IF i = 1 THEN seqs[i] ELSE g[i - 1] \o seqs[i]]
    BY <2>1 DEF Flattens
  <2>3. QED
    BY <2>2, Zenon
<1>2. it = [i \in 1 .. Len(seqs) |-> IF i = 1 THEN seqs[i] ELSE it[i - 1] \o seqs[i]]
  BY <1>1, Zenon
<1>3. FlattenSeq(seqs) = it[Len(seqs)]
  <2>1. Len(seqs) # 0
    OBVIOUS
  <2>2. QED
    BY <2>1 DEF FlattenSeq
<1> HIDE DEF it
<1>4. QED
  BY <1>2, <1>3 DEF Flattens

\* The solutions for two sequences agree as far as the sequences do.
LEMMA FlattensAgree ==
  ASSUME NEW s, NEW t, NEW g, NEW h, Flattens(g, s), Flattens(h, t),
         NEW n \in Nat, n <= Len(s), n <= Len(t), Len(s) \in Nat, Len(t) \in Nat,
         \A i \in 1 .. n : s[i] = t[i]
  PROVE  \A i \in 1 .. n : g[i] = h[i]
<1>0. \A k \in 1 .. n : /\ g[k] = IF k = 1 THEN s[k] ELSE g[k - 1] \o s[k]
                        /\ h[k] = IF k = 1 THEN t[k] ELSE h[k - 1] \o t[k]
  <2>1. \A k \in 1 .. n : k \in 1 .. Len(s) /\ k \in 1 .. Len(t)
    OBVIOUS
  <2>2. QED
    BY <2>1, Zenon DEF Flattens
<1> DEFINE K == {k \in Nat : k \in 1 .. n => g[k] = h[k]}
<1>1. 0 \in K
  OBVIOUS
<1>2. ASSUME NEW k \in Nat, k \in K PROVE k + 1 \in K
  <2>1. CASE k + 1 \notin 1 .. n
    BY <2>1
  <2>2. CASE k + 1 \in 1 .. n /\ k = 0
    <3>1. g[1] = s[1] /\ h[1] = t[1] /\ 1 \in 1 .. n
      BY <1>0, <2>2
    <3>2. QED
      BY <2>2, <3>1
  <2>3. CASE k + 1 \in 1 .. n /\ k # 0
    <3>1. k \in 1 .. n /\ k + 1 # 1 /\ (k + 1) - 1 = k
      BY <2>3
    <3>2. g[k + 1] = g[(k + 1) - 1] \o s[k + 1] /\ h[k + 1] = h[(k + 1) - 1] \o t[k + 1]
      BY <1>0, <2>3, <3>1
    <3>3. g[(k + 1) - 1] = g[k] /\ h[(k + 1) - 1] = h[k] /\ s[k + 1] = t[k + 1]
      BY <2>3, <3>1
    <3>4. g[k] = h[k]
      BY <1>2, <3>1
    <3> HIDE DEF K
    <3>5. g[k + 1] = h[k + 1]
      BY <3>2, <3>3, <3>4
    <3>6. QED
      BY <3>5 DEF K
  <2>4. QED
    BY <2>1, <2>2, <2>3
<1>3. \A k \in Nat : k \in K
  <2> HIDE DEF K
  <2>1. QED
    BY <1>1, <1>2, Merges!SetInduction
<1>4. QED
  BY <1>3

\* Nothing, flattened.
LEMMA FlattenNone == FlattenSeq(<<>>) = <<>>
BY DEF FlattenSeq

\* One sequence more is put at the end.
LEMMA FlattenAppend ==
  ASSUME NEW A, NEW seqs \in Seq(Seq(A)), NEW s \in Seq(A)
  PROVE  FlattenSeq(Append(seqs, s)) = FlattenSeq(seqs) \o s
<1> DEFINE t == Append(seqs, s)
           n == Len(seqs)
<1>1. /\ t \in Seq(Seq(A)) /\ n \in Nat /\ Len(t) = n + 1 /\ t # <<>>
      /\ t[n + 1] = s /\ \A i \in 1 .. n : t[i] = seqs[i]
  BY AppendProperties, LenProperties
<1> HIDE DEF t
<1>2. PICK g : Flattens(g, t) /\ FlattenSeq(t) = g[n + 1]
  BY <1>1, FlattenIsSolution
<1>3. CASE seqs = <<>>
  <2>1. n = 0
    BY <1>3
  <2>2. g[1] = t[1] /\ t[1] = s
    BY <1>1, <1>2, <2>1 DEF Flattens
  <2>3. FlattenSeq(t) = s
    BY <1>2, <2>1, <2>2
  <2>4. <<>> \o s = s
    BY ConcatEmptySeq
  <2>5. QED
    BY <1>3, <2>3, <2>4, FlattenNone DEF t
<1>4. CASE seqs # <<>>
  <2>1. PICK h : Flattens(h, seqs) /\ FlattenSeq(seqs) = h[n]
    BY <1>4, FlattenIsSolution
  <2>2. n \in 1 .. n /\ n + 1 \in 1 .. n + 1 /\ n + 1 # 1 /\ (n + 1) - 1 = n
    BY <1>1, <1>4, EmptySeq
  <2>3. g[n] = h[n]
    <3>1. /\ Flattens(g, t) /\ Flattens(h, seqs) /\ n \in Nat
          /\ n <= Len(t) /\ n <= Len(seqs) /\ Len(t) \in Nat /\ Len(seqs) \in Nat
          /\ \A i \in 1 .. n : t[i] = seqs[i]
      BY <1>1, <1>2, <2>1
    <3> HIDE DEF n
    <3>2. \A i \in 1 .. n : g[i] = h[i]
      BY <3>1, FlattensAgree, SMT
    <3>3. QED
      BY <2>2, <3>2
  <2>4. g[n + 1] = g[n] \o t[n + 1]
    BY <1>1, <1>2, <2>2 DEF Flattens
  <2>5. QED
    BY <1>1, <1>2, <2>1, <2>3, <2>4 DEF t
<1>5. QED
  BY <1>3, <1>4

LEMMA FlattenedType ==
  ASSUME NEW A, NEW seqs \in Seq(Seq(A))
  PROVE  FlattenSeq(seqs) \in Seq(A)
<1> DEFINE T == {s \in Seq(Seq(A)) : FlattenSeq(s) \in Seq(A)}
<1>1. <<>> \in T
  BY FlattenNone, EmptySeq
<1>2. ASSUME NEW s \in Seq(Seq(A)), NEW e \in Seq(A), s \in T PROVE Append(s, e) \in T
  <2>1. FlattenSeq(Append(s, e)) = FlattenSeq(s) \o e
    BY FlattenAppend
  <2>2. FlattenSeq(s) \o e \in Seq(A)
    BY <1>2, ConcatProperties
  <2>3. Append(s, e) \in Seq(Seq(A))
    BY AppendProperties
  <2>4. QED
    BY <2>1, <2>2, <2>3
<1>3. \A s \in Seq(Seq(A)) : s \in T
  <2> HIDE DEF T
  <2>1. QED
    BY <1>1, <1>2, SeqInduction
<1>4. QED
  BY <1>3

-----------------------------------------------------------------------------
(* Strings and blocks *)

Strings == Seq(Nat \X Nat)

BlockTypes == {"text", "tool_use", "thinking", "redacted_thinking"}

ContentBlocks ==
  [type : BlockTypes, id : Nat, body : Strings, data : Strings, signature : Strings]

\* Concatenation of sequences over S is associative.
Associates(S) == \A x, y, z \in Seq(S) : (x \o y) \o z = x \o (y \o z)

LEMMA AllAssociate == ASSUME NEW S PROVE Associates(S)
BY ConcatAssociative DEF Associates

LEMMA ConcatIsAssociative ==
  ASSUME NEW s \in Strings, NEW t \in Strings, NEW u \in Strings
  PROVE  (s \o t) \o u = s \o (t \o u)
<1> DEFINE P == Nat \X Nat
<1>1. s \in Seq(P) /\ t \in Seq(P) /\ u \in Seq(P)
  BY DEF Strings
<1> HIDE DEF P
<1>2. QED
  BY <1>1, ConcatAssociative

LEMMA StringFacts ==
  ASSUME NEW s \in Strings, NEW t \in Strings, NEW u \in Strings
  PROVE  /\ <<>> \in Strings /\ s \o t \in Strings
         /\ (s \o t) \o u = s \o (t \o u)
         /\ s \o <<>> = s /\ <<>> \o s = s
         /\ t # <<>> => s \o t # <<>>
         /\ s # <<>> => s \o t # <<>>
         /\ Len(s) \in Nat
<1> DEFINE P == Nat \X Nat
<1>0. Strings = Seq(P)
  BY DEF Strings
<1> HIDE DEF P
<1> USE <1>0
<1>1. <<>> \in Strings /\ Len(s) \in Nat
  BY EmptySeq, LenProperties
<1>2. s \o t \in Strings
  BY ConcatProperties
<1>3. (s \o t) \o u = s \o (t \o u)
  <2>1. s \in Seq(P) /\ t \in Seq(P) /\ u \in Seq(P)
    OBVIOUS
  <2>2. QED
    BY <2>1, ConcatAssociative
<1>4. s \o <<>> = s /\ <<>> \o s = s
  BY ConcatEmptySeq
<1>5. s \o t = <<>> <=> s = <<>> /\ t = <<>>
  <2>1. s \in Seq(P) /\ t \in Seq(P)
    OBVIOUS
  <2>2. QED
    BY <2>1, ConcatEqualIffEmpty
<1>6. QED
  BY <1>1, <1>2, <1>3, <1>4, <1>5

LEMMA NoString == <<>> \in Strings
BY EmptySeq DEF Strings

\* The beginnings of a sequence.
LEMMA PrefixPointwise ==
  ASSUME NEW A, NEW s \in Seq(A), NEW t \in Seq(A)
  PROVE  IsPrefix(s, t) <=> Len(s) <= Len(t) /\ \A i \in 1 .. Len(s) : s[i] = t[i]
<1>1. Len(s) \in Nat /\ Len(t) \in Nat
  BY LenProperties
<1>2. SubSeq(s, 1, Len(s)) = s
  BY SubSeqFull
<1>3. ASSUME Len(s) <= Len(t)
      PROVE  /\ SubSeq(t, 1, Len(s)) \in Seq(A) /\ Len(SubSeq(t, 1, Len(s))) = Len(s)
             /\ \A i \in 1 .. Len(s) : SubSeq(t, 1, Len(s))[i] = t[i]
  <2>1. \A i \in 1 .. Len(s) : t[i] \in A
    BY <1>1, <1>3, ElementOfSeq
  <2>2. QED
    BY <1>1, <1>3, <2>1, SubSeqProperties
<1>4. ASSUME Len(s) <= Len(t)
      PROVE  s = SubSeq(t, 1, Len(s)) <=> \A i \in 1 .. Len(s) : s[i] = t[i]
  <2> DEFINE v == SubSeq(t, 1, Len(s))
  <2>1. v \in Seq(A) /\ Len(v) = Len(s) /\ \A i \in 1 .. Len(s) : v[i] = t[i]
    BY <1>3, <1>4
  <2> HIDE DEF v
  <2>2. (\A i \in 1 .. Len(s) : s[i] = v[i]) => s = v
    BY <2>1, SeqEqual
  <2>3. s = v <=> \A i \in 1 .. Len(s) : s[i] = t[i]
    BY <2>1, <2>2
  <2>4. QED
    BY <2>3 DEF v
<1>5. QED
  BY <1>2, <1>4 DEF IsPrefix

LEMMA PrefixOrder ==
  ASSUME NEW A, NEW s \in Seq(A), NEW t \in Seq(A), NEW u \in Seq(A)
  PROVE  /\ IsPrefix(s, s)
         /\ IsPrefix(<<>>, s)
         /\ IsPrefix(s, t) /\ IsPrefix(t, u) => IsPrefix(s, u)
         /\ IsPrefix(s, s \o t)
<1>1. Len(s) \in Nat /\ Len(t) \in Nat /\ Len(u) \in Nat /\ <<>> \in Seq(A) /\ Len(<<>>) = 0
  BY LenProperties, EmptySeq
<1>2. IsPrefix(s, s) /\ IsPrefix(<<>>, s)
  <2>1. Len(s) <= Len(s) /\ \A i \in 1 .. Len(s) : s[i] = s[i]
    BY <1>1
  <2> DEFINE e == <<>>
  <2>2. e \in Seq(A) /\ Len(e) <= Len(s) /\ \A i \in 1 .. Len(e) : e[i] = s[i]
    BY <1>1
  <2> HIDE DEF e
  <2>3. IsPrefix(s, s) /\ IsPrefix(e, s)
    BY <2>1, <2>2, PrefixPointwise
  <2>4. QED
    BY <2>3 DEF e
<1>3. ASSUME IsPrefix(s, t), IsPrefix(t, u) PROVE IsPrefix(s, u)
  <2>1. /\ Len(s) <= Len(t) /\ \A i \in 1 .. Len(s) : s[i] = t[i]
        /\ Len(t) <= Len(u) /\ \A i \in 1 .. Len(t) : t[i] = u[i]
    BY <1>3, PrefixPointwise
  <2>2. Len(s) <= Len(u) /\ \A i \in 1 .. Len(s) : s[i] = u[i]
    BY <1>1, <2>1
  <2>3. QED
    BY <2>2, PrefixPointwise
<1>4. IsPrefix(s, s \o t)
  <2>1. /\ s \o t \in Seq(A) /\ Len(s \o t) = Len(s) + Len(t)
        /\ \A i \in 1 .. Len(s) + Len(t) :
             (s \o t)[i] = IF i <= Len(s) THEN s[i] ELSE t[i - Len(s)]
    BY ConcatProperties
  <2>2. Len(s) <= Len(s \o t) /\ \A i \in 1 .. Len(s) : s[i] = (s \o t)[i]
    BY <1>1, <2>1
  <2>3. QED
    BY <2>1, <2>2, PrefixPointwise
<1>5. QED
  BY <1>2, <1>3, <1>4

\* The constructors of blocks.
LEMMA BlockFacts ==
  ASSUME NEW s \in Strings, NEW t \in Strings, NEW u \in Strings, NEW n \in Nat
  PROVE  /\ TextBlock(s) \in ContentBlocks
         /\ TextBlock(s) = [type |-> "text", id |-> 0, body |-> s, data |-> <<>>,
                            signature |-> <<>>]
         /\ ToolBlock(n, s, t) \in ContentBlocks
         /\ ToolBlock(n, s, t) = [type |-> "tool_use", id |-> n, body |-> s,
                                  data |-> <<>>, signature |-> t]
         /\ ThinkingBlock(s, t, u) \in ContentBlocks
         /\ ThinkingBlock(s, t, u) =
              [type |-> IF t = <<>> THEN "thinking" ELSE "redacted_thinking",
               id |-> 0, body |-> s, data |-> t, signature |-> u]
BY NoString DEF TextBlock, ToolBlock, ThinkingBlock, ContentBlock, ContentBlocks, BlockTypes

-----------------------------------------------------------------------------
(* Merging *)

\* {} for arguments says no more than nothing does.
Plainly(b) ==
  IF b.type = "tool_use" /\ b.body = NoArguments(b.id) THEN [b EXCEPT !.body = <<>>] ELSE b

Grown(z, b) == [z EXCEPT !.body = @ \o b.body]

LEMMA PlainlyType ==
  ASSUME NEW b \in ContentBlocks
  PROVE  /\ Plainly(b) \in ContentBlocks
         /\ Plainly(b).type = b.type /\ Plainly(b).id = b.id /\ Plainly(b).data = b.data
         /\ Plainly(b).signature = b.signature
         /\ b.type # "tool_use" => Plainly(b) = b
BY NoString DEF Plainly, ContentBlocks

LEMMA GrownType ==
  ASSUME NEW z \in ContentBlocks, NEW b \in ContentBlocks
  PROVE  /\ Grown(z, b) \in ContentBlocks
         /\ Grown(z, b).type = z.type /\ Grown(z, b).id = z.id /\ Grown(z, b).data = z.data
         /\ Grown(z, b).signature = z.signature /\ Grown(z, b).body = z.body \o b.body
<1>1. z.body \in Strings /\ b.body \in Strings
  BY DEF ContentBlocks
<1>2. z.body \o b.body \in Strings
  BY <1>1, StringFacts
<1>3. QED
  BY <1>2 DEF Grown, ContentBlocks

\* The first block, and a block after another.
LEMMA MergeFirst ==
  ASSUME NEW b PROVE Merge(<<>>, b) = Append(<<>>, Plainly(b))
BY DEF Merge, Plainly

\* Merging onto a block that is there, whatever the blocks are.
LEMMA MergeOnto ==
  ASSUME NEW A, NEW u \in Seq(A), NEW z \in A, NEW b, Grown(z, b) \in A
  PROVE  Merge(Append(u, z), b) =
           IF z.type = "text" /\ b.type = "text" THEN Append(u, Grown(z, b))
           ELSE Append(Append(u, z), Plainly(b))
<1> DEFINE m == Append(u, z)
<1>1. /\ m \in Seq(A) /\ m # <<>> /\ Len(m) = Len(u) + 1 /\ Len(u) \in Nat
      /\ m[Len(u) + 1] = z /\ \A i \in 1 .. Len(u) : m[i] = u[i]
  BY AppendProperties, LenProperties
<1>2. Last(m) = z
  BY <1>1 DEF Last
<1>3. CASE z.type = "text" /\ b.type = "text"
  <2>1. Merge(m, b) = [m EXCEPT ![Len(m)].body = @ \o b.body]
    BY <1>1, <1>2, <1>3 DEF Merge
  <2> DEFINE r == [m EXCEPT ![Len(m)].body = @ \o b.body]
             v == Append(u, Grown(z, b))
  <2>2. r = [m EXCEPT ![Len(m)] = Grown(z, b)]
    BY <1>1 DEF Grown
  <2>3. Grown(z, b) \in A
    OBVIOUS
  <2>4. /\ v \in Seq(A) /\ Len(v) = Len(u) + 1
        /\ v[Len(u) + 1] = Grown(z, b) /\ \A i \in 1 .. Len(u) : v[i] = u[i]
    BY <2>3, AppendProperties
  <2> HIDE DEF m, v
  <2>5. r \in Seq(A) /\ Len(r) = Len(m)
    <3> DEFINE l == Len(m)
               g == Grown(z, b)
    <3>1. m \in Seq(A) /\ l \in 1 .. Len(m) /\ g \in A
      BY <1>1, <2>3
    <3>2. r = [m EXCEPT ![l] = g]
      BY <2>2
    <3> HIDE DEF l, g, r
    <3>3. r \in Seq(A) /\ Len(r) = Len(m)
      BY <3>1, <3>2, ExceptSeq
    <3>4. QED
      BY <3>3
  <2>6. \A i \in 1 .. Len(m) : r[i] = v[i]
    <3>1. m = [i \in 1 .. Len(m) |-> m[i]]
      BY <1>1, IsASeq
    <3>2. \A i \in 1 .. Len(m) : r[i] = IF i = Len(m) THEN Grown(z, b) ELSE m[i]
      <4> HIDE DEF r
      <4>1. DOMAIN m = 1 .. Len(m)
        BY <1>1, LenProperties
      <4>2. QED
        BY <2>2, <4>1
    <3> HIDE DEF r
    <3>3. QED
      BY <1>1, <2>4, <3>2
  <2> HIDE DEF r
  <2>7. r = v
    BY <1>1, <2>4, <2>5, <2>6, SeqEqual
  <2>8. QED
    BY <1>3, <2>1, <2>7 DEF m, v, r
<1>4. CASE ~(z.type = "text" /\ b.type = "text")
  <2>1. Merge(m, b) = Append(m, Plainly(b))
    <3> HIDE DEF m
    <3>1. QED
      BY <1>1, <1>2, <1>4 DEF Merge, Plainly
  <2>2. QED
    BY <1>4, <2>1
<1>5. QED
  BY <1>3, <1>4

\* Merging onto a block of an answer.
LEMMA MergeAfter ==
  ASSUME NEW u \in Seq(ContentBlocks), NEW z \in ContentBlocks, NEW b \in ContentBlocks
  PROVE  Merge(Append(u, z), b) =
           IF z.type = "text" /\ b.type = "text" THEN Append(u, Grown(z, b))
           ELSE Append(Append(u, z), Plainly(b))
<1>1. Grown(z, b) \in ContentBlocks
  BY GrownType
<1>2. QED
  BY <1>1, MergeOnto

LEMMA MergeType ==
  ASSUME NEW m \in Seq(ContentBlocks), NEW b \in ContentBlocks
  PROVE  Merge(m, b) \in Seq(ContentBlocks)
<1>1. Plainly(b) \in ContentBlocks
  BY PlainlyType
<1>2. CASE m = <<>>
  <2>1. Merge(m, b) = Append(m, Plainly(b))
    BY <1>2, MergeFirst
  <2>2. QED
    BY <1>1, <2>1, AppendProperties
<1>3. CASE m # <<>>
  <2>1. PICK u \in Seq(ContentBlocks), z \in ContentBlocks : m = Append(u, z)
    BY <1>3, SequenceEmptyOrAppend
  <2>2. Append(u, z) \in Seq(ContentBlocks) /\ Grown(z, b) \in ContentBlocks
    BY AppendProperties, GrownType
  <2>3. /\ Append(u, Grown(z, b)) \in Seq(ContentBlocks)
        /\ Append(Append(u, z), Plainly(b)) \in Seq(ContentBlocks)
    BY <1>1, <2>2, AppendProperties
  <2>4. QED
    BY <2>1, <2>3, MergeAfter
<1>4. QED
  BY <1>2, <1>3

\* A text that comes in two pieces is one text.
LEMMA MergeTexts ==
  ASSUME NEW m \in Seq(ContentBlocks), NEW s \in Strings, NEW t \in Strings
  PROVE  Merge(Merge(m, TextBlock(s)), TextBlock(t)) = Merge(m, TextBlock(s \o t))
<1> DEFINE x == TextBlock(s)
           y == TextBlock(t)
           xy == TextBlock(s \o t)
<1>1. s \o t \in Strings
  BY StringFacts
<1>2. /\ x \in ContentBlocks /\ y \in ContentBlocks /\ xy \in ContentBlocks
      /\ x = [type |-> "text", id |-> 0, body |-> s, data |-> <<>>, signature |-> <<>>]
      /\ y = [type |-> "text", id |-> 0, body |-> t, data |-> <<>>, signature |-> <<>>]
      /\ xy = [type |-> "text", id |-> 0, body |-> s \o t, data |-> <<>>, signature |-> <<>>]
  BY <1>1, BlockFacts
<1> HIDE DEF x, y, xy
<1>3. x.type = "text" /\ y.type = "text" /\ xy.type = "text"
      /\ x.body = s /\ y.body = t /\ xy.body = s \o t
  BY <1>2
<1>4. Plainly(x) = x /\ Plainly(xy) = xy
  BY <1>2, <1>3, PlainlyType
<1>5. Grown(x, y) = xy
  <2>1. Grown(x, y) = [x EXCEPT !.body = s \o t]
    BY <1>3 DEF Grown
  <2>2. QED
    BY <1>2, <2>1
<1>6. CASE m = <<>>
  <2>1. Merge(m, x) = Append(<<>>, x) /\ Merge(m, xy) = Append(<<>>, xy)
    BY <1>4, <1>6, MergeFirst
  <2>2. Merge(Append(<<>>, x), y) = Append(<<>>, Grown(x, y))
    BY <1>2, <1>3, MergeAfter, EmptySeq
  <2>3. QED
    BY <1>5, <2>1, <2>2 DEF x, y, xy
<1>7. CASE m # <<>>
  <2>1. PICK u \in Seq(ContentBlocks), z \in ContentBlocks : m = Append(u, z)
    BY <1>7, SequenceEmptyOrAppend
  <2>2. CASE z.type = "text"
    <3>1. Merge(m, x) = Append(u, Grown(z, x)) /\ Merge(m, xy) = Append(u, Grown(z, xy))
      <4>1. Merge(Append(u, z), x) = Append(u, Grown(z, x))
        BY <1>2, <1>3, <2>2, MergeAfter
      <4>2. Merge(Append(u, z), xy) = Append(u, Grown(z, xy))
        BY <1>2, <1>3, <2>2, MergeAfter
      <4>3. QED
        BY <2>1, <4>1, <4>2
    <3>2. Grown(z, x) \in ContentBlocks /\ Grown(z, x).type = "text"
      BY <1>2, <2>2, GrownType
    <3>3. Merge(Append(u, Grown(z, x)), y) = Append(u, Grown(Grown(z, x), y))
      BY <1>2, <1>3, <3>2, MergeAfter
    <3>4. (z.body \o s) \o t = z.body \o (s \o t)
      <4> DEFINE w == z.body
      <4>1. w \in Strings
        BY DEF ContentBlocks
      <4> HIDE DEF w
      <4>2. (w \o s) \o t = w \o (s \o t)
        BY <4>1, ConcatIsAssociative
      <4>3. QED
        BY <4>2 DEF w
    <3>5. Grown(Grown(z, x), y) = Grown(z, xy)
      BY <1>3, <3>4 DEF Grown, ContentBlocks
    <3>6. QED
      BY <3>1, <3>3, <3>5 DEF x, y, xy
  <2>3. CASE z.type # "text"
    <3>1. Merge(m, x) = Append(m, x) /\ Merge(m, xy) = Append(m, xy)
      <4>1. Merge(Append(u, z), x) = Append(Append(u, z), Plainly(x))
        BY <1>2, <2>3, MergeAfter
      <4>2. Merge(Append(u, z), xy) = Append(Append(u, z), Plainly(xy))
        BY <1>2, <2>3, MergeAfter
      <4>3. QED
        BY <1>4, <2>1, <4>1, <4>2
    <3>2. Merge(Append(m, x), y) = Append(m, Grown(x, y))
      BY <1>2, <1>3, MergeAfter
    <3>3. QED
      BY <1>5, <3>1, <3>2 DEF x, y, xy
  <2>4. QED
    BY <2>2, <2>3
<1>8. QED
  BY <1>6, <1>7

LEMMA GreatestTaken == Merges!TakesLast
BY Indexes DEF Merges!TakesLast, Merges!Counted, Merges!Counts, Merges!Chooses

LEMMA MergedIsFold ==
  ASSUME NEW s PROVE Merged(s) = Merges!Fold(s, DOMAIN s)
BY DEF Merged, FoldLeft, Merges!Fold, Merges!FoldFrom, MapThenFoldSet, Merges!MapThenFoldSet, MergeInto, Greatest

LEMMA MergedNone == Merged(<<>>) = <<>>
BY GreatestTaken, MergedIsFold, Merges!FoldNoSeq

\* Merging of one block more, whatever the blocks are.
LEMMA MergedOne ==
  ASSUME NEW A, NEW s \in Seq(A), NEW b \in A
  PROVE  Merged(Append(s, b)) = Merge(Merged(s), b)
<1>1. Merges!Fold(Append(s, b), DOMAIN Append(s, b)) = MergeInto(b, Merges!Fold(s, DOMAIN s))
  BY GreatestTaken, Merges!FoldAppend, Z3
<1>2. QED
  BY <1>1, MergedIsFold DEF MergeInto

LEMMA MergedAppend ==
  ASSUME NEW s \in Seq(ContentBlocks), NEW b \in ContentBlocks
  PROVE  Merged(Append(s, b)) = Merge(Merged(s), b)
BY MergedOne

LEMMA MergedType ==
  ASSUME NEW s \in Seq(ContentBlocks)
  PROVE  Merged(s) \in Seq(ContentBlocks)
<1> DEFINE T == {c \in Seq(ContentBlocks) : Merged(c) \in Seq(ContentBlocks)}
<1>1. <<>> \in T
  BY MergedNone, EmptySeq
<1>2. ASSUME NEW c \in Seq(ContentBlocks), NEW b \in ContentBlocks, c \in T
      PROVE  Append(c, b) \in T
  BY <1>2, MergedAppend, MergeType, AppendProperties
<1>3. \A c \in Seq(ContentBlocks) : c \in T
  <2> HIDE DEF T
  <2>1. QED
    BY <1>1, <1>2, SeqInduction, Z3
<1>4. QED
  BY <1>3

-----------------------------------------------------------------------------
(* What one list of blocks has of another *)

\* m is a beginning of w: whole blocks but for the last.
Extends(m, w) ==
  /\ Len(m) <= Len(w)
  /\ \A i \in 1 .. Len(m) : IF i < Len(m) THEN m[i] = w[i] ELSE Begins(m[i], w[i])

LEMMA BeginsOrder ==
  ASSUME NEW x \in ContentBlocks, NEW y \in ContentBlocks, NEW z \in ContentBlocks
  PROVE  /\ Begins(x, x)
         /\ Begins(x, y) /\ Begins(y, z) => Begins(x, z)
<1>1. \A b \in {x, y, z} : b.body \in Strings /\ b.data \in Strings /\ b.signature \in Strings
  BY DEF ContentBlocks
<1>2. \A s, t, u \in Strings : IsPrefix(s, s) /\ (IsPrefix(s, t) /\ IsPrefix(t, u) => IsPrefix(s, u))
  BY PrefixOrder DEF Strings
<1>3. QED
  BY <1>1, <1>2 DEF Begins

LEMMA ExtendsOrder ==
  ASSUME NEW m \in Seq(ContentBlocks), NEW w \in Seq(ContentBlocks),
         NEW v \in Seq(ContentBlocks)
  PROVE  /\ Extends(<<>>, m) /\ Extends(m, m)
         /\ Extends(m, w) /\ Extends(w, v) => Extends(m, v)
<1>1. Len(m) \in Nat /\ Len(w) \in Nat /\ Len(v) \in Nat
  BY LenProperties
<1>2. /\ \A i \in 1 .. Len(m) : m[i] \in ContentBlocks
      /\ \A i \in 1 .. Len(w) : w[i] \in ContentBlocks
      /\ \A i \in 1 .. Len(v) : v[i] \in ContentBlocks
  BY ElementOfSeq
<1>3. Extends(m, m)
  BY <1>1, <1>2, BeginsOrder DEF Extends
<1>4. Extends(<<>>, m)
  <2>1. Len(<<>>) = 0
    OBVIOUS
  <2>2. QED
    BY <1>1, <2>1 DEF Extends
<1>5. ASSUME Extends(m, w), Extends(w, v) PROVE Extends(m, v)
  <2>1. Len(m) <= Len(v)
    BY <1>1, <1>5 DEF Extends
  <2>2. ASSUME NEW i \in 1 .. Len(m)
        PROVE  IF i < Len(m) THEN m[i] = v[i] ELSE Begins(m[i], v[i])
    <3>1. i \in 1 .. Len(w) /\ i \in 1 .. Len(v)
      BY <1>1, <1>5, <2>1 DEF Extends
    <3>2. CASE i < Len(m)
      <4>1. m[i] = w[i] /\ i < Len(w)
        BY <1>1, <1>5, <3>2 DEF Extends
      <4>2. w[i] = v[i]
        BY <1>5, <3>1, <4>1 DEF Extends
      <4>3. QED
        BY <3>2, <4>1, <4>2
    <3>3. CASE ~(i < Len(m))
      <4>1. Begins(m[i], w[i])
        BY <1>5, <3>3 DEF Extends
      <4>2. w[i] = v[i] \/ Begins(w[i], v[i])
        BY <1>5, <3>1 DEF Extends
      <4>3. m[i] \in ContentBlocks /\ w[i] \in ContentBlocks /\ v[i] \in ContentBlocks
        BY <1>2, <3>1
      <4>4. Begins(m[i], v[i])
        BY <4>1, <4>2, <4>3, BeginsOrder
      <4>5. QED
        BY <3>3, <4>4
    <3>4. QED
      BY <3>2, <3>3
  <2>3. QED
    BY <2>1, <2>2 DEF Extends
<1>6. QED
  BY <1>3, <1>4, <1>5

\* Lists that differ in their last block.
LEMMA ExtendsAppend ==
  ASSUME NEW m \in Seq(ContentBlocks), NEW x \in ContentBlocks, NEW y \in ContentBlocks,
         Begins(x, y)
  PROVE  Extends(Append(m, x), Append(m, y))
<1> DEFINE mx == Append(m, x)
           my == Append(m, y)
<1>1. /\ Len(m) \in Nat /\ Len(mx) = Len(m) + 1 /\ Len(my) = Len(m) + 1
      /\ mx[Len(m) + 1] = x /\ my[Len(m) + 1] = y
      /\ \A i \in 1 .. Len(m) : mx[i] = m[i] /\ my[i] = m[i]
  BY AppendProperties, LenProperties
<1> HIDE DEF mx, my
<1>2. Extends(mx, my)
  BY <1>1 DEF Extends
<1>3. QED
  BY <1>2 DEF mx, my

LEMMA MergeOther ==
  ASSUME NEW m \in Seq(ContentBlocks), NEW b \in ContentBlocks, b.type # "text"
  PROVE  Merge(m, b) = Append(m, Plainly(b))
<1>1. CASE m = <<>>
  BY <1>1, MergeFirst
<1>2. CASE m # <<>>
  <2>1. PICK u \in Seq(ContentBlocks), z \in ContentBlocks : m = Append(u, z)
    BY <1>2, SequenceEmptyOrAppend
  <2>2. QED
    BY <2>1, MergeAfter
<1>3. QED
  BY <1>1, <1>2

\* Merging a block takes nothing back.
LEMMA ExtendsMerge ==
  ASSUME NEW m \in Seq(ContentBlocks), NEW b \in ContentBlocks
  PROVE  Extends(m, Merge(m, b))
<1>1. Plainly(b) \in ContentBlocks
  BY PlainlyType
<1>2. CASE m = <<>>
  BY <1>2, MergeType, ExtendsOrder
<1>3. CASE m # <<>>
  <2>1. PICK u \in Seq(ContentBlocks), z \in ContentBlocks : m = Append(u, z)
    BY <1>3, SequenceEmptyOrAppend
  <2>2. CASE z.type = "text" /\ b.type = "text"
    <3>1. Merge(m, b) = Append(u, Grown(z, b))
      BY <2>1, <2>2, MergeAfter
    <3>2. Begins(z, Grown(z, b))
      <4>1. /\ Grown(z, b) \in ContentBlocks /\ Grown(z, b).type = z.type
            /\ Grown(z, b).id = z.id /\ Grown(z, b).data = z.data
            /\ Grown(z, b).signature = z.signature /\ Grown(z, b).body = z.body \o b.body
        BY GrownType
      <4>2. /\ z.body \in Strings /\ z.data \in Strings /\ z.signature \in Strings
            /\ b.body \in Strings
        BY DEF ContentBlocks
      <4>3. \A s, t \in Strings : IsPrefix(s, s) /\ IsPrefix(s, s \o t)
        BY PrefixOrder DEF Strings
      <4>4. QED
        BY <4>1, <4>2, <4>3 DEF Begins
    <3>3. Grown(z, b) \in ContentBlocks
      BY GrownType
    <3>4. QED
      BY <2>1, <3>1, <3>2, <3>3, ExtendsAppend
  <2>3. CASE ~(z.type = "text" /\ b.type = "text")
    <3>1. Merge(m, b) = Append(m, Plainly(b))
      BY <2>1, <2>3, MergeAfter
    <3> DEFINE w == Append(m, Plainly(b))
    <3>2. /\ Len(m) \in Nat /\ Len(w) = Len(m) + 1 /\ \A i \in 1 .. Len(m) : w[i] = m[i]
      BY <1>1, AppendProperties, LenProperties
    <3>3. \A i \in 1 .. Len(m) : Begins(m[i], m[i])
      BY ElementOfSeq, BeginsOrder
    <3> HIDE DEF w
    <3>4. Extends(m, w)
      BY <3>2, <3>3 DEF Extends
    <3>5. QED
      BY <3>1, <3>4 DEF w
  <2>4. QED
    BY <2>2, <2>3
<1>4. QED
  BY <1>2, <1>3

-----------------------------------------------------------------------------
(* Answers and their pieces *)

\* What Init says of provider and answer, which no step changes.
Given == provider \in Providers /\ answer \in Answers(provider)

Indices == 1 .. Len(answer)

LEMMA AnswerShape ==
  ASSUME Given
  PROVE  /\ Len(answer) \in Nat
         /\ \A b \in Indices :
              /\ b \in Nat /\ answer[b].kind \in Kinds(provider)
              /\ answer[b].size \in Nat /\ answer[b].size \in Sizes(provider, answer[b].kind)
              /\ answer[b].deltas \in Deltas(provider, answer[b].kind)
<1>1. PICK n \in 0 .. MaxBlocks : answer \in [1 .. n -> Blocks(provider)]
  BY DEF Given, Answers
<1>2. n \in Nat /\ MaxPieces \in Nat
  BY AssemblyAssumption
<1>3. Len(answer) = n /\ answer \in Seq(Blocks(provider))
  BY <1>1, <1>2
<1>4. ASSUME NEW b \in Indices
      PROVE  /\ answer[b].kind \in Kinds(provider)
             /\ answer[b].size \in Sizes(provider, answer[b].kind)
             /\ answer[b].deltas \in Deltas(provider, answer[b].kind)
  <2>1. answer[b] \in Blocks(provider)
    BY <1>1, <1>2, <1>3 DEF Indices
  <2> DEFINE r == answer[b]
  <2> HIDE DEF r
  <2>2. PICK kind \in Kinds(provider) :
          r \in [kind : {kind}, size : Sizes(provider, kind), deltas : Deltas(provider, kind),
                 signed : IF kind = "tool_use" /\ provider = "gemini" THEN BOOLEAN ELSE {FALSE}]
    BY <2>1 DEF Blocks, r
  <2>3. /\ r.kind = kind /\ r.size \in Sizes(provider, kind)
        /\ r.deltas \in Deltas(provider, kind)
    BY <2>2
  <2>4. QED
    BY <2>3 DEF r
<1>5. \A p, kind : Sizes(p, kind) \subseteq Nat
  BY <1>2 DEF Sizes
<1>6. QED
  BY <1>2, <1>3, <1>4, <1>5 DEF Indices

LEMMA BlockShape ==
  ASSUME Given, NEW b \in Indices
  PROVE  /\ b \in Nat /\ answer[b].size \in Nat
         /\ answer[b].kind \in {"text", "call", "object", "think", "other"} =>
              answer[b].size # 0
         /\ answer[b].kind = "redacted_thinking" => answer[b].size = 1
         /\ answer[b].kind = "tool_use" /\ provider = "gemini" => answer[b].size = 1
         /\ provider \notin {"ollama", "ollama_tools"} =>
              answer[b].kind \in {"text", "tool_use", "thinking", "redacted_thinking", "other"}
         /\ provider \in {"ollama", "ollama_tools"} =>
              answer[b].kind \in {"think", "text", "call", "object"}
<1> DEFINE kind == answer[b].kind
           size == answer[b].size
<1>1. /\ b \in Nat /\ size \in Nat /\ kind \in Kinds(provider) /\ size \in Sizes(provider, kind)
      /\ MaxPieces \in Nat /\ provider \in AllProviders
  BY AnswerShape, AssemblyAssumption DEF Given
<1> HIDE DEF kind, size
<1>2. /\ kind \in {"text", "call", "object", "think", "other"} => size # 0
      /\ kind = "redacted_thinking" => size = 1
      /\ kind = "tool_use" /\ provider = "gemini" => size = 1
  BY <1>1 DEF Sizes
<1>3. /\ provider \notin {"ollama", "ollama_tools"} =>
           kind \in {"text", "tool_use", "thinking", "redacted_thinking", "other"}
      /\ provider \in {"ollama", "ollama_tools"} => kind \in {"think", "text", "call", "object"}
  BY <1>1 DEF Kinds, AllProviders
<1>4. QED
  BY <1>1, <1>2, <1>3 DEF kind, size

\* The first k pieces of a block.
SentOf(b, k) == SubSeq(Pieces(b), 1, k)

LEMMA PieceFacts ==
  ASSUME Given, NEW b \in Indices, NEW k \in 0 .. answer[b].size
  PROVE  /\ Pieces(b) \in Strings /\ Signature(b) \in Strings /\ NoArguments(b) \in Strings
         /\ Len(Pieces(b)) = answer[b].size
         /\ SentOf(b, k) \in Strings /\ Len(SentOf(b, k)) = k
         /\ SentOf(b, 0) = <<>> /\ SentOf(b, answer[b].size) = Pieces(b)
         /\ SentOf(b, k) # NoArguments(b)
         /\ SubSeq(Pieces(b), k + 1, answer[b].size) \in Strings
         /\ Pieces(b) = SentOf(b, k) \o SubSeq(Pieces(b), k + 1, answer[b].size)
<1> DEFINE n == answer[b].size
           s == Pieces(b)
           P == Nat \X Nat
<1>1. n \in Nat /\ b \in Nat
  BY BlockShape
<1>2. s \in Seq(P) /\ Len(s) = n /\ \A i \in 1 .. n : s[i] = <<b, i>>
  <2>1. \A i \in 1 .. n : <<b, i>> \in P
    BY <1>1
  <2>2. s = [i \in 1 .. n |-> <<b, i>>]
    BY DEF Pieces
  <2> HIDE DEF P, n
  <2>3. s \in [1 .. n -> P]
    BY <2>1, <2>2
  <2> HIDE DEF s
  <2>4. s \in Seq(P) /\ Len(s) = n
    BY <1>1, <2>3
  <2>5. QED
    BY <2>2, <2>4
<1>3. Signature(b) \in Strings /\ NoArguments(b) \in Strings
  BY <1>1 DEF Signature, NoArguments, Strings
<1>4. k \in Nat /\ k <= n
  BY <1>1
<1>5. <<b, 0>> # <<b, 1>>
  OBVIOUS
<1> HIDE DEF n, s, P
<1>6. /\ SubSeq(s, 1, k) \in Seq(P) /\ Len(SubSeq(s, 1, k)) = k
      /\ \A i \in 1 .. k : SubSeq(s, 1, k)[i] = s[i]
  <2>1. \A i \in 1 .. k : s[i] \in P
    BY <1>1, <1>2, <1>4, ElementOfSeq
  <2>2. QED
    BY <1>4, <2>1, SubSeqProperties
<1>7. SubSeq(s, k + 1, n) \in Seq(P)
  <2>1. \A i \in k + 1 .. n : s[i] \in P
    BY <1>1, <1>2, <1>4, ElementOfSeq
  <2>2. QED
    BY <1>1, <1>4, <2>1, SubSeqProperties
<1>8. SubSeq(s, 1, 0) = <<>> /\ SubSeq(s, 1, n) = s
  BY <1>2, SubSeqEmpty, SubSeqFull
<1>9. SubSeq(s, 1, k) # NoArguments(b)
  <2>1. Len(NoArguments(b)) = 1 /\ NoArguments(b)[1] = <<b, 0>>
    BY DEF NoArguments
  <2>2. CASE k = 1
    BY <1>1, <1>2, <1>4, <1>5, <1>6, <2>1, <2>2
  <2>3. CASE k # 1
    BY <1>6, <2>1, <2>3
  <2>4. QED
    BY <2>2, <2>3
<1>10. SubSeq(s, 1, k) \o SubSeq(s, k + 1, n) = s
  <2>1. SubSeq(s, 1, k) \o SubSeq(s, k + 1, n) = SubSeq(s, 1, n)
    BY <1>1, <1>2, <1>4, ConcatAdjacentSubSeq
  <2>2. QED
    BY <1>8, <2>1
<1>11. Strings = Seq(P)
  BY DEF Strings, P
<1>12. QED
  BY <1>2, <1>3, <1>6, <1>7, <1>8, <1>9, <1>10, <1>11 DEF SentOf, n, s

\* One piece more.
LEMMA NextPiece ==
  ASSUME Given, NEW b \in Indices, NEW k \in Nat, k < answer[b].size
  PROVE  /\ SentOf(b, k + 1) = SentOf(b, k) \o <<<<b, k + 1>>>>
         /\ <<<<b, k + 1>>>> \in Strings /\ <<<<b, k + 1>>>> # <<>>
<1> DEFINE s == Pieces(b)
           P == Nat \X Nat
<1>1. /\ s \in Seq(P) /\ Len(s) = answer[b].size /\ b \in Nat /\ answer[b].size \in Nat
  <2>1. 0 \in 0 .. answer[b].size
    BY BlockShape
  <2>2. QED
    BY <2>1, PieceFacts, BlockShape DEF Strings
<1>2. k + 1 \in 1 .. Len(s) /\ 1 \in 1 .. Len(s) /\ k + 1 \in 1 .. Len(s) /\ (k + 1) - 1 = k
  BY <1>1
<1>3. s[k + 1] = <<b, k + 1>>
  BY <1>1, <1>2 DEF Pieces
<1> HIDE DEF s, P
<1>4. SubSeq(s, 1, k + 1) = SubSeq(s, 1, k) \o <<s[k + 1]>>
  <2>1. SubSeq(s, 1, k + 1) = SubSeq(s, 1, (k + 1) - 1) \o <<s[k + 1]>>
    BY <1>1, <1>2, SubSeqRecursiveSecond
  <2>2. QED
    BY <1>2, <2>1
<1>5. <<<<b, k + 1>>>> \in Strings
  BY <1>1 DEF Strings
<1>6. QED
  BY <1>3, <1>4, <1>5 DEF SentOf, s

-----------------------------------------------------------------------------
(* The answer block by block *)

\* The content of Chat's response as far as block b.
ParsedTo(b) == FlattenSeq([i \in 1 .. b |-> Parsed(i)])
WholeTo(b)    == Merged(ParsedTo(b))

\* One block more, if there is one.
WithBlock(m, p) == IF p = <<>> THEN m ELSE Merge(m, p[1])

CallSignature(b) == IF answer[b].signed THEN Signature(b) ELSE <<>>

\* A block of which k pieces have been sent.
Partial(b, k) ==
  CASE answer[b].kind = "text" -> IF k = 0 THEN <<>> ELSE <<TextBlock(SentOf(b, k))>>
    [] answer[b].kind = "tool_use" -> <<ToolBlock(b, SentOf(b, k), CallSignature(b))>>
    [] answer[b].kind = "thinking" ->
         IF k > answer[b].size THEN <<ThinkingBlock(Pieces(b), <<>>, Signature(b))>>
         ELSE <<ThinkingBlock(SentOf(b, k), <<>>, <<>>)>>
    [] answer[b].kind = "redacted_thinking" -> <<ThinkingBlock(<<>>, Pieces(b), <<>>)>>
    [] OTHER -> <<>>

\* What has been sent of the answer, when k pieces of block b have been.
SoFar(b, k) == IF b = 0 THEN <<>> ELSE WithBlock(WholeTo(b - 1), Partial(b, k))

AtMostOneBlock(p) == p = <<>> \/ \E x \in ContentBlocks : p = <<x>>

LEMMA CallSignatureType ==
  ASSUME Given, NEW b \in Indices PROVE CallSignature(b) \in Strings
BY BlockShape, PieceFacts, NoString DEF CallSignature

LEMMA ParsedFacts ==
  ASSUME Given, NEW b \in Indices
  PROVE  AtMostOneBlock(Parsed(b)) /\ Parsed(b) \in Seq(ContentBlocks)
<1>1. /\ b \in Nat /\ Pieces(b) \in Strings /\ Signature(b) \in Strings
      /\ NoArguments(b) \in Strings /\ CallSignature(b) \in Strings /\ <<>> \in Strings
  BY BlockShape, PieceFacts, NoString, CallSignatureType
<1>2. Input(b) \in Strings
  BY <1>1 DEF Input
<1>3. AtMostOneBlock(Parsed(b))
  <2>1. CASE answer[b].kind = "text"
    <3>1. Parsed(b) = <<TextBlock(Pieces(b))>>
      BY <2>1 DEF Parsed
    <3>2. QED
      BY <1>1, <3>1, BlockFacts DEF AtMostOneBlock
  <2>2. CASE answer[b].kind = "tool_use"
    <3>1. Parsed(b) = <<ToolBlock(b, Input(b), CallSignature(b))>>
      BY <2>2 DEF Parsed, CallSignature
    <3>2. QED
      BY <1>1, <1>2, <3>1, BlockFacts DEF AtMostOneBlock
  <2>3. CASE answer[b].kind = "thinking"
    <3>1. Parsed(b) = <<ThinkingBlock(Pieces(b), <<>>, Signature(b))>>
      BY <2>3 DEF Parsed
    <3>2. QED
      BY <1>1, <3>1, BlockFacts DEF AtMostOneBlock
  <2>4. CASE answer[b].kind = "redacted_thinking"
    <3>1. Parsed(b) = <<ThinkingBlock(<<>>, Pieces(b), <<>>)>>
      BY <2>4 DEF Parsed
    <3>2. QED
      BY <1>1, <3>1, BlockFacts DEF AtMostOneBlock
  <2>5. CASE answer[b].kind \notin {"text", "tool_use", "thinking", "redacted_thinking"}
    <3>1. Parsed(b) = <<>>
      BY <2>5 DEF Parsed
    <3>2. QED
      BY <3>1 DEF AtMostOneBlock
  <2>6. QED
    BY <2>1, <2>2, <2>3, <2>4, <2>5
<1>4. \A x \in ContentBlocks : <<x>> \in Seq(ContentBlocks)
  OBVIOUS
<1>5. QED
  BY <1>3, <1>4, EmptySeq DEF AtMostOneBlock

\* f is a function of the numbers to n + 1 with values in A, and g is f on those to n.
OneLonger(f, g, n, A) ==
  /\ f = [i \in 1 .. n + 1 |-> f[i]] /\ g = [i \in 1 .. n |-> g[i]]
  /\ \A i \in 1 .. n : g[i] = f[i]
  /\ \A i \in 1 .. n + 1 : f[i] \in A

\* A function of the numbers to n + 1 is one of those to n and one more value.
LEMMA OneMore ==
  ASSUME NEW A, NEW n \in Nat, NEW f, NEW g, OneLonger(f, g, n, A)
  PROVE  f = Append(g, f[n + 1]) /\ g \in Seq(A)
<1>0. /\ f = [i \in 1 .. n + 1 |-> f[i]] /\ g = [i \in 1 .. n |-> g[i]]
      /\ \A i \in 1 .. n : g[i] = f[i]
      /\ \A i \in 1 .. n + 1 : f[i] \in A
  BY DEF OneLonger
<1>1. g \in Seq(A) /\ Len(g) = n /\ f \in Seq(A) /\ Len(f) = n + 1 /\ f[n + 1] \in A
  <2>1. /\ \A i \in 1 .. n : i \in 1 .. n + 1
        /\ n + 1 \in 1 .. n + 1
    OBVIOUS
  <2>2. f \in [1 .. n + 1 -> A] /\ g \in [1 .. n -> A]
    BY <1>0, <2>1
  <2>3. QED
    BY <2>1, <2>2
<1>2. /\ Append(g, f[n + 1]) \in Seq(A) /\ Len(Append(g, f[n + 1])) = n + 1
      /\ \A i \in 1 .. n : Append(g, f[n + 1])[i] = g[i]
      /\ Append(g, f[n + 1])[n + 1] = f[n + 1]
  BY <1>1, AppendProperties
<1>3. \A i \in 1 .. n + 1 : f[i] = Append(g, f[n + 1])[i]
  <2> DEFINE h == Append(g, f[n + 1])
  <2>1. ASSUME NEW i \in 1 .. n + 1, i # n + 1 PROVE f[i] = h[i]
    <3>1. i \in 1 .. n
      BY <2>1
    <3> HIDE DEF h
    <3>2. f[i] = g[i]
      BY <1>0, <3>1
    <3>3. h[i] = g[i]
      BY <1>2, <3>1 DEF h
    <3>4. QED
      BY <3>2, <3>3
  <2>2. f[n + 1] = h[n + 1]
    BY <1>2
  <2> HIDE DEF h
  <2>3. \A i \in 1 .. n + 1 : f[i] = h[i]
    BY <2>1, <2>2
  <2>4. QED
    BY <2>3 DEF h
<1>4. QED
  BY <1>1, <1>2, <1>3, SeqEqual

LEMMA FlattenOneMore ==
  ASSUME NEW A, NEW n \in Nat, NEW f, NEW g, OneLonger(f, g, n, Seq(A))
  PROVE  FlattenSeq(f) = FlattenSeq(g) \o f[n + 1]
<1> DEFINE S == Seq(A)
           p == f[n + 1]
<1>1. f = Append(g, f[n + 1]) /\ g \in Seq(S)
  <2>1. OneLonger(f, g, n, S)
    OBVIOUS
  <2> HIDE DEF S
  <2>2. QED
    BY <2>1, OneMore
<1>2. p \in S
  <2>1. n + 1 \in 1 .. n + 1
    OBVIOUS
  <2>2. QED
    BY <2>1 DEF OneLonger
<1> HIDE DEF p
<1>3. FlattenSeq(Append(g, p)) = FlattenSeq(g) \o p
  BY <1>1, <1>2, FlattenAppend
<1>4. QED
  BY <1>1, <1>3 DEF p

LEMMA NoneParsed == ParsedTo(0) = <<>> /\ WholeTo(0) = <<>>
<1> DEFINE f == [i \in 1 .. 0 |-> Parsed(i)]
<1>1. f = <<>>
  OBVIOUS
<1> HIDE DEF f
<1>2. ParsedTo(0) = FlattenSeq(f)
  BY DEF ParsedTo, f
<1>3. ParsedTo(0) = <<>>
  BY <1>1, <1>2, FlattenNone
<1>4. QED
  BY <1>3, MergedNone DEF WholeTo

LEMMA ParsedToStep ==
  ASSUME Given, NEW b \in Nat, b + 1 \in Indices
  PROVE  ParsedTo(b + 1) = ParsedTo(b) \o Parsed(b + 1)
<1> DEFINE f == [i \in 1 .. b + 1 |-> Parsed(i)]
           g == [i \in 1 .. b |-> Parsed(i)]
<1>1. \A i \in 1 .. b + 1 : f[i] = Parsed(i) /\ f[i] \in Seq(ContentBlocks)
  <2>1. \A i \in 1 .. b + 1 : i \in Indices
    BY AnswerShape DEF Indices
  <2>2. QED
    BY <2>1, ParsedFacts
<1>2. /\ f = [i \in 1 .. b + 1 |-> f[i]] /\ g = [i \in 1 .. b |-> g[i]]
      /\ \A i \in 1 .. b : g[i] = f[i]
      /\ b + 1 \in 1 .. b + 1
  OBVIOUS
<1>3. ParsedTo(b + 1) = FlattenSeq(f) /\ ParsedTo(b) = FlattenSeq(g)
  BY DEF ParsedTo
<1> HIDE DEF f, g
<1>4. FlattenSeq(f) = FlattenSeq(g) \o f[b + 1]
  <2>1. OneLonger(f, g, b, Seq(ContentBlocks))
    BY <1>1, <1>2 DEF OneLonger
  <2>2. QED
    BY <2>1, FlattenOneMore
<1>5. QED
  BY <1>1, <1>2, <1>3, <1>4

LEMMA ParsedToType ==
  ASSUME Given
  PROVE  \A b \in 0 .. Len(answer) : ParsedTo(b) \in Seq(ContentBlocks)
<1> DEFINE T == {b \in Nat : b <= Len(answer) => ParsedTo(b) \in Seq(ContentBlocks)}
<1>1. 0 \in T
  BY NoneParsed, EmptySeq
<1>2. ASSUME NEW b \in Nat, b \in T PROVE b + 1 \in T
  <2>1. SUFFICES ASSUME b + 1 <= Len(answer) PROVE ParsedTo(b + 1) \in Seq(ContentBlocks)
    OBVIOUS
  <2>2. b + 1 \in Indices /\ b <= Len(answer)
    BY <2>1, AnswerShape DEF Indices
  <2>3. ParsedTo(b + 1) = ParsedTo(b) \o Parsed(b + 1)
    BY <1>2, <2>2, ParsedToStep
  <2>4. Parsed(b + 1) \in Seq(ContentBlocks) /\ ParsedTo(b) \in Seq(ContentBlocks)
    BY <1>2, <2>2, ParsedFacts
  <2>5. QED
    BY <2>3, <2>4, ConcatProperties
<1>3. \A b \in Nat : b \in T
  <2> HIDE DEF T
  <2>1. QED
    BY <1>1, <1>2, Merges!SetInduction
<1>4. QED
  BY <1>3, AnswerShape

LEMMA WholeType ==
  ASSUME Given, NEW b \in 0 .. Len(answer)
  PROVE  WholeTo(b) \in Seq(ContentBlocks)
BY ParsedToType, MergedType DEF WholeTo

LEMMA WholeStep ==
  ASSUME Given, NEW b \in Nat, b + 1 \in Indices
  PROVE  WholeTo(b + 1) = WithBlock(WholeTo(b), Parsed(b + 1))
<1>1. b \in 0 .. Len(answer)
  BY AnswerShape DEF Indices
<1>2. ParsedTo(b) \in Seq(ContentBlocks) /\ ParsedTo(b + 1) = ParsedTo(b) \o Parsed(b + 1)
  BY <1>1, ParsedToType, ParsedToStep
<1>3. CASE Parsed(b + 1) = <<>>
  BY <1>2, <1>3, ConcatEmptySeq DEF WholeTo, WithBlock
<1>4. CASE \E x \in ContentBlocks : Parsed(b + 1) = <<x>>
  <2>1. PICK x \in ContentBlocks : Parsed(b + 1) = <<x>>
    BY <1>4
  <2>2. ParsedTo(b + 1) = Append(ParsedTo(b), x)
    BY <1>2, <2>1, AppendIsConcat
  <2>3. WholeTo(b + 1) = Merge(WholeTo(b), x)
    BY <1>2, <2>2, MergedAppend DEF WholeTo
  <2>4. WithBlock(WholeTo(b), <<x>>) = Merge(WholeTo(b), x)
    BY DEF WithBlock
  <2>5. QED
    BY <2>1, <2>3, <2>4
<1>5. QED
  BY <1>3, <1>4, ParsedFacts DEF AtMostOneBlock

LEMMA WithBlockExtends ==
  ASSUME NEW m \in Seq(ContentBlocks), NEW p, AtMostOneBlock(p)
  PROVE  WithBlock(m, p) \in Seq(ContentBlocks) /\ Extends(m, WithBlock(m, p))
<1>1. CASE p = <<>>
  BY <1>1, ExtendsOrder DEF WithBlock
<1>2. CASE \E x \in ContentBlocks : p = <<x>>
  <2>1. PICK x \in ContentBlocks : p = <<x>>
    BY <1>2
  <2>2. WithBlock(m, p) = Merge(m, x)
    BY <2>1 DEF WithBlock
  <2>3. QED
    BY <2>2, MergeType, ExtendsMerge
<1>3. QED
  BY <1>1, <1>2 DEF AtMostOneBlock

\* The whole answer has all that comes before in it.
LEMMA WholeExtends ==
  ASSUME Given, NEW b \in 0 .. Len(answer)
  PROVE  Extends(WholeTo(b), WholeTo(Len(answer)))
<1> DEFINE T == {n \in Nat : b <= n /\ n <= Len(answer) => Extends(WholeTo(b), WholeTo(n))}
<1>1. b \in Nat /\ b <= Len(answer) /\ Len(answer) \in Nat
  BY AnswerShape
<1>2. WholeTo(b) \in Seq(ContentBlocks) /\ Extends(WholeTo(b), WholeTo(b))
  BY WholeType, ExtendsOrder
<1>3. 0 \in T
  BY <1>1, <1>2
<1>4. ASSUME NEW n \in Nat, n \in T PROVE n + 1 \in T
  <2>1. SUFFICES ASSUME b <= n + 1, n + 1 <= Len(answer)
                 PROVE  Extends(WholeTo(b), WholeTo(n + 1))
    OBVIOUS
  <2>2. CASE b = n + 1
    BY <1>2, <2>2
  <2>3. CASE b <= n
    <3>1. /\ n + 1 \in Indices /\ n \in 0 .. Len(answer) /\ n + 1 \in 0 .. Len(answer)
          /\ Extends(WholeTo(b), WholeTo(n))
      BY <1>1, <1>4, <2>1, <2>3 DEF Indices
    <3>2. WholeTo(n + 1) = WithBlock(WholeTo(n), Parsed(n + 1)) /\ AtMostOneBlock(Parsed(n + 1))
      BY <3>1, WholeStep, ParsedFacts
    <3>3. WholeTo(n) \in Seq(ContentBlocks) /\ WholeTo(n + 1) \in Seq(ContentBlocks)
      BY <3>1, WholeType
    <3>4. Extends(WholeTo(n), WholeTo(n + 1))
      BY <3>2, <3>3, WithBlockExtends
    <3>5. QED
      BY <1>2, <3>1, <3>3, <3>4, ExtendsOrder
  <2>4. QED
    BY <1>1, <2>1, <2>2, <2>3
<1>5. \A n \in Nat : n \in T
  <2> HIDE DEF T
  <2>1. QED
    BY <1>3, <1>4, Merges!SetInduction
<1>6. QED
  BY <1>1, <1>5

\* A part of a block, and the whole.
LEMMA PlainlyCall ==
  ASSUME Given, NEW b \in Indices, NEW k \in 0 .. answer[b].size, NEW t \in Strings
  PROVE  /\ Plainly(ToolBlock(b, SentOf(b, k), t)) = ToolBlock(b, SentOf(b, k), t)
         /\ Plainly(ToolBlock(b, Input(b), t)) = ToolBlock(b, Pieces(b), t)
<1>1. /\ b \in Nat /\ Pieces(b) \in Strings /\ NoArguments(b) \in Strings
      /\ SentOf(b, k) \in Strings /\ SentOf(b, k) # NoArguments(b)
      /\ SentOf(b, answer[b].size) = Pieces(b) /\ SentOf(b, 0) = <<>>
  BY BlockShape, PieceFacts
<1>2. Plainly(ToolBlock(b, SentOf(b, k), t)) = ToolBlock(b, SentOf(b, k), t)
  <2> DEFINE x == ToolBlock(b, SentOf(b, k), t)
  <2>1. x = [type |-> "tool_use", id |-> b, body |-> SentOf(b, k), data |-> <<>>,
             signature |-> t]
    BY <1>1, BlockFacts
  <2> HIDE DEF x
  <2>2. x.body = SentOf(b, k) /\ x.id = b
    BY <2>1
  <2>3. Plainly(x) = x
    BY <1>1, <2>2 DEF Plainly
  <2>4. QED
    BY <2>3 DEF x
<1>3. CASE answer[b].size = 0
  <2>1. Input(b) = NoArguments(b) /\ Pieces(b) = <<>>
    BY <1>1, <1>3 DEF Input
  <2> DEFINE x == ToolBlock(b, NoArguments(b), t)
  <2>2. x = [type |-> "tool_use", id |-> b, body |-> NoArguments(b), data |-> <<>>,
             signature |-> t]
    BY <1>1, BlockFacts
  <2>3. ToolBlock(b, <<>>, t) = [type |-> "tool_use", id |-> b, body |-> <<>>, data |-> <<>>,
                                 signature |-> t]
    BY <1>1, BlockFacts, NoString
  <2> HIDE DEF x
  <2>4. x.body = NoArguments(b) /\ x.id = b /\ x.type = "tool_use"
    BY <2>2
  <2>5. Plainly(x) = [x EXCEPT !.body = <<>>]
    BY <2>4 DEF Plainly
  <2>6. Plainly(x) = ToolBlock(b, <<>>, t)
    BY <2>2, <2>3, <2>5
  <2>7. QED
    BY <1>2, <2>1, <2>6 DEF x
<1>4. CASE answer[b].size # 0
  <2>1. Input(b) = Pieces(b) /\ Pieces(b) # NoArguments(b)
    <3>1. answer[b].size \in 0 .. answer[b].size
      BY BlockShape
    <3>2. SentOf(b, answer[b].size) # NoArguments(b)
      BY <3>1, PieceFacts
    <3>3. QED
      BY <1>1, <1>4, <3>2 DEF Input
  <2> DEFINE x == ToolBlock(b, Pieces(b), t)
  <2>2. x = [type |-> "tool_use", id |-> b, body |-> Pieces(b), data |-> <<>>,
             signature |-> t]
    BY <1>1, BlockFacts
  <2> HIDE DEF x
  <2>3. x.body = Pieces(b) /\ x.id = b
    BY <2>2
  <2>4. Plainly(x) = x
    BY <2>1, <2>3 DEF Plainly
  <2>5. QED
    BY <1>2, <2>1, <2>4 DEF x
<1>5. QED
  BY <1>3, <1>4

\* What is meant by the pieces of a block that have been sent.
Position(b, k) ==
  /\ b \in Indices /\ k \in 0 .. Parts(b)
  /\ answer[b].kind = "redacted_thinking" => k = 1

LEMMA PartialFacts ==
  ASSUME Given, NEW b, NEW k, Position(b, k), NEW m \in Seq(ContentBlocks)
  PROVE  /\ AtMostOneBlock(Partial(b, k))
         /\ Extends(WithBlock(m, Partial(b, k)), WithBlock(m, Parsed(b)))
         /\ k = Parts(b) => WithBlock(m, Partial(b, k)) = WithBlock(m, Parsed(b))
<1> DEFINE n == answer[b].size
<1>1. /\ b \in Indices /\ b \in Nat /\ n \in Nat /\ k \in Nat /\ k <= Parts(b)
      /\ answer[b].kind # "thinking" => Parts(b) = n
      /\ answer[b].kind = "thinking" => Parts(b) = n + 1
  BY BlockShape DEF Position, Parts
<1>2. k <= n => k \in 0 .. n
  BY <1>1
<1>3. /\ Pieces(b) \in Strings /\ Signature(b) \in Strings /\ CallSignature(b) \in Strings
      /\ <<>> \in Strings /\ SentOf(b, n) = Pieces(b)
      /\ k <= n => SentOf(b, k) \in Strings
  BY <1>1, <1>2, PieceFacts, CallSignatureType, NoString
<1>4. AtMostOneBlock(Parsed(b))
  BY <1>1, ParsedFacts
<1>5. WithBlock(m, Parsed(b)) \in Seq(ContentBlocks) /\ Extends(m, WithBlock(m, Parsed(b)))
      /\ Extends(WithBlock(m, Parsed(b)), WithBlock(m, Parsed(b)))
  BY <1>4, WithBlockExtends, ExtendsOrder
<1>6. CASE answer[b].kind = "text"
  <2>1. Parsed(b) = <<TextBlock(Pieces(b))>>
    BY <1>6 DEF Parsed
  <2>2. n # 0 /\ k <= n
    BY <1>1, <1>6, BlockShape
  <2>3. CASE k = 0
    <3>1. Partial(b, k) = <<>>
      BY <1>6, <2>3 DEF Partial
    <3>2. QED
      BY <1>1, <1>5, <1>6, <2>2, <2>3, <3>1 DEF AtMostOneBlock, WithBlock
  <2>4. CASE k # 0
    <3> DEFINE s == SentOf(b, k)
               r == SubSeq(Pieces(b), k + 1, n)
    <3>1. /\ s \in Strings /\ r \in Strings /\ Pieces(b) = s \o r
          /\ Partial(b, k) = <<TextBlock(s)>>
      BY <1>1, <1>2, <1>6, <2>2, <2>4, PieceFacts DEF Partial
    <3> HIDE DEF s, r, n
    <3>2. /\ TextBlock(s) \in ContentBlocks /\ TextBlock(r) \in ContentBlocks
          /\ TextBlock(Pieces(b)) \in ContentBlocks
      BY <1>3, <3>1, BlockFacts
    <3>3. /\ WithBlock(m, <<TextBlock(s)>>) = Merge(m, TextBlock(s))
          /\ WithBlock(m, <<TextBlock(Pieces(b))>>) = Merge(m, TextBlock(Pieces(b)))
      BY DEF WithBlock
    <3>4. Merge(Merge(m, TextBlock(s)), TextBlock(r)) = Merge(m, TextBlock(s \o r))
      BY <3>1, MergeTexts
    <3>5. Merge(m, TextBlock(s)) \in Seq(ContentBlocks)
      BY <3>2, MergeType
    <3>6. Extends(Merge(m, TextBlock(s)), Merge(m, TextBlock(Pieces(b))))
      BY <3>1, <3>2, <3>4, <3>5, ExtendsMerge
    <3>7. k = n => s = Pieces(b)
      BY <1>3 DEF s
    <3>8. QED
      BY <1>1, <1>6, <2>1, <3>1, <3>2, <3>3, <3>6, <3>7 DEF AtMostOneBlock
  <2>5. QED
    BY <2>3, <2>4
<1>7. CASE answer[b].kind = "tool_use"
  <2> DEFINE g == CallSignature(b)
             x == ToolBlock(b, SentOf(b, k), g)
             y == ToolBlock(b, Input(b), g)
             z == ToolBlock(b, Pieces(b), g)
  <2>1. k \in 0 .. n /\ k <= n
    BY <1>1, <1>2, <1>7
  <2>2. Partial(b, k) = <<x>> /\ Parsed(b) = <<y>>
    BY <1>7 DEF Partial, Parsed, CallSignature
  <2>3. Input(b) \in Strings
    BY <1>1, <1>3, PieceFacts DEF Input
  <2>4. /\ x \in ContentBlocks /\ y \in ContentBlocks /\ z \in ContentBlocks
        /\ x.type = "tool_use" /\ y.type = "tool_use"
        /\ x = [type |-> "tool_use", id |-> b, body |-> SentOf(b, k), data |-> <<>>,
                signature |-> g]
        /\ z = [type |-> "tool_use", id |-> b, body |-> Pieces(b), data |-> <<>>,
                signature |-> g]
    <3>1. /\ SentOf(b, k) \in Strings /\ Input(b) \in Strings /\ Pieces(b) \in Strings
          /\ g \in Strings /\ b \in Nat
      BY <1>1, <1>3, <2>1, <2>3
    <3> HIDE DEF g
    <3>2. QED
      BY <3>1, BlockFacts
  <2>5. Plainly(x) = x /\ Plainly(y) = z
    BY <1>1, <1>3, <2>1, PlainlyCall
  <2>6. Begins(x, z)
    <3>1. IsPrefix(SentOf(b, k), Pieces(b))
      <4> DEFINE s == SentOf(b, k)
                 r == SubSeq(Pieces(b), k + 1, n)
      <4>1. s \in Strings /\ r \in Strings /\ Pieces(b) = s \o r
        BY <1>1, <2>1, PieceFacts
      <4> HIDE DEF s, r
      <4>2. IsPrefix(s, s \o r)
        BY <4>1, PrefixOrder DEF Strings
      <4>3. QED
        BY <4>1, <4>2 DEF s
    <3>2. IsPrefix(g, g) /\ IsPrefix(<<>>, <<>>)
      BY <1>3, PrefixOrder DEF Strings
    <3> HIDE DEF x, z, g
    <3>3. QED
      BY <2>4, <3>1, <3>2 DEF Begins
  <2> HIDE DEF x, y, z
  <2>7. Merge(m, x) = Append(m, x) /\ Merge(m, y) = Append(m, z)
    BY <2>4, <2>5, MergeOther
  <2>8. Extends(Append(m, x), Append(m, z))
    BY <2>4, <2>6, ExtendsAppend
  <2>9. WithBlock(m, <<x>>) = Append(m, x) /\ WithBlock(m, <<y>>) = Append(m, z)
    BY <2>7 DEF WithBlock
  <2>10. k = n => x = z
    BY <1>3 DEF x, z
  <2>11. QED
    BY <1>1, <1>7, <2>2, <2>4, <2>8, <2>9, <2>10 DEF AtMostOneBlock
<1>8. CASE answer[b].kind = "thinking"
  <2> DEFINE y == ThinkingBlock(Pieces(b), <<>>, Signature(b))
             x == ThinkingBlock(SentOf(b, k), <<>>, <<>>)
  <2>1. Parsed(b) = <<y>> /\ y \in ContentBlocks
    BY <1>3, <1>8, BlockFacts DEF Parsed
  <2>2. CASE k > n
    <3>1. Partial(b, k) = <<y>>
      BY <1>8, <2>2 DEF Partial
    <3>2. QED
      BY <1>5, <2>1, <3>1 DEF AtMostOneBlock
  <2>3. CASE k <= n
    <3>1. Partial(b, k) = <<x>>
      BY <1>1, <1>8, <2>3 DEF Partial
    <3>2. /\ x \in ContentBlocks
          /\ x = [type |-> "thinking", id |-> 0, body |-> SentOf(b, k), data |-> <<>>,
                  signature |-> <<>>]
          /\ y = [type |-> "thinking", id |-> 0, body |-> Pieces(b), data |-> <<>>,
                  signature |-> Signature(b)]
      BY <1>3, <2>3, BlockFacts
    <3>3. Begins(x, y)
      <4>1. IsPrefix(SentOf(b, k), Pieces(b))
        <5> DEFINE s == SentOf(b, k)
                   r == SubSeq(Pieces(b), k + 1, n)
        <5>1. s \in Strings /\ r \in Strings /\ Pieces(b) = s \o r
          BY <1>1, <1>2, <2>3, PieceFacts
        <5> HIDE DEF s, r
        <5>2. IsPrefix(s, s \o r)
          BY <5>1, PrefixOrder DEF Strings
        <5>3. QED
          BY <5>1, <5>2 DEF s
      <4>2. IsPrefix(<<>>, <<>>) /\ IsPrefix(<<>>, Signature(b))
        BY <1>3, PrefixOrder DEF Strings
      <4> HIDE DEF x, y
      <4>3. QED
        BY <3>2, <4>1, <4>2 DEF Begins
    <3> HIDE DEF x, y
    <3>4. x.type # "text" /\ y.type # "text" /\ x.type # "tool_use" /\ y.type # "tool_use"
      BY <3>2
    <3>5. Merge(m, x) = Append(m, x) /\ Merge(m, y) = Append(m, y)
      BY <2>1, <3>2, <3>4, MergeOther, PlainlyType
    <3>6. Extends(Append(m, x), Append(m, y))
      BY <2>1, <3>2, <3>3, ExtendsAppend
    <3>7. WithBlock(m, <<x>>) = Append(m, x) /\ WithBlock(m, <<y>>) = Append(m, y)
      BY <3>5 DEF WithBlock
    <3>8. k # Parts(b)
      BY <1>1, <1>8, <2>3
    <3>9. AtMostOneBlock(<<x>>)
      BY <3>2 DEF AtMostOneBlock
    <3>10. Extends(WithBlock(m, <<x>>), WithBlock(m, <<y>>))
      BY <3>6, <3>7
    <3>11. QED
      BY <2>1, <3>1, <3>8, <3>9, <3>10, Zenon
  <2>4. QED
    BY <1>1, <2>2, <2>3
<1>9. CASE answer[b].kind \notin {"text", "tool_use", "thinking"}
  <2>1. Partial(b, k) = Parsed(b)
    BY <1>9 DEF Partial, Parsed
  <2>2. QED
    BY <1>4, <1>5, <2>1
<1>10. QED
  BY <1>6, <1>7, <1>8, <1>9

-----------------------------------------------------------------------------
(* The accumulator, which has one block open or none *)

TextIn(c, t) ==
  [content |-> c, text |-> t, tool |-> NoTool, toolBuf |-> <<>>, thinking |-> NoThinking]
CallIn(c, id, signature, t) ==
  [content |-> c, text |-> <<>>, tool |-> [id |-> id, signature |-> signature],
   toolBuf |-> t, thinking |-> NoThinking]
ThinkingIn(c, t, data, signature) ==
  [content |-> c, text |-> <<>>, tool |-> NoTool, toolBuf |-> <<>>,
   thinking |-> [open |-> TRUE, text |-> t, data |-> data, signature |-> signature]]

Tidy(a) ==
  \E c \in Seq(ContentBlocks) :
    \/ \E t \in Strings : a = TextIn(c, t)
    \/ \E id \in Nat \ {0}, s, t \in Strings : a = CallIn(c, id, s, t)
    \/ \E t, d, s \in Strings : a = ThinkingIn(c, t, d, s)

\* What a consumer would return now.
Closed(a) == FlushAll(a).content

LEMMA TextClosed ==
  ASSUME NEW c, NEW t
  PROVE  /\ Closed(TextIn(c, t)) = IF t = <<>> THEN c ELSE Append(c, TextBlock(t))
         /\ FlushAll(TextIn(c, t)) = TextIn(Closed(TextIn(c, t)), <<>>)
         /\ BeforeText(TextIn(c, t)) = TextIn(c, t)
<1> DEFINE a == TextIn(c, t)
           u == IF t = <<>> THEN c ELSE Append(c, TextBlock(t))
           v == TextIn(u, <<>>)
<1>1. FlushText(a) = v
  BY DEF FlushText, TextIn
<1>2. v.tool = NoTool /\ v.thinking = NoThinking /\ a.tool = NoTool /\ a.thinking = NoThinking
      /\ v.content = u
  BY DEF TextIn
<1> HIDE DEF a, v, u
<1>3. /\ FlushTool(v) = v /\ FlushThinking(v) = v /\ FlushTool(a) = a /\ FlushThinking(a) = a
  BY <1>2 DEF FlushTool, FlushThinking, NoThinking
<1>4. FlushAll(a) = v /\ BeforeText(a) = a /\ Closed(a) = u
  BY <1>1, <1>2, <1>3 DEF FlushAll, BeforeText, Closed
<1>5. QED
  BY <1>4 DEF a, v, u

LEMMA CallClosed ==
  ASSUME NEW c, NEW id \in Nat \ {0}, NEW s, NEW t
  PROVE  /\ Closed(CallIn(c, id, s, t)) = Append(c, ToolBlock(id, t, s))
         /\ FlushAll(CallIn(c, id, s, t)) = TextIn(Closed(CallIn(c, id, s, t)), <<>>)
         /\ BeforeText(CallIn(c, id, s, t)) = FlushAll(CallIn(c, id, s, t))
<1> DEFINE a == CallIn(c, id, s, t)
           u == Append(c, ToolBlock(id, t, s))
           v == TextIn(u, <<>>)
<1>1. FlushText(a) = a
  BY DEF FlushText, CallIn
<1>2. a.tool # NoTool
  BY DEF CallIn, NoTool
<1>3. FlushTool(a) = v
  BY <1>2 DEF FlushTool, CallIn, TextIn
<1>4. FlushThinking(v) = v /\ v.content = u
  BY DEF FlushThinking, TextIn, NoThinking
<1> HIDE DEF a, v, u
<1>5. FlushAll(a) = v /\ BeforeText(a) = v /\ Closed(a) = u
  BY <1>1, <1>3, <1>4 DEF FlushAll, BeforeText, Closed
<1>6. QED
  BY <1>5 DEF a, v, u

LEMMA ThinkingClosed ==
  ASSUME NEW c, NEW t, NEW d, NEW s
  PROVE  /\ Closed(ThinkingIn(c, t, d, s)) = Append(c, ThinkingBlock(t, d, s))
         /\ FlushAll(ThinkingIn(c, t, d, s)) = TextIn(Closed(ThinkingIn(c, t, d, s)), <<>>)
         /\ BeforeText(ThinkingIn(c, t, d, s)) = FlushAll(ThinkingIn(c, t, d, s))
<1> DEFINE a == ThinkingIn(c, t, d, s)
           u == Append(c, ThinkingBlock(t, d, s))
           v == TextIn(u, <<>>)
<1>1. FlushText(a) = a /\ FlushTool(a) = a
  BY DEF FlushText, FlushTool, ThinkingIn
<1>2. FlushThinking(a) = v /\ v.content = u
  BY DEF FlushThinking, ThinkingIn, TextIn
<1> HIDE DEF a, v, u
<1>3. FlushAll(a) = v /\ BeforeText(a) = v /\ Closed(a) = u
  BY <1>1, <1>2 DEF FlushAll, BeforeText, Closed
<1>4. QED
  BY <1>3 DEF a, v, u

\* What is closed is content, and nothing is open then.
LEMMA TidyCloses ==
  ASSUME NEW a, Tidy(a)
  PROVE  /\ Closed(a) \in Seq(ContentBlocks)
         /\ FlushAll(a) = TextIn(Closed(a), <<>>)
         /\ AtMostOne(a) /\ NoStrayArguments(a)
<1>1. PICK c \in Seq(ContentBlocks) :
        \/ \E t \in Strings : a = TextIn(c, t)
        \/ \E id \in Nat \ {0}, s, t \in Strings : a = CallIn(c, id, s, t)
        \/ \E t, d, s \in Strings : a = ThinkingIn(c, t, d, s)
  BY DEF Tidy
<1>2. CASE \E t \in Strings : a = TextIn(c, t)
  <2>1. PICK t \in Strings : a = TextIn(c, t)
    BY <1>2
  <2>2. Append(c, TextBlock(t)) \in Seq(ContentBlocks)
    BY BlockFacts, AppendProperties
  <2>3. AtMostOne(a) /\ NoStrayArguments(a)
    BY <2>1 DEF AtMostOne, NoStrayArguments, TextIn, NoThinking
  <2>4. QED
    BY <2>1, <2>2, <2>3, TextClosed
<1>3. CASE \E id \in Nat \ {0}, s, t \in Strings : a = CallIn(c, id, s, t)
  <2>1. PICK id \in Nat \ {0}, s \in Strings, t \in Strings : a = CallIn(c, id, s, t)
    BY <1>3
  <2>2. Append(c, ToolBlock(id, t, s)) \in Seq(ContentBlocks)
    BY BlockFacts, AppendProperties
  <2>3. AtMostOne(a) /\ NoStrayArguments(a)
    <3>1. a.tool # NoTool
      BY <2>1 DEF CallIn, NoTool
    <3>2. a.text = <<>> /\ ~a.thinking.open
      BY <2>1 DEF CallIn, NoThinking
    <3>3. QED
      BY <3>1, <3>2 DEF AtMostOne, NoStrayArguments
  <2>4. QED
    BY <2>1, <2>2, <2>3, CallClosed
<1>4. CASE \E t, d, s \in Strings : a = ThinkingIn(c, t, d, s)
  <2>1. PICK t \in Strings, d \in Strings, s \in Strings : a = ThinkingIn(c, t, d, s)
    BY <1>4
  <2>2. Append(c, ThinkingBlock(t, d, s)) \in Seq(ContentBlocks)
    BY BlockFacts, AppendProperties
  <2>3. AtMostOne(a) /\ NoStrayArguments(a)
    BY <2>1 DEF AtMostOne, NoStrayArguments, ThinkingIn
  <2>4. QED
    BY <2>1, <2>2, <2>3, ThinkingClosed
<1>5. QED
  BY <1>1, <1>2, <1>3, <1>4

\* A text is added to what a consumer would return.
LEMMA TextTaken ==
  ASSUME NEW a, Tidy(a), NEW p \in Strings, p # <<>>
  PROVE  LET r == Accumulate(a, Chunk("text", 0, p, <<>>, <<>>))
         IN  Tidy(r) /\ Merged(Closed(r)) = Merge(Merged(Closed(a)), TextBlock(p))
<1> DEFINE k == Chunk("text", 0, p, <<>>, <<>>)
           r == Accumulate(a, k)
<1>1. r = [BeforeText(a) EXCEPT !.text = @ \o p]
  BY DEF Accumulate, Chunk
<1> HIDE DEF r
<1>2. ASSUME NEW c \in Seq(ContentBlocks), NEW t \in Strings, a = TextIn(c, t)
      PROVE  Tidy(r) /\ Merged(Closed(r)) = Merge(Merged(Closed(a)), TextBlock(p))
  <2>1. r = TextIn(c, t \o p)
    <3>1. r = [TextIn(c, t) EXCEPT !.text = @ \o p]
      BY <1>1, <1>2, TextClosed
    <3>2. QED
      BY <3>1 DEF TextIn
  <2>2. t \o p \in Strings /\ t \o p # <<>> /\ (t = <<>> => t \o p = p)
    BY StringFacts
  <2>3. Tidy(r) /\ Closed(r) = Append(c, TextBlock(t \o p))
    BY <2>1, <2>2, TextClosed DEF Tidy
  <2>4. Merged(Closed(r)) = Merge(Merged(c), TextBlock(t \o p))
    BY <2>2, <2>3, MergedAppend, BlockFacts
  <2>5. CASE t = <<>>
    BY <1>2, <2>2, <2>3, <2>4, <2>5, TextClosed
  <2>6. CASE t # <<>>
    <3>1. Merged(Closed(a)) = Merge(Merged(c), TextBlock(t))
      <4>1. Closed(a) = Append(c, TextBlock(t)) /\ TextBlock(t) \in ContentBlocks
        BY <1>2, <2>6, TextClosed, BlockFacts
      <4>2. QED
        BY <4>1, MergedAppend
    <3>2. Merge(Merge(Merged(c), TextBlock(t)), TextBlock(p)) = Merge(Merged(c), TextBlock(t \o p))
      BY MergedType, MergeTexts
    <3>3. QED
      BY <2>3, <2>4, <3>1, <3>2
  <2>7. QED
    BY <2>5, <2>6
<1>3. ASSUME BeforeText(a) = FlushAll(a)
      PROVE  Tidy(r) /\ Merged(Closed(r)) = Merge(Merged(Closed(a)), TextBlock(p))
  <2> DEFINE c == Closed(a)
  <2>1. c \in Seq(ContentBlocks) /\ BeforeText(a) = TextIn(c, <<>>)
    BY <1>3, TidyCloses
  <2>2. <<>> \o p = p
    BY StringFacts
  <2> HIDE DEF c
  <2>3. r = TextIn(c, p)
    BY <1>1, <2>1, <2>2 DEF TextIn
  <2>4. Tidy(r) /\ Closed(r) = Append(c, TextBlock(p))
    BY <2>1, <2>3, TextClosed DEF Tidy
  <2>5. Merged(Closed(r)) = Merge(Merged(c), TextBlock(p))
    BY <2>1, <2>4, MergedAppend, BlockFacts
  <2>6. QED
    BY <2>4, <2>5 DEF c
<1>4. \/ \E c \in Seq(ContentBlocks), t \in Strings : a = TextIn(c, t)
      \/ BeforeText(a) = FlushAll(a)
  BY CallClosed, ThinkingClosed DEF Tidy
<1>5. QED
  BY <1>2, <1>3, <1>4 DEF r

\* A call and a thinking block close what was open.
LEMMA CallTaken ==
  ASSUME NEW a, Tidy(a), NEW id, NEW s, NEW p \in Strings
  PROVE  Accumulate(a, Chunk("tool_use_start", id, p, <<>>, s)) = CallIn(Closed(a), id, s, p)
<1> DEFINE k == Chunk("tool_use_start", id, p, <<>>, s)
           c == Closed(a)
<1>1. Accumulate(a, k) = [FlushAll(a) EXCEPT !.tool = [id |-> id, signature |-> s],
                                             !.toolBuf = @ \o p]
  BY DEF Accumulate, Chunk, ToolOf
<1>2. FlushAll(a) = TextIn(c, <<>>)
  BY TidyCloses
<1>3. <<>> \o p = p
  BY StringFacts
<1> HIDE DEF c, k
<1>4. Accumulate(a, k) = [TextIn(c, <<>>) EXCEPT !.tool = [id |-> id, signature |-> s],
                                                 !.toolBuf = @ \o p]
  BY <1>1, <1>2
<1>5. Accumulate(a, k) = CallIn(c, id, s, p)
  BY <1>3, <1>4 DEF TextIn, CallIn
<1>6. QED
  BY <1>5 DEF c, k

LEMMA ThinkingTaken ==
  ASSUME NEW a, Tidy(a), NEW t, NEW d
  PROVE  Accumulate(a, Chunk("thinking_start", 0, t, d, <<>>)) = ThinkingIn(Closed(a), t, d, <<>>)
<1> DEFINE k == Chunk("thinking_start", 0, t, d, <<>>)
           c == Closed(a)
<1>1. Accumulate(a, k) =
        [FlushAll(a) EXCEPT !.thinking = [open |-> TRUE, text |-> t, data |-> d,
                                          signature |-> <<>>]]
  BY DEF Accumulate, Chunk
<1>2. FlushAll(a) = TextIn(c, <<>>)
  BY TidyCloses
<1> HIDE DEF c, k
<1>3. QED
  BY <1>1, <1>2 DEF TextIn, ThinkingIn, c, k

\* What comes for them afterwards.
LEMMA ArgumentsTaken ==
  ASSUME NEW c, NEW id, NEW s, NEW t, NEW p
  PROVE  Accumulate(CallIn(c, id, s, t), Chunk("tool_use_delta", 0, p, <<>>, <<>>))
           = CallIn(c, id, s, t \o p)
BY DEF Accumulate, Chunk, CallIn

LEMMA ThoughtTaken ==
  ASSUME NEW c, NEW t, NEW d, NEW s, NEW p, NEW g
  PROVE  Accumulate(ThinkingIn(c, t, d, s), Chunk("thinking_delta", 0, p, <<>>, g))
           = ThinkingIn(c, t \o p, d, s \o g)
BY DEF Accumulate, Chunk, ThinkingIn

LEMMA NothingTaken ==
  ASSUME NEW a PROVE Accumulate(a, NoChunk) = a
BY DEF Accumulate, NoChunk, Chunk

LEMMA EmptyIsTidy == Empty = TextIn(<<>>, <<>>) /\ Tidy(Empty) /\ Closed(Empty) = <<>>
<1>1. Empty = TextIn(<<>>, <<>>)
  BY DEF Empty, TextIn
<1>2. QED
  BY <1>1, NoString, EmptySeq, TextClosed DEF Tidy

-----------------------------------------------------------------------------
(* The text of Ollama's answer *)

Stripped(b)   == IF answer[b].kind = "think" THEN <<>> ELSE Pieces(b)
StrippedTo(b) == FlattenSeq([i \in 1 .. b |-> Stripped(i)])

\* What has been sent of it, when nothing of it is thinking.
TextTo(b, k) == IF b = 0 THEN <<>> ELSE StrippedTo(b - 1) \o SentOf(b, k)

LEMMA StrippedAll == StripThinkTags = StrippedTo(Len(answer))
BY DEF StripThinkTags, StrippedTo, Stripped

LEMMA StrippedType ==
  ASSUME Given, NEW b \in Indices PROVE Stripped(b) \in Strings
<1>1. Pieces(b) \in Strings
  <2>1. 0 \in 0 .. answer[b].size
    BY BlockShape
  <2>2. QED
    BY <2>1, PieceFacts
<1>2. QED
  BY <1>1, NoString DEF Stripped

LEMMA StrippedNone == StrippedTo(0) = <<>>
<1> DEFINE f == [i \in 1 .. 0 |-> Stripped(i)]
<1>1. f = <<>>
  OBVIOUS
<1> HIDE DEF f
<1>2. StrippedTo(0) = FlattenSeq(f)
  BY DEF StrippedTo, f
<1>3. QED
  BY <1>1, <1>2, FlattenNone

LEMMA StrippedToStep ==
  ASSUME Given, NEW b \in Nat, b + 1 \in Indices
  PROVE  StrippedTo(b + 1) = StrippedTo(b) \o Stripped(b + 1)
<1> DEFINE f == [i \in 1 .. b + 1 |-> Stripped(i)]
           g == [i \in 1 .. b |-> Stripped(i)]
<1>1. \A i \in 1 .. b + 1 : f[i] = Stripped(i) /\ f[i] \in Strings
  <2>1. \A i \in 1 .. b + 1 : i \in Indices
    BY AnswerShape DEF Indices
  <2>2. QED
    BY <2>1, StrippedType
<1>2. /\ f = [i \in 1 .. b + 1 |-> f[i]] /\ g = [i \in 1 .. b |-> g[i]]
      /\ \A i \in 1 .. b : g[i] = f[i]
      /\ b + 1 \in 1 .. b + 1
  OBVIOUS
<1>3. StrippedTo(b + 1) = FlattenSeq(f) /\ StrippedTo(b) = FlattenSeq(g)
  BY DEF StrippedTo
<1> HIDE DEF f, g
<1>4. FlattenSeq(f) = FlattenSeq(g) \o f[b + 1]
  <2>1. OneLonger(f, g, b, Seq(Nat \X Nat))
    BY <1>1, <1>2 DEF OneLonger, Strings
  <2>2. QED
    BY <2>1, FlattenOneMore
<1>5. QED
  BY <1>1, <1>2, <1>3, <1>4

LEMMA StrippedToType ==
  ASSUME Given
  PROVE  \A b \in 0 .. Len(answer) : StrippedTo(b) \in Strings
<1> DEFINE T == {b \in Nat : b <= Len(answer) => StrippedTo(b) \in Strings}
<1>1. 0 \in T
  BY StrippedNone, NoString
<1>2. ASSUME NEW b \in Nat, b \in T PROVE b + 1 \in T
  <2>1. SUFFICES ASSUME b + 1 <= Len(answer) PROVE StrippedTo(b + 1) \in Strings
    OBVIOUS
  <2>2. b + 1 \in Indices /\ b <= Len(answer)
    BY <2>1, AnswerShape DEF Indices
  <2> DEFINE s == StrippedTo(b)
             t == Stripped(b + 1)
  <2>3. StrippedTo(b + 1) = s \o t /\ t \in Strings /\ s \in Strings
    BY <1>2, <2>2, StrippedToStep, StrippedType
  <2> HIDE DEF s, t, T
  <2>4. s \o t \in Strings
    BY <2>3, StringFacts
  <2>5. QED
    BY <2>3, <2>4
<1>3. \A b \in Nat : b \in T
  <2> HIDE DEF T
  <2>1. QED
    BY <1>1, <1>2, Merges!SetInduction
<1>4. QED
  BY <1>3, AnswerShape

LEMMA StrippedPrefix ==
  ASSUME Given, NEW b \in 0 .. Len(answer)
  PROVE  IsPrefix(StrippedTo(b), StrippedTo(Len(answer)))
<1> DEFINE T == {n \in Nat : b <= n /\ n <= Len(answer) =>
                               IsPrefix(StrippedTo(b), StrippedTo(n))}
<1>1. b \in Nat /\ b <= Len(answer) /\ Len(answer) \in Nat
  BY AnswerShape
<1>2. /\ \A n \in 0 .. Len(answer) : StrippedTo(n) \in Strings
      /\ \A s, t, u \in Strings : /\ IsPrefix(s, s) /\ IsPrefix(s, s \o t)
                                  /\ IsPrefix(s, t) /\ IsPrefix(t, u) => IsPrefix(s, u)
  BY StrippedToType, PrefixOrder DEF Strings
<1>3. 0 \in T
  BY <1>1, <1>2
<1>4. ASSUME NEW n \in Nat, n \in T PROVE n + 1 \in T
  <2>1. SUFFICES ASSUME b <= n + 1, n + 1 <= Len(answer)
                 PROVE  IsPrefix(StrippedTo(b), StrippedTo(n + 1))
    OBVIOUS
  <2>2. CASE b = n + 1
    BY <1>2, <2>2
  <2>3. CASE b <= n
    <3>1. n + 1 \in Indices /\ n \in 0 .. Len(answer) /\ n + 1 \in 0 .. Len(answer)
      BY <1>1, <2>1, <2>3 DEF Indices
    <3>2. /\ StrippedTo(n + 1) = StrippedTo(n) \o Stripped(n + 1)
          /\ Stripped(n + 1) \in Strings /\ IsPrefix(StrippedTo(b), StrippedTo(n))
      BY <1>4, <2>1, <2>3, <3>1, StrippedToStep, StrippedType
    <3>3. /\ StrippedTo(b) \in Strings /\ StrippedTo(n) \in Strings
          /\ StrippedTo(n + 1) \in Strings
      BY <1>2, <3>1
    <3>4. IsPrefix(StrippedTo(n), StrippedTo(n + 1))
      <4>1. IsPrefix(StrippedTo(n), StrippedTo(n) \o Stripped(n + 1))
        BY <3>2, <3>3, PrefixOrder DEF Strings
      <4>2. QED
        BY <3>2, <4>1
    <3>5. QED
      BY <1>2, <3>2, <3>3, <3>4
  <2>4. QED
    BY <1>1, <2>1, <2>2, <2>3
<1>5. \A n \in Nat : n \in T
  <2> HIDE DEF T
  <2>1. QED
    BY <1>3, <1>4, Merges!SetInduction
<1>6. QED
  BY <1>1, <1>5

\* The text grows by the pieces, up to all of it.
LEMMA TextToFacts ==
  ASSUME Given, NEW b \in Indices, answer[b].kind # "think", NEW k \in 0 .. answer[b].size
  PROVE  /\ TextTo(b, k) \in Strings
         /\ TextTo(b, 0) = StrippedTo(b - 1)
         /\ TextTo(b, answer[b].size) = StrippedTo(b)
         /\ IsPrefix(TextTo(b, k), StrippedTo(b))
         /\ k < answer[b].size => TextTo(b, k + 1) = TextTo(b, k) \o <<<<b, k + 1>>>>
<1> DEFINE s == StrippedTo(b - 1)
           p == SentOf(b, k)
           r == SubSeq(Pieces(b), k + 1, answer[b].size)
<1>1. /\ b \in Nat /\ b # 0 /\ b - 1 \in 0 .. Len(answer) /\ b - 1 \in Nat
      /\ (b - 1) + 1 = b /\ answer[b].size \in Nat /\ k \in Nat
  BY BlockShape, AnswerShape DEF Indices
<1>2. /\ s \in Strings /\ p \in Strings /\ r \in Strings /\ Pieces(b) = p \o r
      /\ SentOf(b, 0) = <<>> /\ SentOf(b, answer[b].size) = Pieces(b)
  BY <1>1, StrippedToType, PieceFacts
<1>3. StrippedTo(b) = s \o Pieces(b)
  BY <1>1, StrippedToStep DEF Stripped
<1>4. TextTo(b, k) = s \o p /\ TextTo(b, 0) = s \o <<>>
      /\ TextTo(b, answer[b].size) = s \o Pieces(b)
  BY <1>1, <1>2 DEF TextTo
<1>5. ASSUME k < answer[b].size PROVE TextTo(b, k + 1) = TextTo(b, k) \o <<<<b, k + 1>>>>
  <2>1. TextTo(b, k + 1) = s \o (p \o <<<<b, k + 1>>>>) /\ <<<<b, k + 1>>>> \in Strings
    BY <1>1, <1>5, NextPiece DEF TextTo
  <2> DEFINE q == <<<<b, k + 1>>>>
  <2> HIDE DEF s, p, q
  <2>2. (s \o p) \o q = s \o (p \o q)
    BY <1>2, <2>1, ConcatIsAssociative DEF q
  <2>3. QED
    BY <1>4, <2>1, <2>2 DEF q
<1> HIDE DEF s, p, r
<1>6. s \o p \in Strings /\ s \o <<>> = s /\ (s \o p) \o r = s \o (p \o r)
  <2>1. s \o p \in Strings /\ s \o <<>> = s
    BY <1>2, StringFacts
  <2>2. (s \o p) \o r = s \o (p \o r)
    BY <1>2, ConcatIsAssociative
  <2>3. QED
    BY <2>1, <2>2
<1>7. IsPrefix(s \o p, (s \o p) \o r)
  BY <1>2, <1>6, PrefixOrder DEF Strings
<1>8. QED
  BY <1>2, <1>3, <1>4, <1>5, <1>6, <1>7 DEF s

-----------------------------------------------------------------------------
(* What the accumulator holds of an answer that is arriving *)

Ollama == provider \in {"ollama", "ollama_tools"}

\* c is what was assembled before block b.
Before(c, b) == c \in Seq(ContentBlocks) /\ Merged(c) = WholeTo(b - 1)

\* The block that is arriving is the one that is open; a text may have been open
\* before it arrived.
HoldsBlock(a, b, k) ==
  IF answer[b].kind = "tool_use"
  THEN \E c : Before(c, b) /\ a = CallIn(c, b, CallSignature(b), SentOf(b, k))
  ELSE IF answer[b].kind = "thinking"
  THEN \E c : /\ Before(c, b)
              /\ a = IF k > answer[b].size THEN ThinkingIn(c, Pieces(b), <<>>, Signature(b))
                     ELSE ThinkingIn(c, SentOf(b, k), <<>>, <<>>)
  ELSE Tidy(a) /\ Merged(Closed(a)) = SoFar(b, k)

\* Of Ollama's answer there is one text, or with tools nothing before its end.
Holds(a, b, k) ==
  IF provider = "ollama"
  THEN \E t \in Strings : a = TextIn(<<>>, t) /\ (~KeepsThinking => t = TextTo(b, k))
  ELSE IF provider = "ollama_tools" \/ b = 0 THEN a = Empty
  ELSE HoldsBlock(a, b, k)

Arrived(b, k) ==
  /\ b \in 0 .. Len(answer)
  /\ b # 0 => Position(b, k)

LEMMA SoFarFacts ==
  ASSUME Given, NEW b, NEW k, Arrived(b, k)
  PROVE  /\ SoFar(b, k) \in Seq(ContentBlocks)
         /\ Extends(SoFar(b, k), WholeTo(Len(answer)))
         /\ (b # 0 => k = Parts(b)) => SoFar(b, k) = WholeTo(b)
<1>1. Len(answer) \in Nat /\ Len(answer) \in 0 .. Len(answer)
  BY AnswerShape
<1>2. CASE b = 0
  <2>1. SoFar(b, k) = <<>> /\ WholeTo(b) = <<>>
    BY <1>2, NoneParsed DEF SoFar
  <2>2. WholeTo(Len(answer)) \in Seq(ContentBlocks)
    BY <1>1, WholeType
  <2>3. QED
    BY <2>1, <2>2, ExtendsOrder, EmptySeq
<1>3. CASE b # 0
  <2> DEFINE m == WholeTo(b - 1)
  <2>1. /\ Position(b, k) /\ b \in Indices /\ b - 1 \in Nat /\ (b - 1) + 1 = b
        /\ b - 1 \in 0 .. Len(answer) /\ b \in 0 .. Len(answer)
    BY <1>1, <1>3 DEF Arrived, Position, Indices
  <2>2. m \in Seq(ContentBlocks) /\ SoFar(b, k) = WithBlock(m, Partial(b, k))
    BY <1>3, <2>1, WholeType DEF SoFar
  <2>3. WholeTo(b) = WithBlock(m, Parsed(b))
    BY <2>1, WholeStep
  <2>4. /\ AtMostOneBlock(Partial(b, k))
        /\ Extends(WithBlock(m, Partial(b, k)), WithBlock(m, Parsed(b)))
        /\ k = Parts(b) => WithBlock(m, Partial(b, k)) = WithBlock(m, Parsed(b))
    BY <2>1, <2>2, PartialFacts
  <2>5. SoFar(b, k) \in Seq(ContentBlocks)
    BY <2>2, <2>4, WithBlockExtends
  <2>6. /\ Extends(WholeTo(b), WholeTo(Len(answer))) /\ WholeTo(b) \in Seq(ContentBlocks)
        /\ WholeTo(Len(answer)) \in Seq(ContentBlocks)
    BY <1>1, <2>1, WholeExtends, WholeType
  <2>7. Extends(SoFar(b, k), WholeTo(Len(answer)))
    <3>1. Extends(SoFar(b, k), WholeTo(b))
      BY <2>2, <2>3, <2>4
    <3>2. QED
      BY <2>5, <2>6, <3>1, ExtendsOrder
  <2>8. QED
    BY <1>3, <2>2, <2>3, <2>4, <2>5, <2>7
<1>4. QED
  BY <1>2, <1>3

\* The consumer of a provider but Ollama's has what was sent.
LEMMA HoldsSoFar ==
  ASSUME Given, NEW b, NEW k, Arrived(b, k), NEW a, Holds(a, b, k), ~Ollama
  PROVE  Tidy(a) /\ Merged(Closed(a)) = SoFar(b, k)
<1>1. CASE b = 0
  <2>1. a = Empty /\ SoFar(b, k) = <<>>
    BY <1>1 DEF Holds, Ollama, SoFar
  <2>2. QED
    BY <2>1, EmptyIsTidy, MergedNone
<1>2. CASE b # 0
  <2>1. /\ HoldsBlock(a, b, k) /\ Position(b, k) /\ b \in Indices /\ b \in Nat \ {0}
        /\ SoFar(b, k) = WithBlock(WholeTo(b - 1), Partial(b, k))
    BY <1>2, BlockShape DEF Holds, Ollama, SoFar, Arrived, Position
  <2> DEFINE n == answer[b].size
  <2>2. /\ n \in Nat /\ Pieces(b) \in Strings /\ Signature(b) \in Strings
        /\ CallSignature(b) \in Strings /\ k \in Nat /\ k <= Parts(b)
        /\ k <= n => SentOf(b, k) \in Strings
    <3>1. n \in Nat /\ 0 \in 0 .. n /\ Parts(b) \in Nat
      BY <2>1, BlockShape DEF Parts
    <3>2. k \in Nat /\ k <= Parts(b) /\ (k <= n => k \in 0 .. n)
      BY <2>1, <3>1 DEF Position
    <3>3. QED
      BY <2>1, <3>1, <3>2, PieceFacts, CallSignatureType
  <2>3. CASE answer[b].kind = "tool_use"
    <3>1. PICK c : Before(c, b) /\ a = CallIn(c, b, CallSignature(b), SentOf(b, k))
      BY <2>1, <2>3 DEF HoldsBlock
    <3>2. SentOf(b, k) \in Strings
      BY <2>2, <2>3 DEF Parts
    <3> DEFINE x == ToolBlock(b, SentOf(b, k), CallSignature(b))
    <3>3. x \in ContentBlocks /\ Closed(a) = Append(c, x) /\ c \in Seq(ContentBlocks)
      <4>1. x \in ContentBlocks
        BY <2>1, <2>2, <3>2, BlockFacts
      <4>2. Closed(a) = Append(c, x)
        BY <2>1, <3>1, CallClosed
      <4>3. QED
        BY <3>1, <4>1, <4>2 DEF Before
    <3>4. Tidy(a)
      BY <2>1, <2>2, <3>1, <3>2, <3>3 DEF Tidy
    <3>5. Partial(b, k) = <<x>>
      BY <2>3 DEF Partial
    <3> HIDE DEF x
    <3>6. Merged(Closed(a)) = Merge(WholeTo(b - 1), x)
      BY <3>1, <3>3, MergedAppend DEF Before
    <3>7. QED
      BY <2>1, <3>4, <3>5, <3>6 DEF WithBlock
  <2>4. CASE answer[b].kind = "thinking"
    <3> DEFINE t == IF k > n THEN Pieces(b) ELSE SentOf(b, k)
               s == IF k > n THEN Signature(b) ELSE <<>>
               x == ThinkingBlock(t, <<>>, s)
    <3>1. PICK c : Before(c, b) /\ a = ThinkingIn(c, t, <<>>, s)
      BY <2>1, <2>4 DEF HoldsBlock
    <3>2. t \in Strings /\ s \in Strings /\ <<>> \in Strings
      BY <2>2, NoString
    <3>3. Partial(b, k) = <<x>>
      BY <2>4 DEF Partial
    <3> HIDE DEF t, s
    <3>4. x \in ContentBlocks /\ Closed(a) = Append(c, x) /\ c \in Seq(ContentBlocks)
      BY <3>1, <3>2, BlockFacts, ThinkingClosed DEF Before
    <3>5. Tidy(a)
      BY <3>1, <3>2, <3>4 DEF Tidy
    <3> HIDE DEF x
    <3>6. Merged(Closed(a)) = Merge(WholeTo(b - 1), x)
      BY <3>1, <3>4, MergedAppend DEF Before
    <3>7. QED
      BY <2>1, <3>3, <3>5, <3>6 DEF WithBlock
  <2>5. CASE answer[b].kind \notin {"tool_use", "thinking"}
    BY <2>1, <2>5 DEF HoldsBlock
  <2>6. QED
    BY <2>3, <2>4, <2>5
<1>3. QED
  BY <1>1, <1>2

LEMMA HoldsTidy ==
  ASSUME Given, NEW b, NEW k, Arrived(b, k), NEW a, Holds(a, b, k)
  PROVE  Tidy(a)
<1>1. CASE ~Ollama
  BY <1>1, HoldsSoFar
<1>2. CASE Ollama
  <2>1. \/ a = Empty
        \/ \E t \in Strings : a = TextIn(<<>>, t)
    BY <1>2 DEF Ollama, Holds
  <2>2. QED
    BY <2>1, EmptyIsTidy, EmptySeq DEF Tidy
<1>3. QED
  BY <1>1, <1>2

-----------------------------------------------------------------------------
(* The steps *)

\* A block that starts ends what was assembled before it.
LEMMA StartHolds ==
  ASSUME Given, NEW b \in Nat, NEW k, Arrived(b, k), b # 0 => k = Parts(b),
         b + 1 \in Indices, NEW a, Holds(a, b, k), NEW first \in Carried(b + 1)
  PROVE  /\ Holds(Accumulate(a, StartChunk(b + 1, first)), b + 1, first)
         /\ Position(b + 1, first)
<1> DEFINE d == b + 1
           r == Accumulate(a, StartChunk(d, first))
           kind == answer[d].kind
           n == answer[d].size
<1>1. /\ d \in Indices /\ d \in Nat \ {0} /\ d - 1 = b /\ n \in Nat
      /\ kind \in {"text", "call", "object", "think", "other"} => n # 0
      /\ kind = "redacted_thinking" => n = 1
      /\ kind = "tool_use" /\ provider = "gemini" => n = 1
      /\ ~Ollama => kind \in {"text", "tool_use", "thinking", "redacted_thinking", "other"}
      /\ Ollama => kind \in {"think", "text", "call", "object"}
  BY BlockShape DEF Ollama
<1> HIDE DEF d
<1>2. /\ first \in 0 .. n
      /\ kind = "redacted_thinking" => first = 1
      /\ kind \notin {"redacted_thinking", "thinking", "tool_use"} => first = 0
  BY <1>1 DEF Carried, d
<1>3. Position(d, first)
  BY <1>1, <1>2 DEF Position, Parts
<1>4. /\ SentOf(d, first) \in Strings /\ CallSignature(d) \in Strings /\ Pieces(d) \in Strings
      /\ SentOf(d, n) = Pieces(d)
  BY <1>1, <1>2, PieceFacts, CallSignatureType
<1>5. kind \notin {"tool_use", "thinking", "redacted_thinking"} => r = a
  BY NothingTaken DEF StartChunk
<1>6. CASE ~Ollama
  <2>1. Tidy(a) /\ Merged(Closed(a)) = WholeTo(b) /\ Closed(a) \in Seq(ContentBlocks)
    BY <1>6, HoldsSoFar, SoFarFacts, TidyCloses
  <2>2. Before(Closed(a), d)
    BY <1>1, <2>1 DEF Before
  <2>3. Holds(r, d, first) <=> HoldsBlock(r, d, first)
    BY <1>1, <1>6 DEF Holds, Ollama
  <2>4. CASE kind = "tool_use"
    <3>1. StartChunk(d, first)
            = Chunk("tool_use_start", d, SentOf(d, first), <<>>, CallSignature(d))
      BY <2>4 DEF StartChunk, SentOf, CallSignature
    <3>2. r = CallIn(Closed(a), d, CallSignature(d), SentOf(d, first))
      BY <1>4, <2>1, <3>1, CallTaken
    <3>3. HoldsBlock(r, d, first)
      BY <2>2, <2>4, <3>2 DEF HoldsBlock
    <3>4. QED
      BY <1>3, <2>3, <3>3 DEF d
  <2>5. CASE kind = "thinking"
    <3>1. StartChunk(d, first) = Chunk("thinking_start", 0, SentOf(d, first), <<>>, <<>>)
      BY <2>5 DEF StartChunk, SentOf
    <3>2. r = ThinkingIn(Closed(a), SentOf(d, first), <<>>, <<>>)
      BY <2>1, <3>1, ThinkingTaken
    <3>3. ~(first > n)
      BY <1>1, <1>2
    <3>4. HoldsBlock(r, d, first)
      BY <2>2, <2>5, <3>2, <3>3 DEF HoldsBlock
    <3>5. QED
      BY <1>3, <2>3, <3>4 DEF d
  <2>6. CASE kind = "redacted_thinking"
    <3> DEFINE p == Pieces(d)
               x == ThinkingBlock(<<>>, p, <<>>)
    <3>1. StartChunk(d, first) = Chunk("thinking_start", 0, <<>>, p, <<>>)
      <4>1. SubSeq(Pieces(d), 1, first) = p
        BY <1>1, <1>2, <1>4, <2>6 DEF SentOf
      <4>2. QED
        BY <2>6, <4>1 DEF StartChunk
    <3>2. r = ThinkingIn(Closed(a), <<>>, p, <<>>)
      BY <2>1, <3>1, ThinkingTaken
    <3>3. p \in Strings /\ <<>> \in Strings
      BY <1>4, NoString
    <3>4. Partial(d, first) = <<x>> /\ SoFar(d, first) = WithBlock(WholeTo(b), <<x>>)
      BY <1>1, <2>6 DEF Partial, SoFar
    <3> HIDE DEF p
    <3>5. Tidy(r)
      BY <2>1, <3>2, <3>3 DEF Tidy
    <3>6. Closed(r) = Append(Closed(a), x) /\ x \in ContentBlocks
      BY <3>2, <3>3, ThinkingClosed, BlockFacts
    <3> HIDE DEF x
    <3>7. Merged(Closed(r)) = Merge(WholeTo(b), x)
      BY <2>1, <3>6, MergedAppend
    <3>8. Merged(Closed(r)) = SoFar(d, first)
      BY <3>4, <3>7 DEF WithBlock
    <3>9. HoldsBlock(r, d, first)
      BY <2>6, <3>5, <3>8 DEF HoldsBlock
    <3>10. QED
      BY <1>3, <2>3, <3>9 DEF d
  <2>7. CASE kind \notin {"tool_use", "thinking", "redacted_thinking"}
    <3>1. Partial(d, first) = <<>>
      BY <1>2, <2>7 DEF Partial
    <3>2. SoFar(d, first) = WholeTo(b)
      BY <1>1, <3>1 DEF SoFar, WithBlock
    <3>3. HoldsBlock(r, d, first)
      BY <1>5, <2>1, <2>7, <3>2 DEF HoldsBlock
    <3>4. QED
      BY <1>3, <2>3, <3>3 DEF d
  <2>8. QED
    BY <2>4, <2>5, <2>6, <2>7
<1>7. CASE provider = "ollama_tools"
  <2>1. r = a /\ a = Empty
    BY <1>1, <1>5, <1>7 DEF Holds, Ollama
  <2>2. QED
    BY <1>3, <1>7, <2>1 DEF Holds, d
<1>8. CASE provider = "ollama"
  <2>1. PICK t \in Strings : a = TextIn(<<>>, t) /\ (~KeepsThinking => t = TextTo(b, k))
    BY <1>8 DEF Holds
  <2>2. r = TextIn(<<>>, t)
    BY <1>1, <1>5, <1>8, <2>1 DEF Ollama
  <2>3. ASSUME ~KeepsThinking PROVE t = TextTo(d, first)
    <3>1. /\ kind # "think"
          /\ b # 0 => answer[b].kind # "think" /\ b \in Indices
      BY <1>1, <1>8, <2>3 DEF KeepsThinking, Indices, d
    <3>2. first = 0 /\ 0 \in 0 .. n /\ TextTo(d, 0) = StrippedTo(b)
      BY <1>1, <1>2, <1>8, <3>1, TextToFacts DEF Ollama
    <3>3. TextTo(b, k) = StrippedTo(b)
      <4>1. CASE b = 0
        BY <4>1, StrippedNone DEF TextTo
      <4>2. CASE b # 0
        <5>1. /\ 0 \in 0 .. answer[b].size /\ k = answer[b].size
              /\ answer[b].kind \in {"think", "text", "call", "object"}
          BY <1>8, <3>1, <4>2, BlockShape DEF Parts
        <5>2. QED
          BY <3>1, <4>2, <5>1, TextToFacts
      <4>3. QED
        BY <4>1, <4>2
    <3>4. QED
      BY <2>1, <2>3, <3>2, <3>3
  <2>4. QED
    BY <1>3, <1>8, <2>2, <2>3 DEF Holds, d
<1>9. QED
  BY <1>6, <1>7, <1>8 DEF Ollama

\* The next piece is added to the block it is of.
LEMMA PieceHolds ==
  ASSUME Given, NEW b \in Indices, NEW k \in Nat, Position(b, k), k # Parts(b),
         NEW a, Holds(a, b, k), answer[b].deltas = "own"
  PROVE  /\ Holds(Accumulate(a, DeltaChunk(b, k + 1)), b, k + 1)
         /\ Position(b, k + 1)
<1> DEFINE q == <<<<b, k + 1>>>>
           r == Accumulate(a, DeltaChunk(b, k + 1))
           kind == answer[b].kind
           n == answer[b].size
<1>1. /\ b \in Nat \ {0} /\ n \in Nat /\ k < Parts(b) /\ k + 1 \in 0 .. Parts(b)
      /\ kind # "thinking" => Parts(b) = n
      /\ kind = "thinking" => Parts(b) = n + 1
      /\ kind # "redacted_thinking"
      /\ ~Ollama => kind \in {"text", "tool_use", "thinking", "redacted_thinking", "other"}
      /\ Ollama => kind \in {"think", "text", "call", "object"}
  <2>1. /\ b \in Nat \ {0} /\ n \in Nat
        /\ kind = "redacted_thinking" => n = 1
        /\ ~Ollama => kind \in {"text", "tool_use", "thinking", "redacted_thinking", "other"}
        /\ Ollama => kind \in {"think", "text", "call", "object"}
    BY BlockShape DEF Ollama, Indices
  <2>2. /\ k \in 0 .. Parts(b) /\ (kind = "redacted_thinking" => k = 1)
        /\ kind # "thinking" => Parts(b) = n
        /\ kind = "thinking" => Parts(b) = n + 1
    BY <2>1 DEF Position, Parts
  <2>3. QED
    BY <2>1, <2>2
<1>2. Position(b, k + 1)
  BY <1>1 DEF Position
<1>3. k < n => SentOf(b, k + 1) = SentOf(b, k) \o q /\ q \in Strings /\ q # <<>>
  BY NextPiece
<1>4. /\ SentOf(b, n) = Pieces(b) /\ Signature(b) \in Strings
      /\ k < n => SentOf(b, k) \in Strings
  <2>1. 0 \in 0 .. n /\ (k < n => k \in 0 .. n)
    BY <1>1
  <2>2. QED
    BY <2>1, PieceFacts
<1>5. CASE ~Ollama
  <2>1. HoldsBlock(a, b, k) /\ (Holds(r, b, k + 1) <=> HoldsBlock(r, b, k + 1))
    BY <1>1, <1>5 DEF Holds, Ollama
  <2>2. CASE kind = "tool_use"
    <3>1. PICK c : Before(c, b) /\ a = CallIn(c, b, CallSignature(b), SentOf(b, k))
      BY <2>1, <2>2 DEF HoldsBlock
    <3>2. DeltaChunk(b, k + 1) = Chunk("tool_use_delta", 0, q, <<>>, <<>>)
      BY <1>5, <2>2 DEF DeltaChunk, Ollama
    <3> DEFINE s == SentOf(b, k)
               g == CallSignature(b)
    <3>3. r = CallIn(c, b, g, SentOf(b, k + 1))
      <4>1. SentOf(b, k + 1) = s \o q
        BY <1>1, <1>3, <2>2
      <4> HIDE DEF q, s, g, r
      <4>2. r = Accumulate(CallIn(c, b, g, s), Chunk("tool_use_delta", 0, q, <<>>, <<>>))
        BY <3>1, <3>2 DEF s, g, r
      <4>3. r = CallIn(c, b, g, s \o q)
        BY <4>2, ArgumentsTaken
      <4>4. QED
        BY <4>1, <4>3
    <3>4. HoldsBlock(r, b, k + 1)
      BY <2>2, <3>1, <3>3 DEF HoldsBlock
    <3>5. QED
      BY <1>2, <2>1, <3>4
  <2>3. CASE kind = "thinking"
    <3>1. k <= n /\ ~(k > n)
      BY <1>1, <2>3
    <3>2. PICK c : Before(c, b) /\ a = ThinkingIn(c, SentOf(b, k), <<>>, <<>>)
      BY <2>1, <2>3, <3>1 DEF HoldsBlock
    <3>3. CASE k < n
      <4>1. k + 1 <= n /\ ~(k + 1 > n)
        BY <1>1, <3>3
      <4>2. DeltaChunk(b, k + 1) = Chunk("thinking_delta", 0, q, <<>>, <<>>)
        BY <1>5, <2>3, <4>1 DEF DeltaChunk, Ollama
      <4> DEFINE s == SentOf(b, k)
                 e == <<>>
      <4>3. e \o e = e /\ SentOf(b, k + 1) = s \o q
        BY <1>3, <3>3, NoString, StringFacts
      <4>4. r = ThinkingIn(c, SentOf(b, k + 1), <<>>, <<>>)
        <5> HIDE DEF q, s, e, r
        <5>1. r = Accumulate(ThinkingIn(c, s, e, e), Chunk("thinking_delta", 0, q, <<>>, e))
          BY <3>2, <4>2 DEF s, e, r
        <5>2. r = ThinkingIn(c, s \o q, e, e \o e)
          BY <5>1, ThoughtTaken
        <5>3. QED
          BY <4>3, <5>2 DEF e
      <4>5. HoldsBlock(r, b, k + 1)
        BY <2>3, <3>2, <4>1, <4>4 DEF HoldsBlock
      <4>6. QED
        BY <1>2, <2>1, <4>5
    <3>4. CASE k = n
      <4>1. ~(k + 1 <= n) /\ k + 1 > n
        BY <1>1, <3>4
      <4>2. DeltaChunk(b, k + 1) = Chunk("thinking_delta", 0, <<>>, <<>>, Signature(b))
        BY <1>5, <2>3, <4>1 DEF DeltaChunk, Ollama
      <4> DEFINE s == Pieces(b)
                 g == Signature(b)
                 e == <<>>
      <4>3. s \o e = s /\ e \o g = g
        <5>1. s \in Strings
          BY <1>1, PieceFacts
        <5>2. QED
          BY <1>4, <5>1, StringFacts
      <4>4. r = ThinkingIn(c, Pieces(b), <<>>, Signature(b))
        <5> HIDE DEF s, g, e, r
        <5>1. r = Accumulate(ThinkingIn(c, s, e, e), Chunk("thinking_delta", 0, e, <<>>, g))
          BY <1>4, <3>2, <3>4, <4>2 DEF s, g, e, r
        <5>2. r = ThinkingIn(c, s \o e, e, e \o g)
          BY <5>1, ThoughtTaken
        <5>3. QED
          BY <4>3, <5>2 DEF s, g, e
      <4>5. HoldsBlock(r, b, k + 1)
        BY <2>3, <3>2, <4>1, <4>4 DEF HoldsBlock
      <4>6. QED
        BY <1>2, <2>1, <4>5
    <3>5. QED
      BY <1>1, <3>1, <3>3, <3>4
  <2>4. CASE kind = "text"
    <3> DEFINE m == WholeTo(b - 1)
               s == SentOf(b, k)
    <3>1. /\ b - 1 \in 0 .. Len(answer) /\ k < n
          /\ Tidy(a) /\ Merged(Closed(a)) = SoFar(b, k)
      BY <1>1, <2>1, <2>4, AnswerShape DEF HoldsBlock, Indices
    <3>2. m \in Seq(ContentBlocks) /\ s \in Strings /\ q \in Strings /\ q # <<>>
          /\ SentOf(b, k + 1) = s \o q
      BY <1>3, <1>4, <3>1, WholeType
    <3>3. DeltaChunk(b, k + 1) = Chunk("text", 0, q, <<>>, <<>>)
      BY <1>5, <2>4 DEF DeltaChunk, Ollama
    <3>4. Partial(b, k + 1) = <<TextBlock(s \o q)>>
      <4>1. k + 1 # 0
        OBVIOUS
      <4>2. QED
        BY <2>4, <3>2, <4>1 DEF Partial
    <3>5. SoFar(b, k + 1) = Merge(m, TextBlock(s \o q))
      <4> DEFINE x == TextBlock(s \o q)
      <4>1. Partial(b, k + 1) = <<x>>
        BY <3>4
      <4> HIDE DEF x, m
      <4>2. WithBlock(m, <<x>>) = Merge(m, x)
        BY DEF WithBlock
      <4>3. SoFar(b, k + 1) = WithBlock(m, Partial(b, k + 1))
        BY <1>1 DEF SoFar, m
      <4>4. QED
        BY <4>1, <4>2, <4>3 DEF x
    <3> HIDE DEF q
    <3>6. Tidy(r) /\ Merged(Closed(r)) = Merge(SoFar(b, k), TextBlock(q))
      BY <3>1, <3>2, <3>3, TextTaken
    <3>7. CASE k = 0
      <4>1. SoFar(b, k) = m
        BY <1>1, <2>4, <3>7 DEF SoFar, WithBlock, Partial
      <4>2. s = <<>>
        <5>1. k \in 0 .. n
          BY <1>1, <3>7
        <5>2. QED
          BY <3>7, <5>1, PieceFacts
      <4>3. s \o q = q
        BY <3>2, <4>2, StringFacts
      <4>4. QED
        BY <1>2, <2>1, <2>4, <3>5, <3>6, <4>1, <4>3 DEF HoldsBlock
    <3>8. CASE k # 0
      <4>1. SoFar(b, k) = Merge(m, TextBlock(s))
        BY <1>1, <2>4, <3>8 DEF SoFar, WithBlock, Partial
      <4> HIDE DEF m, s
      <4>2. Merge(Merge(m, TextBlock(s)), TextBlock(q)) = Merge(m, TextBlock(s \o q))
        BY <3>2, MergeTexts
      <4>3. QED
        BY <1>2, <2>1, <2>4, <3>5, <3>6, <4>1, <4>2 DEF HoldsBlock
    <3>9. QED
      BY <3>7, <3>8
  <2>5. CASE kind = "other"
    <3>1. DeltaChunk(b, k + 1) = NoChunk /\ r = a
      BY <1>5, <2>5, NothingTaken DEF DeltaChunk, OtherDelta, Ollama
    <3>2. SoFar(b, k + 1) = SoFar(b, k)
      BY <2>5 DEF SoFar, Partial
    <3>3. QED
      BY <1>2, <2>1, <2>5, <3>1, <3>2 DEF HoldsBlock
  <2>6. QED
    BY <1>1, <1>5, <2>2, <2>3, <2>4, <2>5
<1>6. CASE provider = "ollama_tools"
  <2>1. DeltaChunk(b, k + 1) = NoChunk /\ r = a
    <3>1. DeltaChunk(b, k + 1) = NoChunk
      BY <1>1, <1>6 DEF DeltaChunk, Ollama
    <3>2. QED
      BY <3>1, NothingTaken
  <2>2. QED
    BY <1>2, <1>6, <2>1 DEF Holds
<1>7. CASE provider = "ollama"
  <2>1. PICK t \in Strings : a = TextIn(<<>>, t) /\ (~KeepsThinking => t = TextTo(b, k))
    BY <1>7 DEF Holds
  <2>2. k < n /\ k \in 0 .. n /\ q \in Strings
    BY <1>1, <1>3, <1>7 DEF Ollama
  <2>3. DeltaChunk(b, k + 1) = Chunk("text", 0, q, <<>>, <<>>)
    BY <1>1, <1>7 DEF DeltaChunk, Ollama
  <2>4. r = TextIn(<<>>, t \o q)
    <3> DEFINE c == Chunk("text", 0, q, <<>>, <<>>)
    <3>1. Accumulate(a, c) = [BeforeText(a) EXCEPT !.text = @ \o q]
      BY DEF Accumulate, Chunk
    <3>2. BeforeText(a) = TextIn(<<>>, t)
      BY <2>1, TextClosed
    <3> HIDE DEF c, q
    <3>3. Accumulate(a, c) = [TextIn(<<>>, t) EXCEPT !.text = @ \o q]
      BY <3>1, <3>2
    <3>4. Accumulate(a, c) = TextIn(<<>>, t \o q)
      BY <3>3 DEF TextIn
    <3>5. QED
      BY <2>3, <3>4 DEF c, q
  <2>5. ASSUME ~KeepsThinking PROVE t \o q = TextTo(b, k + 1)
    <3>1. kind # "think"
      BY <1>7, <2>5 DEF KeepsThinking, Indices
    <3>2. QED
      BY <2>1, <2>2, <2>5, <3>1, TextToFacts
  <2>6. t \o q \in Strings
    BY <2>2, StringFacts
  <2>7. QED
    BY <1>2, <1>7, <2>4, <2>5, <2>6 DEF Holds
<1>8. QED
  BY <1>5, <1>6, <1>7 DEF Ollama

-----------------------------------------------------------------------------
(* The accumulator whatever is sent *)

Buffers ==
  [content : Seq(ContentBlocks), text : Strings, tool : [id : Nat, signature : Strings],
   toolBuf : Strings,
   thinking : [open : BOOLEAN, text : Strings, data : Strings, signature : Strings]]

ChunkTypes == {"none", "text", "tool_use_start", "tool_use_delta", "thinking_start",
               "thinking_delta"}

Chunks == [type : ChunkTypes, id : Nat, text : Strings, data : Strings, signature : Strings]

\* What holds of it even when a stream has strayed.
Loose(a) == a \in Buffers /\ AtMostOne(a)

\* Each buffer is emptied into the content.
LEMMA FlushTypes ==
  ASSUME NEW a \in Buffers
  PROVE  /\ FlushText(a) \in Buffers /\ FlushText(a).text = <<>>
         /\ FlushText(a).tool = a.tool /\ FlushText(a).thinking = a.thinking
         /\ FlushTool(a) \in Buffers /\ FlushTool(a).tool = NoTool
         /\ FlushTool(a).text = a.text /\ FlushTool(a).thinking = a.thinking
         /\ FlushThinking(a) \in Buffers /\ ~FlushThinking(a).thinking.open
         /\ FlushThinking(a).tool = a.tool /\ FlushThinking(a).text = a.text
<1>1. /\ a.content \in Seq(ContentBlocks) /\ a.text \in Strings /\ a.toolBuf \in Strings
      /\ a.tool \in [id : Nat, signature : Strings]
      /\ a.thinking \in [open : BOOLEAN, text : Strings, data : Strings, signature : Strings]
      /\ a = [content |-> a.content, text |-> a.text, tool |-> a.tool, toolBuf |-> a.toolBuf,
              thinking |-> a.thinking]
  BY DEF Buffers
<1>2. /\ <<>> \in Strings /\ NoTool \in [id : Nat, signature : Strings] /\ ~NoThinking.open
      /\ NoThinking \in [open : BOOLEAN, text : Strings, data : Strings, signature : Strings]
  BY NoString DEF NoTool, NoThinking
<1>3. /\ a.tool.id \in Nat /\ a.tool.signature \in Strings
      /\ a.thinking.text \in Strings /\ a.thinking.data \in Strings
      /\ a.thinking.signature \in Strings
  BY <1>1
<1> DEFINE x == TextBlock(a.text)
           y == ToolBlock(a.tool.id, a.toolBuf, a.tool.signature)
           z == ThinkingBlock(a.thinking.text, a.thinking.data, a.thinking.signature)
<1>4. x \in ContentBlocks /\ y \in ContentBlocks /\ z \in ContentBlocks
  BY <1>1, <1>3, BlockFacts
<1> HIDE DEF x, y, z
<1>5. /\ Append(a.content, x) \in Seq(ContentBlocks)
      /\ Append(a.content, y) \in Seq(ContentBlocks)
      /\ Append(a.content, z) \in Seq(ContentBlocks)
  BY <1>1, <1>4, AppendProperties
<1>6. /\ FlushText(a) \in Buffers /\ FlushText(a).text = <<>>
      /\ FlushText(a).tool = a.tool /\ FlushText(a).thinking = a.thinking
  <2>1. FlushText(a) = IF a.text = <<>> THEN a
                       ELSE [a EXCEPT !.content = Append(a.content, x), !.text = <<>>]
    BY DEF FlushText, x
  <2>2. QED
    BY <1>1, <1>2, <1>5, <2>1 DEF Buffers
<1>7. /\ FlushTool(a) \in Buffers /\ FlushTool(a).tool = NoTool
      /\ FlushTool(a).text = a.text /\ FlushTool(a).thinking = a.thinking
  <2>1. FlushTool(a) = IF a.tool = NoTool THEN a
                       ELSE [a EXCEPT !.content = Append(a.content, y), !.tool = NoTool,
                                      !.toolBuf = <<>>]
    BY DEF FlushTool, y
  <2>2. QED
    BY <1>1, <1>2, <1>5, <2>1 DEF Buffers
<1>8. /\ FlushThinking(a) \in Buffers /\ ~FlushThinking(a).thinking.open
      /\ FlushThinking(a).tool = a.tool /\ FlushThinking(a).text = a.text
  <2>1. FlushThinking(a) = IF ~a.thinking.open THEN a
                           ELSE [a EXCEPT !.content = Append(a.content, z),
                                          !.thinking = NoThinking]
    BY DEF FlushThinking, z
  <2>2. QED
    BY <1>1, <1>2, <1>5, <2>1 DEF Buffers
<1>9. QED
  BY <1>6, <1>7, <1>8

\* Nothing is open after flushAll.
LEMMA FlushAllTypes ==
  ASSUME NEW a \in Buffers
  PROVE  /\ FlushAll(a) \in Buffers /\ FlushAll(a).text = <<>>
         /\ FlushAll(a).tool = NoTool /\ ~FlushAll(a).thinking.open
<1> DEFINE u == FlushText(a)
           v == FlushTool(u)
<1>1. u \in Buffers /\ u.text = <<>>
  BY FlushTypes
<1> HIDE DEF u
<1>2. v \in Buffers /\ v.text = <<>> /\ v.tool = NoTool
  BY <1>1, FlushTypes
<1> HIDE DEF v
<1>3. /\ FlushThinking(v) \in Buffers /\ FlushThinking(v).text = <<>>
      /\ FlushThinking(v).tool = NoTool /\ ~FlushThinking(v).thinking.open
  BY <1>2, FlushTypes
<1>4. QED
  BY <1>3 DEF FlushAll, u, v

\* The accumulator by its fields, and with some of them changed.
AccumulatorOf(n, s, l, b, h) == [content |-> n, text |-> s, tool |-> l, toolBuf |-> b, thinking |-> h]

LEMMA Changed ==
  ASSUME NEW a \in Buffers, NEW r
  PROVE  /\ \A y : r = [a EXCEPT !.text = y] =>
                   r = AccumulatorOf(a.content, y, a.tool, a.toolBuf, a.thinking)
         /\ \A y : r = [a EXCEPT !.toolBuf = y] =>
                   r = AccumulatorOf(a.content, a.text, a.tool, y, a.thinking)
         /\ \A y : r = [a EXCEPT !.thinking = y] =>
                   r = AccumulatorOf(a.content, a.text, a.tool, a.toolBuf, y)
<1> DEFINE n == a.content
           s == a.text
           l == a.tool
           b == a.toolBuf
           h == a.thinking
<1>1. a = AccumulatorOf(n, s, l, b, h)
  BY DEF AccumulatorOf, Buffers
<1> HIDE DEF n, s, l, b, h
<1>2. ASSUME NEW y
      PROVE  /\ r = [a EXCEPT !.text = y] => r = AccumulatorOf(n, y, l, b, h)
             /\ r = [a EXCEPT !.toolBuf = y] => r = AccumulatorOf(n, s, l, y, h)
             /\ r = [a EXCEPT !.thinking = y] => r = AccumulatorOf(n, s, l, b, y)
  BY <1>1 DEF AccumulatorOf
<1>3. QED
  BY <1>2 DEF n, s, l, b, h

\* Whatever chunk is taken, at most one buffer is in use.
LEMMA AccumulateLoose ==
  ASSUME NEW a, Loose(a), NEW c \in Chunks
  PROVE  Loose(Accumulate(a, c)) /\ Loose(FlushAll(a))
<1> DEFINE r == Accumulate(a, c)
           T == [id : Nat, signature : Strings]
           H == [open : BOOLEAN, text : Strings, data : Strings, signature : Strings]
<1>1. /\ a \in Buffers
      /\ a.tool # NoTool => a.text = <<>> /\ ~a.thinking.open
      /\ a.thinking.open => a.text = <<>>
  BY DEF Loose, AtMostOne
<1>2. /\ c.id \in Nat /\ c.text \in Strings /\ c.data \in Strings /\ c.signature \in Strings
  BY DEF Chunks
<1>3. ASSUME NEW x \in Buffers
      PROVE  /\ x.content \in Seq(ContentBlocks) /\ x.text \in Strings /\ x.tool \in T
             /\ x.toolBuf \in Strings /\ x.thinking \in H
             /\ x.text \o c.text \in Strings /\ x.toolBuf \o c.text \in Strings
             /\ x.thinking.text \o c.text \in Strings /\ x.thinking.data \in Strings
             /\ x.thinking.signature \o c.signature \in Strings /\ x.thinking.open \in BOOLEAN
  <2>1. /\ x.content \in Seq(ContentBlocks) /\ x.text \in Strings /\ x.tool \in T
        /\ x.toolBuf \in Strings /\ x.thinking \in H
    BY DEF Buffers
  <2>2. /\ x.thinking.text \in Strings /\ x.thinking.data \in Strings
        /\ x.thinking.signature \in Strings /\ x.thinking.open \in BOOLEAN
    BY <2>1
  <2>3. QED
    BY <1>2, <2>1, <2>2, StringFacts
<1>4. Loose(FlushAll(a))
  <2> DEFINE u == FlushAll(a)
  <2>1. u \in Buffers /\ u.text = <<>> /\ u.tool = NoTool /\ ~u.thinking.open
    BY <1>1, FlushAllTypes
  <2> HIDE DEF u
  <2>2. Loose(u)
    BY <2>1 DEF Loose, AtMostOne
  <2>3. QED
    BY <2>2 DEF u
<1>5. CASE c.type = "text"
  <2> DEFINE u == FlushTool(a)
             v == BeforeText(a)
  <2>1. u \in Buffers /\ u.tool = NoTool
    BY <1>1, FlushTypes
  <2>2. v \in Buffers /\ v.tool = NoTool /\ ~v.thinking.open
    <3> HIDE DEF u
    <3>1. FlushThinking(u) \in Buffers /\ FlushThinking(u).tool = NoTool
          /\ ~FlushThinking(u).thinking.open
      BY <2>1, FlushTypes
    <3>2. QED
      BY <3>1 DEF BeforeText, u
  <2>3. r = [v EXCEPT !.text = v.text \o c.text]
    BY <1>5 DEF Accumulate
  <2> HIDE DEF v, r
  <2>4. r = AccumulatorOf(v.content, v.text \o c.text, v.tool, v.toolBuf, v.thinking)
    BY <2>2, <2>3, Changed
  <2>5. r \in Buffers
    BY <1>3, <2>2, <2>4 DEF Buffers, AccumulatorOf
  <2>6. AtMostOne(r)
    BY <2>2, <2>4 DEF AtMostOne, AccumulatorOf
  <2>7. QED
    BY <1>4, <2>5, <2>6 DEF Loose, r
<1>6. CASE c.type = "tool_use_start"
  <2> DEFINE v == FlushAll(a)
             l == [id |-> c.id, signature |-> c.signature]
  <2>1. v \in Buffers /\ v.text = <<>> /\ ~v.thinking.open
    BY <1>1, FlushAllTypes
  <2>2. r = [v EXCEPT !.tool = l, !.toolBuf = v.toolBuf \o c.text]
    BY <1>6 DEF Accumulate, ToolOf
  <2>3. l \in T
    BY <1>2
  <2> HIDE DEF v, r, l
  <2>4. r = AccumulatorOf(v.content, v.text, l, v.toolBuf \o c.text, v.thinking)
    <3> DEFINE y == v.toolBuf \o c.text
    <3>1. r = [v EXCEPT !.tool = l, !.toolBuf = y]
      BY <2>2
    <3>2. v = AccumulatorOf(v.content, v.text, v.tool, v.toolBuf, v.thinking)
      BY <2>1 DEF AccumulatorOf, Buffers
    <3> DEFINE n == v.content
               s == v.text
               t == v.tool
               b == v.toolBuf
               h == v.thinking
    <3>3. v = AccumulatorOf(n, s, t, b, h)
      BY <3>2
    <3> HIDE DEF y, n, s, t, b, h
    <3>4. r = AccumulatorOf(n, s, l, y, h)
      BY <3>1, <3>3 DEF AccumulatorOf
    <3>5. QED
      BY <3>4 DEF y, n, s, t, b, h
  <2>5. r \in Buffers
    BY <1>3, <2>1, <2>3, <2>4 DEF Buffers, AccumulatorOf
  <2>6. AtMostOne(r)
    BY <2>1, <2>4 DEF AtMostOne, AccumulatorOf
  <2>7. QED
    BY <1>4, <2>5, <2>6 DEF Loose, r
<1>7. CASE c.type = "tool_use_delta"
  <2>1. r = [a EXCEPT !.toolBuf = a.toolBuf \o c.text]
    BY <1>7 DEF Accumulate
  <2> HIDE DEF r
  <2>2. r = AccumulatorOf(a.content, a.text, a.tool, a.toolBuf \o c.text, a.thinking)
    BY <1>1, <2>1, Changed
  <2>3. r \in Buffers
    BY <1>1, <1>3, <2>2 DEF Buffers, AccumulatorOf
  <2>4. AtMostOne(r)
    BY <1>1, <2>2 DEF AtMostOne, AccumulatorOf
  <2>5. QED
    BY <1>4, <2>3, <2>4 DEF Loose, r
<1>8. CASE c.type = "thinking_start"
  <2> DEFINE v == FlushAll(a)
             h == [open |-> TRUE, text |-> c.text, data |-> c.data, signature |-> c.signature]
  <2>1. v \in Buffers /\ v.text = <<>> /\ v.tool = NoTool
    BY <1>1, FlushAllTypes
  <2>2. r = [v EXCEPT !.thinking = h]
    BY <1>8 DEF Accumulate
  <2>3. h \in H
    BY <1>2
  <2> HIDE DEF v, r, h
  <2>4. r = AccumulatorOf(v.content, v.text, v.tool, v.toolBuf, h)
    BY <2>1, <2>2, Changed
  <2>5. r \in Buffers
    BY <1>3, <2>1, <2>3, <2>4 DEF Buffers, AccumulatorOf
  <2>6. AtMostOne(r)
    BY <2>1, <2>4 DEF AtMostOne, AccumulatorOf
  <2>7. QED
    BY <1>4, <2>5, <2>6 DEF Loose, r
<1>9. CASE c.type = "thinking_delta" /\ a.thinking.open
  <2> DEFINE h == [open |-> TRUE, text |-> a.thinking.text \o c.text, data |-> a.thinking.data,
                   signature |-> a.thinking.signature \o c.signature]
  <2>1. r = [a EXCEPT !.thinking.text = @ \o c.text, !.thinking.signature = @ \o c.signature]
    BY <1>9 DEF Accumulate
  <2>2. a.thinking.open = TRUE
    BY <1>1, <1>3, <1>9
  <2>3. h \in H
    BY <1>1, <1>3
  <2> HIDE DEF r
  <2>4. r = AccumulatorOf(a.content, a.text, a.tool, a.toolBuf, h)
    <3> DEFINE n == a.content
               s == a.text
               t == a.tool
               b == a.toolBuf
               x == a.thinking.text
               d == a.thinking.data
               g == a.thinking.signature
               y == c.text
               z == c.signature
    <3>1. a = AccumulatorOf(n, s, t, b, a.thinking)
      BY <1>1 DEF AccumulatorOf, Buffers
    <3>2. a.thinking = [open |-> TRUE, text |-> x, data |-> d, signature |-> g]
      BY <1>1, <2>2 DEF Buffers
    <3>3. r = [a EXCEPT !.thinking.text = @ \o y, !.thinking.signature = @ \o z]
      BY <2>1
    <3> HIDE DEF n, s, t, b, x, d, g, y, z
    <3>4. a = AccumulatorOf(n, s, t, b, [open |-> TRUE, text |-> x, data |-> d, signature |-> g])
      BY <3>1, <3>2
    <3>5. r = AccumulatorOf(n, s, t, b, [open |-> TRUE, text |-> x \o y, data |-> d, signature |-> g \o z])
      BY <3>3, <3>4 DEF AccumulatorOf
    <3>6. QED
      BY <3>5 DEF n, s, t, b, x, d, g, y, z
  <2> HIDE DEF h
  <2>5. r \in Buffers
    BY <1>1, <1>3, <2>3, <2>4 DEF Buffers, AccumulatorOf
  <2>6. AtMostOne(r)
    BY <1>1, <1>9, <2>4 DEF AtMostOne, AccumulatorOf
  <2>7. QED
    BY <1>4, <2>5, <2>6 DEF Loose, r
<1>10. CASE /\ c.type \notin {"text", "tool_use_start", "tool_use_delta", "thinking_start"}
            /\ ~(c.type = "thinking_delta" /\ a.thinking.open)
  <2>1. r = a
    BY <1>10 DEF Accumulate
  <2>2. QED
    BY <1>4, <2>1
<1>11. QED
  BY <1>5, <1>6, <1>7, <1>8, <1>9, <1>10

\* What is sent of an answer are chunks.
LEMMA NoChunkTyped == NoChunk \in Chunks
BY NoString DEF NoChunk, Chunk, Chunks, ChunkTypes

LEMMA StartTyped ==
  ASSUME Given, NEW b \in Nat, b + 1 \in Indices, NEW first \in Carried(b + 1)
  PROVE  StartChunk(b + 1, first) \in Chunks /\ Position(b + 1, first)
<1> DEFINE d == b + 1
           kind == answer[d].kind
           n == answer[d].size
<1>1. /\ d \in Indices /\ d \in Nat /\ n \in Nat
      /\ kind = "redacted_thinking" => n = 1
      /\ kind = "tool_use" /\ provider = "gemini" => n = 1
  BY BlockShape
<1> HIDE DEF d
<1>2. first \in 0 .. n /\ (kind = "redacted_thinking" => first = 1)
  BY <1>1 DEF Carried, d
<1>3. Position(d, first)
  BY <1>1, <1>2 DEF Position, Parts
<1> DEFINE s == SentOf(d, first)
           g == IF answer[d].signed THEN Signature(d) ELSE <<>>
<1>4. s \in Strings /\ g \in Strings /\ <<>> \in Strings
  BY <1>1, <1>2, PieceFacts, NoString
<1>5. StartChunk(d, first) \in {Chunk("tool_use_start", d, s, <<>>, g),
                               Chunk("thinking_start", 0, s, <<>>, <<>>),
                               Chunk("thinking_start", 0, <<>>, s, <<>>), NoChunk}
  BY DEF StartChunk, SentOf
<1> HIDE DEF s, g
<1>6. StartChunk(d, first) \in Chunks
  BY <1>1, <1>4, <1>5, NoChunkTyped DEF Chunk, Chunks, ChunkTypes
<1>7. QED
  BY <1>3, <1>6 DEF d

LEMMA PieceTyped ==
  ASSUME Given, NEW b \in Indices, NEW k \in Nat, Position(b, k), k # Parts(b)
  PROVE  DeltaChunk(b, k + 1) \in Chunks /\ Position(b, k + 1)
<1> DEFINE q == <<<<b, k + 1>>>>
           g == Signature(b)
<1>1. /\ b \in Nat /\ answer[b].size \in Nat
      /\ answer[b].kind = "redacted_thinking" => answer[b].size = 1
  BY BlockShape
<1>2. q \in Strings /\ g \in Strings /\ <<>> \in Strings
  BY <1>1, NoString DEF Strings, Signature
<1>3. Position(b, k + 1)
  BY <1>1 DEF Position, Parts
<1>4. DeltaChunk(b, k + 1) \in {Chunk("tool_use_delta", 0, q, <<>>, <<>>),
                               Chunk("thinking_delta", 0, q, <<>>, <<>>),
                               Chunk("thinking_delta", 0, <<>>, <<>>, g),
                               Chunk("text", 0, q, <<>>, <<>>), NoChunk}
  BY DEF DeltaChunk, OtherDelta
<1> HIDE DEF q, g
<1>5. DeltaChunk(b, k + 1) \in Chunks
  BY <1>2, <1>4, NoChunkTyped DEF Chunk, Chunks, ChunkTypes
<1>6. QED
  BY <1>3, <1>5

\* What is tidy is loose.
LEMMA TidyLoose ==
  ASSUME NEW a, Tidy(a)
  PROVE  Loose(a) /\ NoStrayArguments(a)
<1>1. AtMostOne(a) /\ NoStrayArguments(a)
  BY TidyCloses
<1>2. a \in Buffers
  <2>1. <<>> \in Strings /\ NoTool \in [id : Nat, signature : Strings]
        /\ NoThinking \in [open : BOOLEAN, text : Strings, data : Strings, signature : Strings]
    BY NoString DEF NoTool, NoThinking
  <2>2. PICK c \in Seq(ContentBlocks) :
          \/ \E t \in Strings : a = TextIn(c, t)
          \/ \E id \in Nat \ {0}, s, t \in Strings : a = CallIn(c, id, s, t)
          \/ \E t, d, s \in Strings : a = ThinkingIn(c, t, d, s)
    BY DEF Tidy
  <2>3. \A t \in Strings : TextIn(c, t) \in Buffers
    BY <2>1 DEF TextIn, Buffers
  <2>4. \A id \in Nat \ {0}, s, t \in Strings : CallIn(c, id, s, t) \in Buffers
    BY <2>1 DEF CallIn, Buffers
  <2>5. \A t, d, s \in Strings : ThinkingIn(c, t, d, s) \in Buffers
    BY <2>1 DEF ThinkingIn, Buffers
  <2>6. QED
    BY <2>2, <2>3, <2>4, <2>5
<1>3. QED
  BY <1>1, <1>2 DEF Loose

-----------------------------------------------------------------------------
(* The end of a stream *)

\* The call that Ollama's answer makes is a block of it.
LEMMA CallFound ==
  ASSUME Given, TryParseToolCall # 0
  PROVE  TryParseToolCall \in Indices
<1> DEFINE S == {b \in 1 .. Len(answer) : answer[b].kind \in {"call", "object"}}
           found == S # {} /\ answer[Min(S)].kind = "call"
<1>1. TryParseToolCall = IF found THEN Min(S) ELSE 0
  BY DEF TryParseToolCall
<1>2. S \in SUBSET Nat /\ \A b \in S : b \in Indices
  BY AnswerShape DEF Indices
<1>3. S # {} => Min(S) \in S
  <2> HIDE DEF S
  <2>1. S # {} => \E m \in S : \A n \in S : m <= n
    BY <1>2, Merges!LeastMember
  <2>2. QED
    BY <2>1 DEF Min
<1>4. found => S # {}
  OBVIOUS
<1> HIDE DEF S, found
<1>5. QED
  BY <1>1, <1>2, <1>3, <1>4

LEMMA OllamaContentType ==
  ASSUME Given
  PROVE  /\ OllamaContent \in Seq(ContentBlocks)
         /\ Merged(OllamaContent) \in Seq(ContentBlocks)
         /\ StripThinkTags \in Strings
<1>1. StripThinkTags \in Strings
  <2>1. Len(answer) \in 0 .. Len(answer)
    BY AnswerShape
  <2>2. QED
    BY <2>1, StrippedAll, StrippedToType
<1>2. TryParseToolCall # 0 => Pieces(TryParseToolCall) \in Strings
  <2> DEFINE d == TryParseToolCall
  <2>1. ASSUME d # 0 PROVE Pieces(d) \in Strings
    <3>1. d \in Indices
      BY <2>1, CallFound
    <3> HIDE DEF d
    <3>2. 0 \in 0 .. answer[d].size
      BY <3>1, AnswerShape
    <3>3. QED
      BY <3>1, <3>2, PieceFacts
  <2>2. QED
    BY <2>1
<1>3. /\ TextBlock(StripThinkTags) \in ContentBlocks
      /\ TryParseToolCall # 0 => ToolBlock(1, Pieces(TryParseToolCall), <<>>) \in ContentBlocks
  BY <1>1, <1>2, NoString, BlockFacts
<1>4. <<>> \in Seq(ContentBlocks) /\ \A x \in ContentBlocks : <<x>> \in Seq(ContentBlocks)
  OBVIOUS
<1>5. OllamaContent \in Seq(ContentBlocks)
  BY <1>3, <1>4 DEF OllamaContent
<1>6. QED
  BY <1>1, <1>5, MergedType

LEMMA OneMerged ==
  ASSUME NEW x \in ContentBlocks
  PROVE  Merged(<<x>>) = Merge(<<>>, x)
<1>1. <<x>> = Append(<<>>, x)
  OBVIOUS
<1>2. QED
  BY <1>1, EmptySeq, MergedNone, MergedAppend

LEMMA AnswerMerged ==
  ASSUME Given
  PROVE  /\ ~Ollama => Merged(ParseChatResponse) = WholeTo(Len(answer))
         /\ Ollama => Merged(ParseChatResponse) = Merged(OllamaContent)
         /\ Merged(ParseChatResponse) \in Seq(ContentBlocks)
<1>1. /\ ~Ollama => Merged(ParseChatResponse) = WholeTo(Len(answer))
      /\ Ollama => Merged(ParseChatResponse) = Merged(OllamaContent)
  BY DEF ParseChatResponse, Ollama, WholeTo, ParsedTo
<1>2. Len(answer) \in 0 .. Len(answer)
  BY AnswerShape
<1>3. QED
  BY <1>1, <1>2, WholeType, OllamaContentType

\* One text has another in it if it is a beginning of it.
LEMMA TextExtends ==
  ASSUME NEW s \in Strings, NEW t \in Strings, IsPrefix(s, t)
  PROVE  Extends(Merged(IF s = <<>> THEN <<>> ELSE <<TextBlock(s)>>),
                 Merged(IF t = <<>> THEN <<>> ELSE <<TextBlock(t)>>))
<1> DEFINE x == TextBlock(s)
           y == TextBlock(t)
           m == Merged(IF t = <<>> THEN <<>> ELSE <<y>>)
<1>1. x \in ContentBlocks /\ y \in ContentBlocks /\ x.type = "text" /\ y.type = "text"
      /\ x.body = s /\ y.body = t
      /\ x = [type |-> "text", id |-> 0, body |-> s, data |-> <<>>, signature |-> <<>>]
      /\ y = [type |-> "text", id |-> 0, body |-> t, data |-> <<>>, signature |-> <<>>]
  <2>1. /\ x \in ContentBlocks /\ y \in ContentBlocks
        /\ x = [type |-> "text", id |-> 0, body |-> s, data |-> <<>>, signature |-> <<>>]
        /\ y = [type |-> "text", id |-> 0, body |-> t, data |-> <<>>, signature |-> <<>>]
    BY NoString, BlockFacts
  <2> HIDE DEF x, y
  <2>2. QED
    BY <2>1
<1>2. m \in Seq(ContentBlocks)
  <2> HIDE DEF y
  <2>1. (IF t = <<>> THEN <<>> ELSE <<y>>) \in Seq(ContentBlocks)
    BY <1>1
  <2>2. QED
    BY <2>1, MergedType
<1>3. CASE s = <<>>
  <2>1. Extends(<<>>, m)
    <3> HIDE DEF m
    <3>1. QED
      BY <1>2, ExtendsOrder
  <2>2. QED
    BY <1>3, <2>1, MergedNone
<1>4. CASE s # <<>>
  <2>1. t # <<>>
    <3> DEFINE P == Nat \X Nat
    <3>1. s \in Seq(P) /\ t \in Seq(P)
      BY DEF Strings
    <3> HIDE DEF P
    <3>2. Len(s) <= Len(t) /\ Len(s) \in Nat /\ Len(t) \in Nat /\ Len(s) # 0
      BY <1>4, <3>1, PrefixPointwise, LenProperties, EmptySeq
    <3>3. QED
      BY <3>2
  <2>2. Begins(x, y)
    <3>1. IsPrefix(<<>>, <<>>)
      BY NoString, PrefixOrder DEF Strings
    <3>2. /\ x.id = y.id /\ x.data = <<>> /\ y.data = <<>>
          /\ x.signature = <<>> /\ y.signature = <<>>
      <4> HIDE DEF x, y
      <4>1. QED
        BY <1>1
    <3> HIDE DEF x, y
    <3>3. QED
      BY <1>1, <3>1, <3>2 DEF Begins
  <2> HIDE DEF x, y
  <2>3. Plainly(x) = x /\ Plainly(y) = y
    BY <1>1, PlainlyType
  <2>4. Merged(<<x>>) = Append(<<>>, x) /\ Merged(<<y>>) = Append(<<>>, y)
    BY <1>1, <2>3, OneMerged, MergeFirst
  <2>5. Extends(Append(<<>>, x), Append(<<>>, y))
    BY <1>1, <2>2, ExtendsAppend, EmptySeq
  <2>6. QED
    BY <1>4, <2>1, <2>4, <2>5 DEF x, y
<1>5. QED
  BY <1>3, <1>4

\* A stream that ends where it is: what is closed is a beginning of the answer,
\* and the answer when all of it was sent.
LEMMA EndHolds ==
  ASSUME Given, NEW b, NEW k, Arrived(b, k), NEW a, Holds(a, b, k), ~KeepsThinking
  PROVE  /\ Extends(Merged(Closed(a)), Merged(ParseChatResponse))
         /\ provider # "ollama_tools" /\ b = Len(answer) /\ (b # 0 => k = Parts(b)) =>
              Merged(Closed(a)) = Merged(ParseChatResponse)
<1>1. Len(answer) \in Nat /\ Merged(ParseChatResponse) \in Seq(ContentBlocks)
  BY AnswerShape, AnswerMerged
<1>2. CASE ~Ollama
  <2>1. Merged(Closed(a)) = SoFar(b, k) /\ Merged(ParseChatResponse) = WholeTo(Len(answer))
    BY <1>2, HoldsSoFar, AnswerMerged
  <2>2. /\ Extends(SoFar(b, k), WholeTo(Len(answer)))
        /\ (b # 0 => k = Parts(b)) => SoFar(b, k) = WholeTo(b)
    BY SoFarFacts
  <2>3. QED
    BY <2>1, <2>2
<1>3. CASE provider = "ollama_tools"
  <2>1. a = Empty
    BY <1>3 DEF Holds
  <2>2. Merged(Closed(a)) = <<>>
    BY <2>1, EmptyIsTidy, MergedNone
  <2>3. Extends(<<>>, Merged(ParseChatResponse))
    <3> DEFINE m == Merged(ParseChatResponse)
    <3>1. m \in Seq(ContentBlocks)
      BY <1>1
    <3> HIDE DEF m
    <3>2. Extends(<<>>, m)
      BY <3>1, ExtendsOrder
    <3>3. QED
      BY <3>2 DEF m
  <2>4. QED
    BY <1>3, <2>2, <2>3
<1>4. CASE provider = "ollama"
  <2> DEFINE s == TextTo(b, k)
             t == StripThinkTags
  <2>1. a = TextIn(<<>>, s)
    BY <1>4 DEF Holds
  <2>2. Closed(a) = IF s = <<>> THEN <<>> ELSE <<TextBlock(s)>>
    <3>1. Closed(TextIn(<<>>, s)) = IF s = <<>> THEN <<>> ELSE Append(<<>>, TextBlock(s))
      BY TextClosed
    <3>2. \A x : Append(<<>>, x) = <<x>>
      OBVIOUS
    <3>3. QED
      BY <2>1, <3>1, <3>2
  <2>3. Merged(ParseChatResponse) = Merged(IF t = <<>> THEN <<>> ELSE <<TextBlock(t)>>)
    BY <1>4, AnswerMerged DEF Ollama, OllamaContent
  <2>4. t = StrippedTo(Len(answer)) /\ t \in Strings
    BY StrippedAll, OllamaContentType
  <2>5. s \in Strings /\ IsPrefix(s, t) /\ (b = Len(answer) /\ (b # 0 => k = Parts(b)) => s = t)
    <3>1. CASE b = 0
      <4>1. s = <<>>
        BY <3>1 DEF TextTo
      <4>2. s \in Strings
        BY <4>1, NoString
      <4>3. IsPrefix(<<>>, t)
        BY <2>4, PrefixOrder DEF Strings
      <4>4. QED
        BY <2>4, <3>1, <4>1, <4>2, <4>3, StrippedNone
    <3>2. CASE b # 0
      <4>1. /\ b \in Indices /\ k \in 0 .. Parts(b) /\ b \in 0 .. Len(answer)
            /\ answer[b].kind \in {"think", "text", "call", "object"}
        BY <1>4, <3>2, BlockShape DEF Arrived, Position, Ollama
      <4>2. answer[b].kind # "think"
        BY <1>4, <4>1 DEF KeepsThinking, Indices
      <4>3. Parts(b) = answer[b].size /\ k \in 0 .. answer[b].size
        <5>1. answer[b].size \in Nat
          BY <4>1, BlockShape
        <5>2. Parts(b) = answer[b].size
          BY <4>1, <5>1 DEF Parts
        <5>3. QED
          BY <4>1, <5>2
      <4>4. /\ s \in Strings /\ IsPrefix(s, StrippedTo(b))
            /\ TextTo(b, answer[b].size) = StrippedTo(b)
        BY <4>1, <4>2, <4>3, TextToFacts
      <4>5. IsPrefix(StrippedTo(b), t) /\ StrippedTo(b) \in Strings
        BY <2>4, <4>1, StrippedPrefix, StrippedToType
      <4>6. IsPrefix(s, t)
        <5> DEFINE u == StrippedTo(b)
        <5>1. u \in Strings /\ IsPrefix(s, u) /\ IsPrefix(u, t)
          BY <4>4, <4>5
        <5> HIDE DEF s, t, u
        <5>2. QED
          BY <2>4, <4>4, <5>1, PrefixOrder DEF Strings
      <4>7. ASSUME b = Len(answer), k = Parts(b) PROVE s = t
        <5>1. s = TextTo(b, answer[b].size)
          BY <4>3, <4>7
        <5>2. QED
          BY <2>4, <4>4, <4>7, <5>1
      <4> HIDE DEF s, t
      <4>8. QED
        BY <3>2, <4>4, <4>6, <4>7
    <3>3. QED
      BY <3>1, <3>2
  <2> HIDE DEF s, t
  <2>6. Extends(Merged(Closed(a)), Merged(ParseChatResponse))
    BY <2>2, <2>3, <2>4, <2>5, TextExtends
  <2>7. QED
    BY <2>2, <2>3, <2>5, <2>6
<1>5. QED
  BY <1>2, <1>3, <1>4 DEF Ollama

\* What Ollama's stream sends at the end.
LEMMA FinalTyped == ASSUME Given PROVE FinalChunk \in Chunks
<1> DEFINE t == StripThinkTags
           d == TryParseToolCall
<1>1. t \in Strings /\ <<>> \in Strings
  BY OllamaContentType, NoString
<1>2. d # 0 => Pieces(d) \in Strings
  <2>1. ASSUME d # 0 PROVE Pieces(d) \in Strings
    <3>1. d \in Indices
      BY <2>1, CallFound
    <3> HIDE DEF d
    <3>2. 0 \in 0 .. answer[d].size
      BY <3>1, AnswerShape
    <3>3. QED
      BY <3>1, <3>2, PieceFacts
  <2>2. QED
    BY <2>1
<1>3. FinalChunk = IF provider # "ollama_tools" \/ t = <<>> THEN NoChunk
                   ELSE IF d # 0 THEN Chunk("tool_use_start", 1, Pieces(d), <<>>, <<>>)
                   ELSE Chunk("text", 0, t, <<>>, <<>>)
  BY DEF FinalChunk
<1> HIDE DEF t, d
<1>4. QED
  BY <1>1, <1>2, <1>3, NoChunkTyped DEF Chunk, Chunks, ChunkTypes

\* The end of Ollama's answer with tools brings all of it.
LEMMA FinalHolds ==
  ASSUME Given, provider = "ollama_tools"
  PROVE  LET r == Accumulate(Empty, FinalChunk)
         IN  Tidy(r) /\ Merged(Closed(r)) = Merged(ParseChatResponse)
<1> DEFINE t == StripThinkTags
           d == TryParseToolCall
           r == Accumulate(Empty, FinalChunk)
<1>1. t \in Strings /\ Merged(ParseChatResponse) = Merged(OllamaContent)
  BY AnswerMerged, OllamaContentType DEF Ollama
<1>2. Empty = TextIn(<<>>, <<>>) /\ Tidy(Empty) /\ Closed(Empty) = <<>>
  BY EmptyIsTidy
<1>3. CASE t = <<>>
  <2>1. FinalChunk = NoChunk /\ OllamaContent = <<>>
    BY <1>3 DEF FinalChunk, OllamaContent
  <2>2. r = Empty
    BY <2>1, NothingTaken
  <2>3. QED
    BY <1>1, <1>2, <2>1, <2>2
<1>4. CASE t # <<>> /\ d # 0
  <2> DEFINE p == Pieces(d)
             x == ToolBlock(1, p, <<>>)
  <2>1. p \in Strings
    <3>1. d \in Indices
      BY <1>4, CallFound
    <3> HIDE DEF d
    <3>2. 0 \in 0 .. answer[d].size
      BY <3>1, AnswerShape
    <3>3. QED
      BY <3>1, <3>2, PieceFacts
  <2>2. FinalChunk = Chunk("tool_use_start", 1, p, <<>>, <<>>) /\ OllamaContent = <<x>>
    BY <1>4 DEF FinalChunk, OllamaContent
  <2> HIDE DEF p
  <2>3. r = CallIn(<<>>, 1, <<>>, p)
    BY <1>2, <2>1, <2>2, CallTaken
  <2> DEFINE one == 1
             e == <<>>
  <2>4. Closed(r) = Append(<<>>, x) /\ Tidy(r)
    <3>1. one \in Nat \ {0} /\ e \in Strings /\ e \in Seq(ContentBlocks)
      BY NoString
    <3>2. r = CallIn(e, one, e, p)
      BY <2>3
    <3> HIDE DEF r, one, e
    <3>3. Closed(r) = Append(e, ToolBlock(one, p, e))
      BY <3>1, <3>2, CallClosed
    <3>4. Tidy(r)
      BY <2>1, <3>1, <3>2 DEF Tidy
    <3>5. QED
      BY <3>3, <3>4 DEF one, e
  <2>6. Append(<<>>, x) = <<x>>
    OBVIOUS
  <2>7. QED
    BY <1>1, <2>2, <2>4, <2>6
<1>5. CASE t # <<>> /\ d = 0
  <2> DEFINE x == TextBlock(t)
  <2>1. FinalChunk = Chunk("text", 0, t, <<>>, <<>>) /\ OllamaContent = <<x>>
    BY <1>5 DEF FinalChunk, OllamaContent
  <2>2. x \in ContentBlocks
    BY <1>1, NoString, BlockFacts
  <2> HIDE DEF t, x
  <2>3. Tidy(r) /\ Merged(Closed(r)) = Merge(Merged(Closed(Empty)), TextBlock(t))
    BY <1>1, <1>2, <1>5, <2>1, TextTaken
  <2>4. Merged(<<x>>) = Merge(<<>>, x)
    BY <2>2, OneMerged
  <2>5. QED
    BY <1>1, <1>2, <2>1, <2>3, <2>4, MergedNone DEF x
<1>6. QED
  BY <1>3, <1>4, <1>5

-----------------------------------------------------------------------------
(* The inductive invariant *)

\* What is returned is only known once the stream has ended; until then, that the
\* consumer holds what was sent.
AInv ==
  /\ Given
  /\ Arrived(block, piece) /\ block \in Nat /\ piece \in Nat
  /\ Loose(acc)
  /\ ~Strayed => Tidy(acc) /\ (ending = "open" => Holds(acc, block, piece))
  /\ StreamedAsAnswered
  /\ PartialIsPrefix

\* What no step changes.
LEMMA Steady ==
  ASSUME provider' = provider, answer' = answer, NEW a, NEW b, NEW k
  PROVE  /\ Given' <=> Given
         /\ Arrived(b, k)' <=> Arrived(b, k)
         /\ Holds(a, b, k)' <=> Holds(a, b, k)
<1>1. Given' <=> Given
  BY DEF Given, Answers, InOrder, Blocks, Kinds, Sizes
<1>2. \A c : Pieces(c)' = Pieces(c) /\ Parsed(c)' = Parsed(c)
             /\ CallSignature(c)' = CallSignature(c) /\ Stripped(c)' = Stripped(c)
  BY DEF Pieces, Parsed, Input, CallSignature, Stripped
<1>3. \A c, n : SentOf(c, n)' = SentOf(c, n) /\ Partial(c, n)' = Partial(c, n)
  BY <1>2 DEF SentOf, Partial
<1>4. \A c : WholeTo(c)' = WholeTo(c) /\ StrippedTo(c)' = StrippedTo(c)
  BY <1>2 DEF WholeTo, ParsedTo, StrippedTo
<1>5. \A c, n : SoFar(c, n)' = SoFar(c, n) /\ TextTo(c, n)' = TextTo(c, n)
  BY <1>3, <1>4 DEF SoFar, TextTo
<1>6. \A c, n : Before(c, n)' <=> Before(c, n)
  BY <1>4 DEF Before
<1>7. KeepsThinking' <=> KeepsThinking
  BY DEF KeepsThinking
<1>8. Arrived(b, k)' <=> Arrived(b, k)
  BY DEF Arrived, Position, Indices, Parts
<1>9. HoldsBlock(a, b, k)' <=> HoldsBlock(a, b, k)
  BY <1>2, <1>3, <1>5, <1>6 DEF HoldsBlock
<1>10. Holds(a, b, k)' <=> Holds(a, b, k)
  BY <1>5, <1>7, <1>9 DEF Holds
<1>11. QED
  BY <1>1, <1>8, <1>10

LEMMA SteadyAnswer ==
  ASSUME provider' = provider, answer' = answer
  PROVE  /\ ParseChatResponse' = ParseChatResponse
         /\ KeepsThinking' <=> KeepsThinking
<1>1. \A c : Pieces(c)' = Pieces(c) /\ Parsed(c)' = Parsed(c)
  BY DEF Pieces, Parsed, Input
<1>2. StripThinkTags' = StripThinkTags /\ TryParseToolCall' = TryParseToolCall
  BY <1>1 DEF StripThinkTags, TryParseToolCall
<1>3. OllamaContent' = OllamaContent
  BY <1>1, <1>2 DEF OllamaContent
<1>4. ParseChatResponse' = ParseChatResponse
  BY <1>1, <1>3 DEF ParseChatResponse
<1>5. QED
  BY <1>4 DEF KeepsThinking

LEMMA PartialIs ==
  PartialIsPrefix <=>
    (ending # "open" /\ ~KeepsThinking /\ ~Strayed =>
       Extends(Merged(acc.content), Merged(ParseChatResponse)))
BY DEF PartialIsPrefix, Extends

LEMMA AInvInit == Init => AInv
<1> SUFFICES ASSUME Init PROVE AInv
  OBVIOUS
<1>1. Given /\ block = 0 /\ piece = 0 /\ acc = Empty /\ ending = "open"
  BY DEF Init, Given
<1>2. Arrived(block, piece)
  BY <1>1, AnswerShape DEF Arrived
<1>3. Holds(acc, block, piece)
  <2>1. CASE provider = "ollama"
    <3>1. acc = TextIn(<<>>, <<>>) /\ TextTo(block, piece) = <<>>
      BY <1>1, EmptyIsTidy DEF TextTo
    <3>2. QED
      BY <2>1, <3>1, NoString DEF Holds
  <2>2. CASE provider # "ollama"
    BY <1>1, <2>2 DEF Holds
  <2>3. QED
    BY <2>1, <2>2
<1>4. Tidy(acc)
  BY <1>1, EmptyIsTidy
<1>5. StreamedAsAnswered /\ PartialIsPrefix
  BY <1>1 DEF StreamedAsAnswered, PartialIsPrefix
<1>6. QED
  BY <1>1, <1>2, <1>3, <1>4, <1>5, TidyLoose DEF AInv

\* A stream that has strayed stays astray, and only Anthropic's can.
LEMMA StrayedStays ==
  ASSUME answer' = answer, block \in Nat, block' \in {block, block + 1}
  PROVE  Strayed => Strayed'
<1>1. 1 .. block \subseteq 1 .. block'
  OBVIOUS
<1>2. QED
  BY <1>1 DEF Strayed

LEMMA OnlyAnthropicStrays ==
  ASSUME Given, block \in 0 .. Len(answer), Strayed
  PROVE  provider = "anthropic"
<1>1. PICK b \in Indices : answer[b].deltas # "own"
  BY AnswerShape DEF Strayed, Indices
<1>2. answer[b].deltas \in Deltas(provider, answer[b].kind)
  BY <1>1, AnswerShape
<1>3. QED
  BY <1>1, <1>2 DEF Deltas

\* A step that leaves the stream open, and leaves the consumer what was sent.
LEMMA OpenKeeps ==
  ASSUME AInv, provider' = provider, answer' = answer, ending = "open", ending' = "open",
         Arrived(block', piece'), block' \in {block, block + 1}, piece' \in Nat,
         Loose(acc'), ~Strayed' => Holds(acc', block', piece')
  PROVE  AInv'
<1>1. Given /\ Given'
  BY Steady DEF AInv
<1>2. Arrived(block, piece)'
  BY Steady
<1>3. ~Strayed' => Holds(acc, block, piece)'
  BY Steady
<1>4. ~Strayed' => Tidy(acc)'
  <2>1. Holds(acc', block', piece') => Tidy(acc')
    BY <1>1, HoldsTidy
  <2>2. Tidy(acc') => Tidy(acc)'
    BY DEF Tidy
  <2>3. QED
    BY <2>1, <2>2
<1>5. StreamedAsAnswered' /\ PartialIsPrefix'
  BY DEF StreamedAsAnswered, PartialIsPrefix
<1>6. Loose(acc)' /\ block' \in Nat
  BY DEF Loose, AtMostOne, AInv
<1>7. QED
  BY <1>1, <1>2, <1>3, <1>4, <1>5, <1>6 DEF AInv

\* What the consumer returns.
LEMMA EndKeeps ==
  ASSUME AInv, ending = "open", NEW how, NEW c \in Chunks, End(how, c), how # "open",
         ~Strayed =>
           LET r == Accumulate(acc, c)
           IN /\ Tidy(r)
              /\ ~KeepsThinking => Extends(Merged(Closed(r)), Merged(ParseChatResponse))
              /\ how = "done" /\ AnswerSent /\ ~KeepsThinking =>
                   Merged(Closed(r)) = Merged(ParseChatResponse)
  PROVE  AInv'
<1> DEFINE r == Accumulate(acc, c)
<1>1. /\ provider' = provider /\ answer' = answer /\ block' = block /\ piece' = piece
      /\ ending' = how /\ acc' = FlushAll(r) /\ (Strayed' <=> Strayed)
  BY DEF End, Strayed
<1>2. Loose(acc)'
  <2>1. Loose(r)
    BY AccumulateLoose DEF AInv
  <2> HIDE DEF r
  <2>2. Loose(FlushAll(r))
    BY <2>1, AccumulateLoose, NoChunkTyped
  <2>3. QED
    BY <1>1, <2>2 DEF Loose, AtMostOne
<1>3. ASSUME ~Strayed PROVE acc'.content = Closed(r) /\ Tidy(acc')
  <2>0. acc' = TextIn(Closed(r), <<>>) /\ Closed(r) \in Seq(ContentBlocks)
    BY <1>1, <1>3, TidyCloses
  <2> DEFINE u == Closed(r)
  <2>1. u \in Seq(ContentBlocks) /\ acc' = TextIn(u, <<>>)
    BY <2>0
  <2> HIDE DEF u, r
  <2>2. acc'.content = u
    BY <2>1 DEF TextIn
  <2>3. Tidy(acc')
    BY <2>1, NoString DEF Tidy
  <2>4. QED
    BY <2>2, <2>3 DEF u
<1>4. Given' /\ Arrived(block, piece)' /\ block' \in Nat /\ piece' \in Nat
  BY <1>1, Steady DEF AInv
<1>5. /\ ParseChatResponse' = ParseChatResponse /\ (KeepsThinking' <=> KeepsThinking)
      /\ AnswerSent' <=> AnswerSent
  <2>1. AnswerSent' <=> AnswerSent
    BY <1>1 DEF AnswerSent, BlockSent, Parts
  <2>2. QED
    BY <1>1, <2>1, SteadyAnswer
<1>6. StreamedAsAnswered'
  BY <1>1, <1>3, <1>5 DEF StreamedAsAnswered
<1>7. PartialIsPrefix'
  <2>1. ASSUME ~KeepsThinking', ~Strayed'
        PROVE  Extends(Merged(acc'.content), Merged(ParseChatResponse'))
    BY <1>1, <1>3, <1>5, <2>1
  <2>2. QED
    BY <2>1 DEF PartialIsPrefix, Extends
<1>8. ending' # "open" /\ (~Strayed' => Tidy(acc)')
  BY <1>1, <1>3 DEF Tidy
<1>9. QED
  BY <1>2, <1>4, <1>6, <1>7, <1>8 DEF AInv

LEMMA AInvNext == AInv /\ [Next]_vars => AInv'
<1> SUFFICES ASSUME AInv, [Next]_vars PROVE AInv'
  OBVIOUS
<1>1. /\ Given /\ Arrived(block, piece) /\ block \in Nat /\ piece \in Nat /\ Loose(acc)
      /\ ~Strayed => Tidy(acc) /\ (ending = "open" => Holds(acc, block, piece))
  BY DEF AInv
<1>2. CASE StartBlock
  <2>1. /\ ending = "open" /\ (block # 0 => piece = Parts(block)) /\ block < Len(answer)
        /\ block' = block + 1 /\ piece' \in Carried(block')
        /\ acc' = Accumulate(acc, StartChunk(block', piece'))
        /\ provider' = provider /\ answer' = answer /\ ending' = ending
    BY <1>2 DEF StartBlock, Send, BlockSent
  <2>2. block + 1 \in Indices /\ Len(answer) \in Nat
    BY <1>1, <2>1, AnswerShape DEF Indices
  <2>3. Loose(acc') /\ Position(block + 1, piece')
    BY <1>1, <2>1, <2>2, StartTyped, AccumulateLoose
  <2>4. Arrived(block', piece') /\ block' \in Nat /\ piece' \in Nat
    <3>1. piece' \in 0 .. Parts(block') /\ block' \in 0 .. Len(answer)
      BY <1>1, <2>1, <2>2, <2>3 DEF Position, Indices
    <3>2. Parts(block') \in Nat
      BY <1>1, <2>1, <2>2, AnswerShape DEF Parts
    <3>3. QED
      BY <2>1, <2>3, <3>1, <3>2 DEF Arrived
  <2>5. ASSUME ~Strayed' PROVE Holds(acc', block', piece')
    <3>1. ~Strayed
      BY <1>1, <2>1, <2>5, StrayedStays
    <3>2. Holds(acc', block + 1, piece')
      BY <1>1, <2>1, <2>2, <3>1, StartHolds
    <3>3. QED
      BY <2>1, <3>2
  <2>6. QED
    BY <2>1, <2>3, <2>4, <2>5, OpenKeeps
<1>3. CASE SendPiece
  <2>1. /\ ending = "open" /\ block # 0 /\ piece # Parts(block)
        /\ piece' = piece + 1 /\ acc' = Accumulate(acc, DeltaChunk(block, piece'))
        /\ provider' = provider /\ answer' = answer /\ block' = block /\ ending' = ending
    BY <1>3 DEF SendPiece, Send, BlockSent
  <2>2. Position(block, piece) /\ block \in Indices
    BY <1>1, <2>1 DEF Arrived, Position
  <2>3. Loose(acc') /\ Position(block, piece + 1)
    BY <1>1, <2>1, <2>2, PieceTyped, AccumulateLoose
  <2>4. Arrived(block', piece') /\ block' \in Nat /\ piece' \in Nat
    BY <1>1, <2>1, <2>3 DEF Arrived
  <2>5. ASSUME ~Strayed' PROVE Holds(acc', block', piece')
    <3>1. ~Strayed
      BY <1>1, <2>1, <2>5, StrayedStays
    <3>2. answer[block].deltas = "own"
      BY <1>1, <2>1, <3>1 DEF Strayed
    <3>3. Holds(acc', block, piece + 1)
      BY <1>1, <2>1, <2>2, <3>1, <3>2, PieceHolds
    <3>4. QED
      BY <2>1, <3>3
  <2>6. QED
    BY <2>1, <2>3, <2>4, <2>5, OpenKeeps
<1>4. CASE Finish
  <2>1. ending = "open" /\ AnswerSent /\ End("done", FinalChunk)
    BY <1>4 DEF Finish
  <2>2. /\ ~Strayed => Tidy(acc) /\ Holds(acc, block, piece)
        /\ block = Len(answer) /\ (block # 0 => piece = Parts(block))
    BY <1>1, <2>1 DEF AnswerSent, BlockSent
  <2> DEFINE r == Accumulate(acc, FinalChunk)
             w == Merged(ParseChatResponse)
  <2>3. ASSUME ~Strayed PROVE Tidy(r) /\ (~KeepsThinking => Merged(Closed(r)) = w)
    <3>1. CASE provider = "ollama_tools"
      <4>1. acc = Empty
        BY <2>2, <2>3, <3>1 DEF Holds
      <4>2. QED
        BY <1>1, <3>1, <4>1, FinalHolds
    <3>2. CASE provider # "ollama_tools"
      <4>1. r = acc
        BY <3>2, NothingTaken DEF FinalChunk
      <4>2. QED
        BY <1>1, <2>2, <2>3, <3>2, <4>1, EndHolds
    <3>3. QED
      BY <3>1, <3>2
  <2>4. w \in Seq(ContentBlocks)
    BY <1>1, AnswerMerged
  <2>5. Extends(w, w)
    <3> HIDE DEF w
    <3>1. QED
      BY <2>4, ExtendsOrder
  <2>6. "done" # "open"
    OBVIOUS
  <2>7. ~Strayed /\ ~KeepsThinking => Extends(Merged(Closed(r)), w)
    BY <2>3, <2>5
  <2>8. FinalChunk \in Chunks
    BY <1>1, FinalTyped
  <2>9. QED
    BY <2>1, <2>3, <2>6, <2>7, <2>8, EndKeeps
<1>5. ASSUME NEW how, ending = "open", End(how, NoChunk), how # "open",
             provider = "ollama_tools" => how # "done"
      PROVE  AInv'
  <2>1. Accumulate(acc, NoChunk) = acc
    BY NothingTaken
  <2>2. ASSUME ~Strayed
        PROVE  /\ ~KeepsThinking => Extends(Merged(Closed(acc)), Merged(ParseChatResponse))
               /\ how = "done" /\ AnswerSent /\ ~KeepsThinking =>
                    Merged(Closed(acc)) = Merged(ParseChatResponse)
    BY <1>1, <1>5, <2>2, EndHolds DEF AnswerSent, BlockSent
  <2>3. QED
    BY <1>1, <1>5, <2>1, <2>2, NoChunkTyped, EndKeeps
<1>6. CASE CutOff
  <2> DEFINE how == IF provider = "responses" THEN "done" ELSE "eof"
  <2>1. ending = "open" /\ End(how, NoChunk) /\ how # "open"
    BY <1>6 DEF CutOff
  <2>2. provider = "ollama_tools" => how # "done"
    OBVIOUS
  <2> HIDE DEF how
  <2>3. QED
    BY <1>5, <2>1, <2>2
<1>7. CASE Fail
  <2>1. ending = "open" /\ End("error", NoChunk)
    BY <1>7 DEF Fail
  <2>2. "error" # "open" /\ "error" # "done"
    OBVIOUS
  <2>3. QED
    BY <1>5, <2>1, <2>2
<1>8. CASE UNCHANGED vars
  <2>1. /\ provider' = provider /\ answer' = answer /\ block' = block /\ piece' = piece
        /\ acc' = acc /\ ending' = ending
    BY <1>8 DEF vars
  <2>2. /\ Given' /\ Arrived(block, piece)' /\ (Strayed' <=> Strayed)
        /\ ~Strayed => (ending' = "open" => Holds(acc, block, piece)')
    BY <1>1, <2>1, Steady DEF Strayed
  <2>3. /\ ParseChatResponse' = ParseChatResponse /\ (KeepsThinking' <=> KeepsThinking)
        /\ AnswerSent' <=> AnswerSent
    <3>1. AnswerSent' <=> AnswerSent
      BY <2>1 DEF AnswerSent, BlockSent, Parts
    <3>2. QED
      BY <2>1, <3>1, SteadyAnswer
  <2>4. /\ StreamedAsAnswered' /\ PartialIsPrefix' /\ Loose(acc)'
        /\ ~Strayed => Tidy(acc)'
    BY <2>1, <2>2, <2>3 DEF AInv, StreamedAsAnswered, PartialIsPrefix
  <2>5. QED
    BY <1>1, <2>1, <2>2, <2>4 DEF AInv
<1>9. QED
  BY <1>2, <1>3, <1>4, <1>6, <1>7, <1>8 DEF Next

LEMMA AInvHolds == Spec => []AInv
BY AInvInit, AInvNext, PTL DEF Spec

-----------------------------------------------------------------------------
(* What is proved of the streams *)

\* The accumulator of Collect (src/llm/stream.go) and of writeSSE
\* (src/llm/proxy/sse.go) has at most one of text, tool call and thinking open, and
\* no arguments without a call, whatever the answer and its number of blocks.
THEOREM OneBlockOpen == Spec => []OneOpen
<1>1. AInv => OneOpen
  BY TidyCloses DEF AInv, Loose, OneOpen
<1>2. QED
  BY <1>1, AInvHolds, PTL

\* A stream that is finished is assembled to the content that Chat returns for
\* the same answer: for every provider's ChatStream and parseChatResponse, every
\* number of blocks and every way the upstream cuts them into pieces.
THEOREM StreamsAsAnswered == Spec => []StreamedAsAnswered
<1>1. AInv => StreamedAsAnswered
  BY DEF AInv
<1>2. QED
  BY <1>1, AInvHolds, PTL

\* A stream that breaks anywhere, by an error, a cancellation or the end of the
\* body, leaves a beginning of what Chat would have returned (the partial response
\* of Collect).
THEOREM PartialsArePrefixes == Spec => []PartialIsPrefix
<1>1. AInv => PartialIsPrefix
  BY DEF AInv
<1>2. QED
  BY <1>1, AInvHolds, PTL

=============================================================================
