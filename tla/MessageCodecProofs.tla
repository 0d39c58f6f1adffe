------------------------ MODULE MessageCodecProofs -------------------------
(***************************************************************************)
(* What becomes of every message and of credentials of every length.       *)
(***************************************************************************)
EXTENDS MessageCodec, SequenceLemmas

Text == Seq(Symbols)

(***************************************************************************)
(* What the stage says of the rest of the state.                           *)
(***************************************************************************)
FormattedInv ==
  /\ stage = "new" => msg \in Messages
  /\ stage = "line" \/ Arrived => msg \in Messages /\ line \in String(msg)

ParsedInv == Arrived => got = ParseMessage(TrimSpace(line))

EmittedInv == stage = "emitted" => events = CreateEvents(got)

CutInv ==
  /\ stage \in {"secret", "chunks"} => msg \in Lengths
  /\ stage = "chunks" => line = Chunks(msg)

CodecInv == FormattedInv /\ ParsedInv /\ EmittedInv /\ CutInv

LEMMA CodecInvStep ==
  ASSUME CodecInv, [Next]_vars
  PROVE  CodecInv'
<1> USE DEF CodecInv, FormattedInv, ParsedInv, EmittedInv, CutInv, Arrived
<1>1. CASE Format
  BY <1>1 DEF Format
<1>2. CASE Parse
  BY <1>2 DEF Parse
<1>3. CASE Emit
  BY <1>3 DEF Emit
<1>4. CASE Panic
  BY <1>4 DEF Panic
<1>5. CASE SendAuthData
  BY <1>5 DEF SendAuthData
<1>6. CASE UNCHANGED vars
  BY <1>6 DEF vars
<1>7. QED
  BY <1>1, <1>2, <1>3, <1>4, <1>5, <1>6 DEF Next

(***************************************************************************)
(* What is read is what ParseMessage makes of the line String returned, and *)
(* the events are those of the message read (readLoop, connection.go).     *)
(***************************************************************************)
LEMMA CodecInvariant == Spec => []CodecInv
<1>1. Init => CodecInv
  BY DEF Init, CodecInv, FormattedInv, ParsedInv, EmittedInv, CutInv, Arrived
<1>2. CodecInv /\ [Next]_vars => CodecInv'
  BY CodecInvStep
<1>3. QED
  BY <1>1, <1>2, PTL DEF Spec
-----------------------------------------------------------------------------
(* The least and the greatest of a set of numbers, the first place of a    *)
(* symbol in a text.                                                       *)

LEMMA Least ==
  ASSUME NEW I, I \subseteq Nat, I # {}
  PROVE  Min(I) \in I /\ \A j \in I : Min(I) <= j
<1>1. PICK i \in I : \A j \in I : <<j, i>> \notin OpToRel(<, Nat)
  BY NatLessThanWellFounded, WFMin
<1>2. ASSUME NEW j \in I PROVE i <= j
  <2>1. i \in Nat /\ j \in Nat
    OBVIOUS
  <2>2. ~(j < i)
    <3>1. ASSUME j < i PROVE FALSE
      <4>1. <<j, i>> \in OpToRel(<, Nat)
        BY <2>1, <3>1 DEF OpToRel
      <4>2. QED
        BY <1>1, <4>1
    <3>2. QED
      BY <3>1
  <2>3. QED
    BY <2>1, <2>2
<1>3. QED
  BY <1>2 DEF Min

LEMMA Greatest ==
  ASSUME NEW n \in Nat, NEW I, I \subseteq 0 .. n, I # {}
  PROVE  Max(I) \in I /\ \A j \in I : j <= Max(I)
<1> DEFINE J == {n - i : i \in I}
<1>1. J \subseteq Nat /\ J # {}
  <2>1. ASSUME NEW i \in I PROVE n - i \in Nat
    <3>1. i \in 0 .. n
      OBVIOUS
    <3>2. QED
      BY <3>1
  <2>2. QED
    BY <2>1
<1>2. Min(J) \in J /\ \A j \in J : Min(J) <= j
  <2> HIDE DEF J
  <2>1. QED
    BY <1>1, Least
<1>3. PICK i \in I : Min(J) = n - i
  BY <1>2
<1>4. ASSUME NEW j \in I PROVE j <= i
  <2>1. n - j \in J
    OBVIOUS
  <2>2. n - i <= n - j
    BY <1>2, <1>3, <2>1
  <2>3. i \in Int /\ j \in Int
    OBVIOUS
  <2>4. QED
    BY <2>2, <2>3
<1>5. QED
  BY <1>4 DEF Max

LEMMA IndexFacts ==
  ASSUME NEW S, NEW text \in Seq(S), NEW sym
  PROVE  /\ Index(text, sym) \in 0 .. Len(text)
         /\ Index(text, sym) = 0 <=> \A i \in 1 .. Len(text) : text[i] # sym
         /\ Index(text, sym) # 0 => text[Index(text, sym)] = sym
         /\ \A i \in 1 .. Index(text, sym) - 1 : text[i] # sym
<1> DEFINE I == {i \in 1 .. Len(text) : text[i] = sym}
<1>1. Len(text) \in Nat /\ Index(text, sym) = IF I # {} THEN Min(I) ELSE 0
  BY LenProperties DEF Index, SelectInSeq
<1>2. I \subseteq Nat
  OBVIOUS
<1>3. I # {} => Min(I) \in I /\ \A j \in I : Min(I) <= j
  <2> HIDE DEF I
  <2>1. QED
    BY <1>2, Least
<1>4. CASE I = {}
  BY <1>1, <1>4
<1>5. CASE I # {}
  <2> DEFINE k == Min(I)
  <2>1. Index(text, sym) = k /\ k \in 1 .. Len(text) /\ text[k] = sym
    BY <1>1, <1>3, <1>5
  <2>2. \A j \in I : k <= j
    BY <1>3, <1>5
  <2> HIDE DEF k
  <2>3. ASSUME NEW i \in 1 .. k - 1 PROVE text[i] # sym
    BY <1>1, <2>1, <2>2
  <2>4. k \in 0 .. Len(text) /\ k # 0 /\ ~\A i \in 1 .. Len(text) : text[i] # sym
    BY <1>1, <2>1
  <2>5. QED
    BY <2>1, <2>3, <2>4
<1>6. QED
  BY <1>4, <1>5

LEMMA IndexIs ==
  ASSUME NEW S, NEW text \in Seq(S), NEW sym, NEW k \in 1 .. Len(text), text[k] = sym,
         \A i \in 1 .. k - 1 : text[i] # sym
  PROVE  Index(text, sym) = k
<1> DEFINE i == Index(text, sym)
<1>1. /\ i \in 0 .. Len(text) /\ (i = 0 <=> \A j \in 1 .. Len(text) : text[j] # sym)
      /\ i # 0 => text[i] = sym
      /\ \A j \in 1 .. i - 1 : text[j] # sym
  BY IndexFacts
<1> HIDE DEF i
<1>2. Len(text) \in Nat
  BY LenProperties
<1>3. i # 0 /\ i \in Nat
  BY <1>1, <1>2
<1>4. ~(i < k)
  <2>1. i < k => i \in 1 .. k - 1
    BY <1>2, <1>3
  <2>2. QED
    BY <1>1, <1>3, <2>1
<1>5. ~(k < i)
  <2>1. k < i => k \in 1 .. i - 1
    BY <1>2, <1>3
  <2>2. QED
    BY <1>1, <2>1
<1>6. QED
  BY <1>2, <1>3, <1>4, <1>5 DEF i
-----------------------------------------------------------------------------
(* Credentials.                                                            *)

LEMMA TerminatorLast ==
  ASSUME NEW chunks \in Seq(Nat), chunks # <<>>, MaxChunk \in Nat
  PROVE  Terminator(chunks) = Len(chunks)
           <=> /\ chunks[Len(chunks)] < MaxChunk
               /\ \A k \in 1 .. Len(chunks) - 1 : chunks[k] >= MaxChunk
<1> DEFINE n == Len(chunks)
           I == {k \in 1 .. n : chunks[k] < MaxChunk}
<1>1. n \in Nat \ {0} /\ \A k \in 1 .. n : chunks[k] \in Nat
  BY EmptySeq, ElementOfSeq
<1>2. Terminator(chunks) = IF I # {} THEN Min(I) ELSE 0
  BY DEF Terminator, SelectInSeq
<1> HIDE DEF n
<1>3. CASE I = {}
  <2>1. Terminator(chunks) # n /\ ~(chunks[n] < MaxChunk)
    BY <1>1, <1>2, <1>3
  <2>2. QED
    BY <2>1 DEF n
<1>4. CASE I # {}
  <2> DEFINE t == Min(I)
  <2>1. t \in I /\ \A k \in I : t <= k
    <3>1. I \subseteq Nat
      BY <1>1
    <3> HIDE DEF I
    <3>2. QED
      BY <1>4, <3>1, Least
  <2>2. Terminator(chunks) = t
    BY <1>2, <1>4
  <2> HIDE DEF t
  <2>3. ASSUME t = n
        PROVE  chunks[n] < MaxChunk /\ \A k \in 1 .. n - 1 : chunks[k] >= MaxChunk
    <3>1. ASSUME NEW k \in 1 .. n - 1 PROVE chunks[k] >= MaxChunk
      <4>1. k \in 1 .. n /\ ~(n <= k)
        BY <1>1
      <4>2. k \notin I
        <5> HIDE DEF I
        <5>1. QED
          BY <2>1, <2>3, <4>1
      <4>3. QED
        BY <1>1, <4>1, <4>2
    <3>2. QED
      BY <2>1, <2>3, <3>1
  <2>4. ASSUME chunks[n] < MaxChunk, \A k \in 1 .. n - 1 : chunks[k] >= MaxChunk
        PROVE  t = n
    <3>1. t \in 1 .. n /\ chunks[t] < MaxChunk /\ chunks[t] \in Nat
      BY <1>1, <2>1
    <3>2. t \notin 1 .. n - 1
      <4>1. t \in 1 .. n - 1 => chunks[t] >= MaxChunk
        BY <2>4
      <4>2. QED
        BY <3>1, <4>1
    <3>3. QED
      BY <1>1, <3>1, <3>2
  <2>5. QED
    BY <2>2, <2>3, <2>4 DEF n
<1>5. QED
  BY <1>3, <1>4

\* How many chunks there are, and how long the k-th is.
LEMMA ChunkCount ==
  ASSUME NEW n \in Nat, NEW M \in Nat \ {0}, n > M, NEW q \in Int, q = (n + M - 1) \div M
  PROVE  /\ q \in Nat /\ q >= 2 /\ n % M \in 0 .. M - 1
         /\ \A k \in 1 .. q - 1 : k * M <= n
         /\ q * M <= n <=> n % M = 0
<1>1. n % M \in 0 .. M - 1
  OBVIOUS
<1>2. n = M * (n \div M) + (n % M) /\ n \div M \in Int
  OBVIOUS
<1>3. n + M - 1 = M * q + ((n + M - 1) % M) /\ (n + M - 1) % M \in 0 .. M - 1
  OBVIOUS
<1>4. n <= M * q /\ M * q < n + M
  BY <1>3
<1>5. q \in Nat /\ q >= 2
  <2>1. q <= 1 => M * q <= M
    OBVIOUS
  <2>2. M * q > M
    BY <1>4
  <2>3. ~(q <= 1)
    BY <2>1, <2>2
  <2>4. QED
    BY <2>3
<1>6. ASSUME NEW k \in 1 .. q - 1 PROVE k * M <= n
  <2>1. k \in Nat /\ k <= q - 1
    BY <1>5
  <2>2. k * M <= (q - 1) * M
    BY <2>1
  <2>3. (q - 1) * M = M * q - M
    OBVIOUS
  <2>4. k * M \in Int /\ M * q \in Int
    BY <2>1
  <2>5. QED
    BY <1>4, <2>2, <2>3, <2>4
<1>7. ASSUME n % M = 0 PROVE q * M <= n
  <2> DEFINE d == n \div M
  <2>1. n = M * d /\ d \in Int
    BY <1>2, <1>7
  <2> HIDE DEF d
  <2>2. M * q < M * (d + 1)
    BY <1>4, <2>1
  <2>3. q < d + 1
    BY <2>1, <2>2
  <2>4. q <= d
    BY <2>1, <2>3
  <2>5. M * q <= M * d
    BY <2>1, <2>4
  <2>6. QED
    BY <2>1, <2>5
<1>8. ASSUME q * M <= n PROVE n % M = 0
  <2>1. PICK d, r, e : d = n \div M /\ r = n % M /\ e = q - d
    OBVIOUS
  <2>2. d \in Int /\ r \in 0 .. M - 1 /\ e \in Int /\ n = M * d + r
    BY <1>1, <1>2, <2>1
  <2>3. n = M * q
    BY <1>4, <1>8
  <2>4. M * q = M * d + M * e
    <3>1. q = d + e
      BY <2>1, <2>2
    <3>2. QED
      BY <2>2, <3>1
  <2>5. r = M * e
    <3>1. M * q \in Int /\ M * d \in Int /\ M * e \in Int
      BY <2>2
    <3>2. QED
      BY <2>2, <2>3, <2>4, <3>1
  <2>6. ~(e >= 1)
    <3>1. e >= 1 => M * e >= M
      BY <2>2
    <3>2. QED
      BY <2>2, <2>5, <3>1
  <2>7. ~(e <= -1)
    <3>1. e <= -1 => M * e <= -M
      BY <2>2
    <3>2. QED
      BY <2>2, <2>5, <3>1
  <2>8. e = 0
    BY <2>2, <2>6, <2>7
  <2>9. QED
    BY <2>1, <2>5, <2>8
<1>9. QED
  BY <1>1, <1>5, <1>6, <1>7, <1>8

LEMMA FramedChunks ==
  ASSUME NEW n \in Nat
  PROVE  Terminator(Chunks(n)) = Len(Chunks(n))
           <=> n < MaxChunk \/ (n > MaxChunk /\ n % MaxChunk = 0)
<1> DEFINE M == MaxChunk
           q == (n + M - 1) \div M
           full == [k \in 1 .. q |-> IF k * M <= n THEN M ELSE n % M]
<1>1. M \in Nat \ {0}
  BY CodecAssumption DEF CodecAssumption
<1>2. CASE n = 0
  <2>1. Chunks(n) = <<0>>
    BY <1>2 DEF Chunks
  <2>2. <<0>> \in Seq(Nat) /\ <<0>> # <<>> /\ Len(<<0>>) = 1 /\ <<0>>[1] = 0
    OBVIOUS
  <2>3. Terminator(<<0>>) = 1
    BY <1>1, <2>2, TerminatorLast
  <2>4. n < M
    BY <1>1, <1>2
  <2>5. Terminator(Chunks(n)) = Len(Chunks(n))
    BY <2>1, <2>2, <2>3
  <2>6. QED
    BY <2>4, <2>5
<1>3. CASE n \in 1 .. M
  <2>1. Chunks(n) = <<n>>
    BY <1>3 DEF Chunks
  <2>2. <<n>> \in Seq(Nat) /\ <<n>> # <<>> /\ Len(<<n>>) = 1 /\ <<n>>[1] = n
    OBVIOUS
  <2>3. Terminator(<<n>>) = 1 <=> n < M
    <3>1. \A k \in 1 .. 1 - 1 : <<n>>[k] >= M
      OBVIOUS
    <3>2. Terminator(<<n>>) = 1 <=> <<n>>[1] < M /\ \A k \in 1 .. 1 - 1 : <<n>>[k] >= M
      BY <1>1, <2>2, TerminatorLast
    <3>3. QED
      BY <2>2, <3>1, <3>2
  <2>4. n <= M
    BY <1>3
  <2>5. n < M \/ (n > M /\ n % M = 0) <=> n < M
    BY <1>1, <2>4
  <2>6. QED
    BY <2>1, <2>2, <2>3, <2>5
<1>4. CASE n > M
  <2>1. Chunks(n) = full \o <<0>>
    <3>1. n # 0 /\ n \notin 1 .. M
      BY <1>1, <1>4
    <3>2. QED
      BY <3>1 DEF Chunks
  <2>2. /\ q \in Nat /\ q >= 2 /\ n % M \in 0 .. M - 1
        /\ \A k \in 1 .. q - 1 : k * M <= n
        /\ q * M <= n <=> n % M = 0
    <3>1. q \in Int
      BY <1>1
    <3>2. QED
      BY <1>1, <1>4, <3>1, ChunkCount
  <2> HIDE DEF q
  <2>3. full \in Seq(Nat) /\ Len(full) = q
    <3>1. full \in [1 .. q -> Nat]
      BY <1>1, <2>2
    <3> HIDE DEF full
    <3>2. QED
      BY <2>2, <3>1
  <2>4. \A k \in 1 .. q - 1 : full[k] = M
    <3>1. \A k \in 1 .. q - 1 : k \in 1 .. q
      BY <2>2
    <3>2. QED
      BY <2>2, <3>1
  <2>5. full[q] = IF n % M = 0 THEN M ELSE n % M
    BY <2>2
  <2> HIDE DEF full
  <2> DEFINE chunks == Append(full, 0)
  <2>6. /\ chunks \in Seq(Nat) /\ chunks # <<>> /\ Len(chunks) = q + 1 /\ chunks[q + 1] = 0
        /\ \A k \in 1 .. q : chunks[k] = full[k]
    <3>1. PICK S : S = Nat
      OBVIOUS
    <3>2. 0 \in S /\ full \in Seq(S)
      BY <2>3, <3>1
    <3>3. /\ chunks \in Seq(S) /\ chunks # <<>> /\ Len(chunks) = Len(full) + 1
          /\ \A k \in 1 .. Len(full) : chunks[k] = full[k]
          /\ chunks[Len(full) + 1] = 0
      BY <3>2, AppendProperties
    <3> HIDE DEF chunks
    <3>4. QED
      BY <2>3, <3>1, <3>3
  <2>7. Chunks(n) = chunks
    BY <2>1, <2>3, AppendIsConcat
  <2> HIDE DEF chunks
  <2>8. Terminator(chunks) = q + 1 <=> \A k \in 1 .. q : chunks[k] >= M
    <3>1. (q + 1) - 1 = q /\ 0 < M
      BY <1>1, <2>2
    <3>2. QED
      BY <1>1, <2>6, <3>1, TerminatorLast
  <2>9. ASSUME n % M = 0 PROVE \A k \in 1 .. q : chunks[k] >= M
    <3>1. ASSUME NEW k \in 1 .. q PROVE chunks[k] = M
      <4>1. k = q \/ k \in 1 .. q - 1
        BY <2>2
      <4>2. QED
        BY <2>4, <2>5, <2>6, <2>9, <4>1
    <3>2. QED
      BY <1>1, <3>1
  <2>10. ASSUME n % M # 0 PROVE ~\A k \in 1 .. q : chunks[k] >= M
    <3>1. q \in 1 .. q
      BY <2>2
    <3>2. chunks[q] = n % M
      BY <2>5, <2>6, <2>10, <3>1
    <3>3. ~(n % M >= M)
      BY <1>1, <2>2
    <3>4. QED
      BY <3>1, <3>2, <3>3
  <2>11. QED
    BY <1>1, <1>4, <2>6, <2>7, <2>8, <2>9, <2>10
<1>5. QED
  BY <1>1, <1>2, <1>3, <1>4

(***************************************************************************)
(* Whatever the length of the credentials and of a chunk: the server takes *)
(* the last line sendAuthData (parser/sasl.go) sends, and none before it,  *)
(* for the end exactly if they are shorter than a chunk, or longer and a   *)
(* multiple of one.                                                        *)
(***************************************************************************)
THEOREM CredentialsAreFramed == Spec => []CredentialsFramed
<1>1. CodecInv => CredentialsFramed
  <2>1. SUFFICES ASSUME CodecInv, stage = "chunks"
                 PROVE  (Terminator(line) = Len(line))
                          <=> (msg < MaxChunk \/ (msg > MaxChunk /\ msg % MaxChunk = 0))
    BY DEF CredentialsFramed
  <2>2. msg \in Nat /\ line = Chunks(msg)
    BY <2>1, CodecAssumption DEF CodecInv, CutInv, CodecAssumption
  <2>3. QED
    BY <2>2, FramedChunks
<1>2. QED
  BY <1>1, CodecInvariant, PTL
-----------------------------------------------------------------------------
(* Package strings: what the recursive functions return for one more       *)
(* element.                                                                *)

\* One more symbol.
SplitOn(parts, c, sym) == IF c = sym THEN Append(parts, Empty)
                          ELSE Append(Front(parts), Append(Last(parts), c))

SplitsUpTo(f, text, sym) ==
  f = [i \in 0 .. Len(text) |-> IF i = 0 THEN <<Empty>> ELSE SplitOn(f[i - 1], text[i], sym)]

LEMMA FrontLast ==
  ASSUME NEW S, NEW s \in Seq(S), s # <<>>
  PROVE  /\ Front(s) \in Seq(S) /\ Last(s) \in S /\ Len(Front(s)) = Len(s) - 1
         /\ \A i \in 1 .. Len(s) - 1 : Front(s)[i] = s[i]
         /\ s = Append(Front(s), Last(s))
<1>1. Len(s) \in Nat \ {0} /\ \A i \in 1 .. Len(s) : s[i] \in S
  BY EmptySeq, ElementOfSeq
<1>2. /\ Front(s) \in Seq(S) /\ Len(Front(s)) = Len(s) - 1
      /\ \A i \in 1 .. Len(s) - 1 : Front(s)[i] = s[i]
  <2>1. /\ SubSeq(s, 1, Len(s) - 1) \in Seq(S)
        /\ Len(SubSeq(s, 1, Len(s) - 1)) = IF 1 <= Len(s) - 1 THEN (Len(s) - 1) - 1 + 1 ELSE 0
        /\ \A i \in 1 .. (Len(s) - 1) - 1 + 1 : SubSeq(s, 1, Len(s) - 1)[i] = s[1 + i - 1]
    <3>1. 1 \in Int /\ Len(s) - 1 \in Int /\ \A i \in 1 .. Len(s) - 1 : s[i] \in S
      BY <1>1
    <3>2. QED
      BY <3>1, SubSeqProperties
  <2>2. \A n \in Nat \ {0} : (n - 1) - 1 + 1 = n - 1 /\ (1 <= n - 1 \/ n - 1 = 0)
    OBVIOUS
  <2>3. \A i \in 1 .. Len(s) - 1 : 1 + i - 1 = i
    BY <1>1
  <2>4. QED
    BY <1>1, <2>1, <2>2, <2>3 DEF Front
<1>3. Last(s) \in S /\ Last(s) = s[Len(s)]
  BY <1>1 DEF Last
<1>4. s = Append(Front(s), Last(s))
  <2> DEFINE t == Append(Front(s), Last(s))
  <2>1. /\ t \in Seq(S) /\ Len(t) = Len(Front(s)) + 1 /\ t[Len(Front(s)) + 1] = Last(s)
        /\ \A i \in 1 .. Len(Front(s)) : t[i] = Front(s)[i]
    BY <1>2, <1>3, AppendProperties
  <2> HIDE DEF t
  <2>2. Len(t) = Len(s) /\ t[Len(s)] = s[Len(s)] /\ \A i \in 1 .. Len(s) - 1 : t[i] = s[i]
    BY <1>1, <1>2, <1>3, <2>1
  <2>3. ASSUME NEW i \in 1 .. Len(s) PROVE t[i] = s[i]
    <3>1. i = Len(s) \/ i \in 1 .. Len(s) - 1
      BY <1>1
    <3>2. QED
      BY <2>2, <3>1
  <2>4. QED
    BY <2>1, <2>2, <2>3, SeqEqual DEF t
<1>5. QED
  BY <1>2, <1>3, <1>4

LEMMA SplitOnType ==
  ASSUME NEW S, NEW parts \in Seq(Seq(S)) \ {<<>>}, NEW c \in S, NEW sym
  PROVE  SplitOn(parts, c, sym) \in Seq(Seq(S)) \ {<<>>}
<1>1. Front(parts) \in Seq(Seq(S)) /\ Last(parts) \in Seq(S) /\ Empty \in Seq(S)
  BY FrontLast, EmptySeq DEF Empty
<1>2. Append(Last(parts), c) \in Seq(S)
  BY <1>1, AppendProperties
<1> DEFINE T == Seq(S)
<1>3. \A s \in Seq(T), x \in T : Append(s, x) \in Seq(T) \ {<<>>}
  <2> HIDE DEF T
  <2>1. QED
    BY AppendProperties
<1>4. QED
  BY <1>1, <1>2, <1>3 DEF SplitOn

LEMMA SplitsUpToExists ==
  ASSUME NEW S, NEW text \in Seq(S), NEW sym
  PROVE  \E f : /\ SplitsUpTo(f, text, sym)
                /\ f[Len(text)] \in Seq(Seq(S)) \ {<<>>}
<1> DEFINE V == Seq(Seq(S)) \ {<<>>}
           step == [i \in 1 .. Len(text) |-> [parts \in V |-> SplitOn(parts, text[i], sym)]]
<1>0. Len(text) \in Nat /\ \A i \in 1 .. Len(text) : text[i] \in S
  BY LenProperties, ElementOfSeq
<1>1. <<Empty>> \in V
  <2>1. Empty \in Seq(S)
    BY EmptySeq DEF Empty
  <2>2. QED
    BY <2>1
<1>2. \A i \in 1 .. Len(text), parts \in V : step[i][parts] \in V
  BY <1>0, SplitOnType
<1>3. PICK f \in [0 .. Len(text) -> V] :
        f[0] = <<Empty>> /\ \A i \in 1 .. Len(text) : f[i] = step[i][f[i - 1]]
  <2> DEFINE c == <<Empty>>
  <2>1. c \in V
    BY <1>1
  <2> HIDE DEF V, step, c
  <2>2. \E f : GoesThrough(f, Len(text), V, c, step)
    BY <1>0, <1>2, <2>1, FoldExists
  <2>3. QED
    BY <2>2 DEF c, GoesThrough
<1>5. ASSUME NEW i \in 0 .. Len(text), i # 0 PROVE f[i] = SplitOn(f[i - 1], text[i], sym)
  <2>1. i \in 1 .. Len(text) /\ i - 1 \in 0 .. Len(text)
    BY <1>0, <1>5
  <2>2. f[i - 1] \in V /\ text[i] \in S
    BY <1>0, <2>1
  <2> HIDE DEF V
  <2>3. QED
    BY <1>3, <2>1, <2>2
<1>6. f[Len(text)] \in V
  BY <1>0
<1> HIDE DEF V
<1>7. SplitsUpTo(f, text, sym)
  BY <1>3, <1>5 DEF SplitsUpTo
<1>8. QED
  BY <1>6, <1>7 DEF V

LEMMA SplitIs ==
  ASSUME NEW S, NEW text \in Seq(S), NEW sym, NEW f, SplitsUpTo(f, text, sym)
  PROVE  Split(text, sym) = f[Len(text)]
<1> DEFINE g == CHOOSE h : SplitsUpTo(h, text, sym)
<1>1. Split(text, sym) = g[Len(text)]
  BY DEF Split, SplitsUpTo, SplitOn
<1>2. SplitsUpTo(g, text, sym)
  OBVIOUS
<1> HIDE DEF g
<1>3. Len(text) \in Nat
  BY LenProperties
<1>4. f[0] = g[0]
  BY <1>2, <1>3 DEF SplitsUpTo
<1>5. ASSUME NEW i \in 1 .. Len(text), f[i - 1] = g[i - 1] PROVE f[i] = g[i]
  <2>1. i \in 0 .. Len(text) /\ i # 0
    BY <1>3
  <2>2. /\ f[i] = SplitOn(f[i - 1], text[i], sym)
        /\ g[i] = SplitOn(g[i - 1], text[i], sym)
    BY <1>2, <2>1 DEF SplitsUpTo
  <2>3. QED
    BY <1>5, <2>2
<1>6. f[Len(text)] = g[Len(text)]
  BY <1>3, <1>4, <1>5, StepsAgree
<1>7. QED
  BY <1>1, <1>6

LEMMA SplitFacts ==
  ASSUME NEW S, NEW sym
  PROVE  /\ Split(<<>>, sym) = <<Empty>>
         /\ \A text \in Seq(S) : Split(text, sym) \in Seq(Seq(S)) \ {<<>>}
         /\ \A text \in Seq(S), c \in S :
              Split(Append(text, c), sym) = SplitOn(Split(text, sym), c, sym)
<1>1. ASSUME NEW text \in Seq(S) PROVE Split(text, sym) \in Seq(Seq(S)) \ {<<>>}
  BY SplitsUpToExists, SplitIs
<1>2. Split(<<>>, sym) = <<Empty>>
  <2>1. <<>> \in Seq(S) /\ Len(<<>>) = 0
    BY EmptySeq
  <2>2. PICK f : SplitsUpTo(f, <<>>, sym)
    BY <2>1, SplitsUpToExists
  <2>3. Split(<<>>, sym) = f[0]
    BY <2>1, <2>2, SplitIs
  <2>4. QED
    BY <2>1, <2>2, <2>3 DEF SplitsUpTo
<1>3. ASSUME NEW text \in Seq(S), NEW c \in S
      PROVE  Split(Append(text, c), sym) = SplitOn(Split(text, sym), c, sym)
  <2>1. PICK longer : longer = Append(text, c)
    OBVIOUS
  <2>2. PICK n : n = Len(text)
    OBVIOUS
  <2>3. /\ longer \in Seq(S) /\ n \in Nat /\ Len(longer) = n + 1 /\ longer[n + 1] = c
        /\ \A i \in 1 .. n : longer[i] = text[i]
    BY <2>1, <2>2, AppendProperties, LenProperties
  <2>4. PICK f : SplitsUpTo(f, text, sym)
    BY SplitsUpToExists
  <2>5. PICK g : SplitsUpTo(g, longer, sym)
    BY <2>3, SplitsUpToExists
  <2>6. Split(text, sym) = f[n] /\ Split(longer, sym) = g[n + 1]
    BY <2>2, <2>3, <2>4, <2>5, SplitIs
  <2>7. f[0] = g[0]
    BY <2>2, <2>3, <2>4, <2>5 DEF SplitsUpTo
  <2>8. /\ \A i \in 1 .. n : f[i] = SplitOn(f[i - 1], text[i], sym)
        /\ \A i \in 1 .. n + 1 : g[i] = SplitOn(g[i - 1], longer[i], sym)
    <3>1. \A i \in 1 .. n : i \in 0 .. Len(text) /\ i # 0
      BY <2>2, <2>3
    <3>2. \A i \in 1 .. n + 1 : i \in 0 .. Len(longer) /\ i # 0
      BY <2>3
    <3>3. QED
      BY <2>4, <2>5, <3>1, <3>2 DEF SplitsUpTo
  <2>9. ASSUME NEW i \in 1 .. n, f[i - 1] = g[i - 1] PROVE f[i] = g[i]
    <3>1. i \in 1 .. n + 1 /\ longer[i] = text[i]
      BY <2>3
    <3>2. QED
      BY <2>8, <2>9, <3>1
  <2>10. f[n] = g[n]
    <3>1. n \in Nat
      BY <2>3
    <3>2. QED
      BY <2>7, <2>9, <3>1, StepsAgree
  <2>11. g[n + 1] = SplitOn(g[n], c, sym)
    <3>1. n + 1 \in 1 .. n + 1 /\ (n + 1) - 1 = n
      BY <2>3
    <3>2. QED
      BY <2>3, <2>8, <3>1
  <2>12. QED
    BY <2>1, <2>6, <2>10, <2>11
<1>4. QED
  BY <1>1, <1>2, <1>3

\* One more part, the i-th.
JoinOn(text, i, part, sep) == IF i = 1 THEN part ELSE text \o sep \o part

JoinsUpTo(f, parts, sep) ==
  f = [i \in 0 .. Len(parts) |-> IF i = 0 THEN Empty ELSE JoinOn(f[i - 1], i, parts[i], sep)]

LEMMA JoinsUpToExists ==
  ASSUME NEW S, NEW parts \in Seq(Seq(S)), NEW sep \in Seq(S)
  PROVE  \E f : JoinsUpTo(f, parts, sep) /\ f[Len(parts)] \in Seq(S)
<1> DEFINE V == Seq(S)
           step == [i \in 1 .. Len(parts) |-> [text \in V |-> JoinOn(text, i, parts[i], sep)]]
<1>1. Len(parts) \in Nat /\ \A i \in 1 .. Len(parts) : parts[i] \in V
  BY LenProperties, ElementOfSeq
<1>2. Empty \in V
  BY EmptySeq DEF Empty
<1>3. \A i \in 1 .. Len(parts), text \in V : step[i][text] \in V
  <2>1. ASSUME NEW i \in 1 .. Len(parts), NEW text \in V PROVE JoinOn(text, i, parts[i], sep) \in V
    <3>1. text \o sep \in V /\ parts[i] \in V
      BY <1>1, ConcatProperties
    <3>2. (text \o sep) \o parts[i] \in V
      BY <3>1, ConcatProperties
    <3>3. QED
      BY <3>1, <3>2 DEF JoinOn
  <2> HIDE DEF V
  <2>2. QED
    BY <2>1
<1>4. PICK f \in [0 .. Len(parts) -> V] :
        f[0] = Empty /\ \A i \in 1 .. Len(parts) : f[i] = step[i][f[i - 1]]
  <2> HIDE DEF V, step
  <2>1. \E f : GoesThrough(f, Len(parts), V, Empty, step)
    BY <1>1, <1>2, <1>3, FoldExists
  <2>2. QED
    BY <2>1 DEF GoesThrough
<1> HIDE DEF V
<1>5. ASSUME NEW i \in 0 .. Len(parts), i # 0 PROVE f[i] = JoinOn(f[i - 1], i, parts[i], sep)
  <2>1. i \in 1 .. Len(parts) /\ i - 1 \in 0 .. Len(parts)
    BY <1>1, <1>5
  <2>2. f[i - 1] \in V
    BY <2>1
  <2>3. QED
    BY <1>4, <2>1, <2>2
<1>6. f[Len(parts)] \in V
  <2>1. Len(parts) \in 0 .. Len(parts)
    BY <1>1
  <2>2. QED
    BY <2>1
<1>7. JoinsUpTo(f, parts, sep)
  BY <1>4, <1>5 DEF JoinsUpTo
<1>8. QED
  BY <1>6, <1>7 DEF V

LEMMA JoinIs ==
  ASSUME NEW S, NEW parts \in Seq(S), NEW sep, NEW f, JoinsUpTo(f, parts, sep)
  PROVE  Join(parts, sep) = f[Len(parts)]
<1> DEFINE g == CHOOSE h : JoinsUpTo(h, parts, sep)
<1>1. Join(parts, sep) = g[Len(parts)]
  BY DEF Join, JoinsUpTo, JoinOn
<1>2. JoinsUpTo(g, parts, sep)
  OBVIOUS
<1> HIDE DEF g
<1>3. Len(parts) \in Nat
  BY LenProperties
<1>4. f[0] = g[0]
  BY <1>2, <1>3 DEF JoinsUpTo
<1>5. ASSUME NEW i \in 1 .. Len(parts), f[i - 1] = g[i - 1] PROVE f[i] = g[i]
  <2>1. i \in 0 .. Len(parts) /\ i # 0
    BY <1>3
  <2>2. /\ f[i] = JoinOn(f[i - 1], i, parts[i], sep)
        /\ g[i] = JoinOn(g[i - 1], i, parts[i], sep)
    BY <1>2, <2>1 DEF JoinsUpTo
  <2>3. QED
    BY <1>5, <2>2
<1>6. f[Len(parts)] = g[Len(parts)]
  BY <1>3, <1>4, <1>5, StepsAgree
<1>7. QED
  BY <1>1, <1>6

LEMMA JoinFacts ==
  ASSUME NEW S, NEW sep \in Seq(S)
  PROVE  /\ Join(<<>>, sep) = Empty
         /\ \A parts \in Seq(Seq(S)) : Join(parts, sep) \in Seq(S)
         /\ \A parts \in Seq(Seq(S)), part \in Seq(S) :
              Join(Append(parts, part), sep) =
                IF parts = <<>> THEN part ELSE Join(parts, sep) \o sep \o part
<1>1. PICK V : V = Seq(S)
  OBVIOUS
<1>2. ASSUME NEW parts \in Seq(V)
      PROVE  \E f : JoinsUpTo(f, parts, sep) /\ f[Len(parts)] \in V
  BY <1>1, <1>2, JoinsUpToExists
<1>3. ASSUME NEW parts \in Seq(V) PROVE Join(parts, sep) \in V
  BY <1>2, JoinIs
<1>4. Join(<<>>, sep) = Empty
  <2>1. <<>> \in Seq(V) /\ Len(<<>>) = 0
    BY EmptySeq
  <2>2. PICK f : JoinsUpTo(f, <<>>, sep)
    BY <1>2, <2>1
  <2>3. Join(<<>>, sep) = f[0]
    BY <2>1, <2>2, JoinIs
  <2>4. QED
    BY <2>1, <2>2, <2>3 DEF JoinsUpTo
<1>5. ASSUME NEW parts \in Seq(V), NEW part \in V
      PROVE  Join(Append(parts, part), sep) =
               IF parts = <<>> THEN part ELSE Join(parts, sep) \o sep \o part
  <2>1. PICK longer : longer = Append(parts, part)
    OBVIOUS
  <2>2. PICK n : n = Len(parts)
    OBVIOUS
  <2>3. /\ longer \in Seq(V) /\ n \in Nat /\ Len(longer) = n + 1 /\ longer[n + 1] = part
        /\ \A i \in 1 .. n : longer[i] = parts[i]
        /\ parts = <<>> <=> n = 0
    BY <2>1, <2>2, AppendProperties, LenProperties, EmptySeq
  <2>4. PICK f : JoinsUpTo(f, parts, sep)
    BY <1>2
  <2>5. PICK g : JoinsUpTo(g, longer, sep)
    BY <1>2, <2>3
  <2>6. Join(parts, sep) = f[n] /\ Join(longer, sep) = g[n + 1]
    BY <2>2, <2>3, <2>4, <2>5, JoinIs
  <2>7. f[0] = g[0]
    BY <2>2, <2>3, <2>4, <2>5 DEF JoinsUpTo
  <2>8. /\ \A i \in 1 .. n : f[i] = JoinOn(f[i - 1], i, parts[i], sep)
        /\ \A i \in 1 .. n + 1 : g[i] = JoinOn(g[i - 1], i, longer[i], sep)
    <3>1. \A i \in 1 .. n : i \in 0 .. Len(parts) /\ i # 0
      BY <2>2, <2>3
    <3>2. \A i \in 1 .. n + 1 : i \in 0 .. Len(longer) /\ i # 0
      BY <2>3
    <3>3. QED
      BY <2>4, <2>5, <3>1, <3>2 DEF JoinsUpTo
  <2>9. ASSUME NEW i \in 1 .. n, f[i - 1] = g[i - 1] PROVE f[i] = g[i]
    <3>1. i \in 1 .. n + 1 /\ longer[i] = parts[i]
      BY <2>3
    <3>2. QED
      BY <2>8, <2>9, <3>1
  <2>10. f[n] = g[n]
    <3>1. n \in Nat
      BY <2>3
    <3>2. QED
      BY <2>7, <2>9, <3>1, StepsAgree
  <2>11. g[n + 1] = JoinOn(g[n], n + 1, part, sep)
    <3>1. n + 1 \in 1 .. n + 1 /\ (n + 1) - 1 = n
      BY <2>3
    <3>2. QED
      BY <2>3, <2>8, <3>1
  <2>12. JoinOn(f[n], n + 1, part, sep) =
           IF parts = <<>> THEN part ELSE f[n] \o sep \o part
    BY <2>3 DEF JoinOn
  <2>13. QED
    BY <2>1, <2>6, <2>10, <2>11, <2>12
<1>6. QED
  BY <1>1, <1>3, <1>4, <1>5

\* One more part.
KeepOn(kept, part) == IF part = Empty THEN kept ELSE Append(kept, part)

KeepsUpTo(f, parts) ==
  f = [i \in 0 .. Len(parts) |-> IF i = 0 THEN <<>> ELSE KeepOn(f[i - 1], parts[i])]

LEMMA KeepsUpToExists ==
  ASSUME NEW S, NEW parts \in Seq(S)
  PROVE  \E f : KeepsUpTo(f, parts) /\ f[Len(parts)] \in Seq(S)
<1> DEFINE V == Seq(S)
           step == [i \in 1 .. Len(parts) |-> [kept \in V |-> KeepOn(kept, parts[i])]]
<1>1. Len(parts) \in Nat /\ \A i \in 1 .. Len(parts) : parts[i] \in S
  BY LenProperties, ElementOfSeq
<1>2. <<>> \in V
  BY EmptySeq
<1>3. \A i \in 1 .. Len(parts), kept \in V : step[i][kept] \in V
  <2>1. ASSUME NEW i \in 1 .. Len(parts), NEW kept \in V PROVE KeepOn(kept, parts[i]) \in V
    BY <1>1, AppendProperties DEF KeepOn
  <2> HIDE DEF V
  <2>2. QED
    BY <2>1
<1>4. PICK f \in [0 .. Len(parts) -> V] :
        f[0] = <<>> /\ \A i \in 1 .. Len(parts) : f[i] = step[i][f[i - 1]]
  <2> HIDE DEF V, step
  <2>1. \E f : GoesThrough(f, Len(parts), V, <<>>, step)
    BY <1>1, <1>2, <1>3, FoldExists
  <2>2. QED
    BY <2>1 DEF GoesThrough
<1> HIDE DEF V
<1>5. ASSUME NEW i \in 0 .. Len(parts), i # 0 PROVE f[i] = KeepOn(f[i - 1], parts[i])
  <2>1. i \in 1 .. Len(parts) /\ i - 1 \in 0 .. Len(parts)
    BY <1>1, <1>5
  <2>2. f[i - 1] \in V
    BY <2>1
  <2>3. QED
    BY <1>4, <2>1, <2>2
<1>6. f[Len(parts)] \in V
  BY <1>1
<1>7. KeepsUpTo(f, parts)
  BY <1>4, <1>5 DEF KeepsUpTo
<1>8. QED
  BY <1>6, <1>7 DEF V

LEMMA NonEmptyIs ==
  ASSUME NEW S, NEW parts \in Seq(S), NEW f, KeepsUpTo(f, parts)
  PROVE  NonEmpty(parts) = f[Len(parts)]
<1> DEFINE g == CHOOSE h : KeepsUpTo(h, parts)
<1>1. NonEmpty(parts) = g[Len(parts)]
  BY DEF NonEmpty, KeepsUpTo, KeepOn
<1>2. KeepsUpTo(g, parts)
  OBVIOUS
<1> HIDE DEF g
<1>3. Len(parts) \in Nat
  BY LenProperties
<1>4. f[0] = g[0]
  BY <1>2, <1>3 DEF KeepsUpTo
<1>5. ASSUME NEW i \in 1 .. Len(parts), f[i - 1] = g[i - 1] PROVE f[i] = g[i]
  <2>1. i \in 0 .. Len(parts) /\ i # 0
    BY <1>3
  <2>2. f[i] = KeepOn(f[i - 1], parts[i]) /\ g[i] = KeepOn(g[i - 1], parts[i])
    BY <1>2, <2>1 DEF KeepsUpTo
  <2>3. QED
    BY <1>5, <2>2
<1>6. f[Len(parts)] = g[Len(parts)]
  BY <1>3, <1>4, <1>5, StepsAgree
<1>7. QED
  BY <1>1, <1>6

LEMMA NonEmptyFacts ==
  ASSUME NEW S
  PROVE  /\ NonEmpty(<<>>) = <<>>
         /\ \A parts \in Seq(S) : NonEmpty(parts) \in Seq(S)
         /\ \A parts \in Seq(S), part \in S :
              NonEmpty(Append(parts, part)) = KeepOn(NonEmpty(parts), part)
<1>1. ASSUME NEW parts \in Seq(S) PROVE NonEmpty(parts) \in Seq(S)
  BY KeepsUpToExists, NonEmptyIs
<1>2. NonEmpty(<<>>) = <<>>
  <2>1. <<>> \in Seq(S) /\ Len(<<>>) = 0
    BY EmptySeq
  <2>2. PICK f : KeepsUpTo(f, <<>>)
    BY <2>1, KeepsUpToExists
  <2>3. NonEmpty(<<>>) = f[0]
    BY <2>1, <2>2, NonEmptyIs
  <2>4. QED
    BY <2>1, <2>2, <2>3 DEF KeepsUpTo
<1>3. ASSUME NEW parts \in Seq(S), NEW part \in S
      PROVE  NonEmpty(Append(parts, part)) = KeepOn(NonEmpty(parts), part)
  <2>1. PICK longer : longer = Append(parts, part)
    OBVIOUS
  <2>2. PICK n : n = Len(parts)
    OBVIOUS
  <2>3. /\ longer \in Seq(S) /\ n \in Nat /\ Len(longer) = n + 1 /\ longer[n + 1] = part
        /\ \A i \in 1 .. n : longer[i] = parts[i]
    BY <2>1, <2>2, AppendProperties, LenProperties
  <2>4. PICK f : KeepsUpTo(f, parts)
    BY KeepsUpToExists
  <2>5. PICK g : KeepsUpTo(g, longer)
    BY <2>3, KeepsUpToExists
  <2>6. NonEmpty(parts) = f[n] /\ NonEmpty(longer) = g[n + 1]
    BY <2>2, <2>3, <2>4, <2>5, NonEmptyIs
  <2>7. f[0] = g[0]
    BY <2>2, <2>3, <2>4, <2>5 DEF KeepsUpTo
  <2>8. /\ \A i \in 1 .. n : f[i] = KeepOn(f[i - 1], parts[i])
        /\ \A i \in 1 .. n + 1 : g[i] = KeepOn(g[i - 1], longer[i])
    <3>1. \A i \in 1 .. n : i \in 0 .. Len(parts) /\ i # 0
      BY <2>2, <2>3
    <3>2. \A i \in 1 .. n + 1 : i \in 0 .. Len(longer) /\ i # 0
      BY <2>3
    <3>3. QED
      BY <2>4, <2>5, <3>1, <3>2 DEF KeepsUpTo
  <2>9. ASSUME NEW i \in 1 .. n, f[i - 1] = g[i - 1] PROVE f[i] = g[i]
    <3>1. i \in 1 .. n + 1 /\ longer[i] = parts[i]
      BY <2>3
    <3>2. QED
      BY <2>8, <2>9, <3>1
  <2>10. f[n] = g[n]
    <3>1. n \in Nat
      BY <2>3
    <3>2. QED
      BY <2>7, <2>9, <3>1, StepsAgree
  <2>11. g[n + 1] = KeepOn(g[n], part)
    <3>1. n + 1 \in 1 .. n + 1 /\ (n + 1) - 1 = n
      BY <2>3
    <3>2. QED
      BY <2>3, <2>8, <3>1
  <2>12. QED
    BY <2>1, <2>6, <2>10, <2>11
<1>4. QED
  BY <1>1, <1>2, <1>3

LEMMA ConcatAppend ==
  ASSUME NEW S, NEW s \in Seq(S), NEW t \in Seq(S), NEW x \in S
  PROVE  s \o Append(t, x) = Append(s \o t, x)
<1>1. <<x>> \in Seq(S) /\ s \o t \in Seq(S)
  BY ConcatProperties
<1>2. s \o (t \o <<x>>) = (s \o t) \o <<x>>
  BY <1>1, ConcatAssociative
<1>3. QED
  BY <1>1, <1>2, AppendIsConcat

\* The symbol is not in the text.
Without(text, sym) == \A i \in 1 .. Len(text) : text[i] # sym

LEMMA WithoutFacts ==
  ASSUME NEW S, NEW sym
  PROVE  /\ Without(<<>>, sym)
         /\ \A s \in Seq(S), x \in S : Without(Append(s, x), sym) <=> Without(s, sym) /\ x # sym
         /\ \A s \in Seq(S), t \in Seq(S) : Without(s \o t, sym) <=> Without(s, sym) /\ Without(t, sym)
<1>1. Without(<<>>, sym)
  BY DEF Without
<1>2. ASSUME NEW s \in Seq(S), NEW x \in S
      PROVE  Without(Append(s, x), sym) <=> Without(s, sym) /\ x # sym
  <2>1. PICK t : t = Append(s, x)
    OBVIOUS
  <2>2. /\ Len(t) = Len(s) + 1 /\ Len(s) \in Nat /\ t[Len(s) + 1] = x
        /\ \A i \in 1 .. Len(s) : t[i] = s[i]
    BY <2>1, AppendProperties, LenProperties
  <2>3. Without(t, sym) <=> Without(s, sym) /\ x # sym
    BY <2>2 DEF Without
  <2>4. QED
    BY <2>1, <2>3
<1>3. ASSUME NEW s \in Seq(S), NEW t \in Seq(S)
      PROVE  Without(s \o t, sym) <=> Without(s, sym) /\ Without(t, sym)
  <2>1. PICK u : u = s \o t
    OBVIOUS
  <2>2. /\ Len(u) = Len(s) + Len(t) /\ Len(s) \in Nat /\ Len(t) \in Nat
        /\ \A i \in 1 .. Len(s) + Len(t) : u[i] = IF i <= Len(s) THEN s[i] ELSE t[i - Len(s)]
    BY <2>1, ConcatProperties, LenProperties
  <2>3. ASSUME Without(u, sym) PROVE Without(s, sym) /\ Without(t, sym)
    <3>1. ASSUME NEW i \in 1 .. Len(s) PROVE s[i] # sym
      <4>1. i \in 1 .. Len(u) /\ u[i] = s[i]
        BY <2>2
      <4>2. QED
        BY <2>3, <4>1 DEF Without
    <3>2. ASSUME NEW i \in 1 .. Len(t) PROVE t[i] # sym
      <4>1. Len(s) + i \in 1 .. Len(u) /\ u[Len(s) + i] = t[i]
        BY <2>2
      <4>2. QED
        BY <2>3, <4>1 DEF Without
    <3>3. QED
      BY <3>1, <3>2 DEF Without
  <2>4. ASSUME Without(s, sym), Without(t, sym) PROVE Without(u, sym)
    <3>1. ASSUME NEW i \in 1 .. Len(u) PROVE u[i] # sym
      <4>1. CASE i <= Len(s)
        BY <2>2, <2>4, <4>1 DEF Without
      <4>2. CASE ~(i <= Len(s))
        <5>1. i - Len(s) \in 1 .. Len(t) /\ u[i] = t[i - Len(s)]
          BY <2>2, <4>2
        <5>2. QED
          BY <2>4, <5>1 DEF Without
      <4>3. QED
        BY <4>1, <4>2
    <3>2. QED
      BY <3>1 DEF Without
  <2>5. QED
    BY <2>1, <2>3, <2>4
<1>4. QED
  BY <1>1, <1>2, <1>3

\* Split cuts at every sym and nowhere else.
LEMMA SplitJoin ==
  ASSUME NEW S, NEW sym \in S, NEW text \in Seq(S)
  PROVE  /\ Join(Split(text, sym), <<sym>>) = text
         /\ \A i \in 1 .. Len(Split(text, sym)) : Without(Split(text, sym)[i], sym)
<1> DEFINE P(t, parts) == /\ Join(parts, <<sym>>) = t
                          /\ \A i \in 1 .. Len(parts) : Without(parts[i], sym)
           T == {t \in Seq(S) : P(t, Split(t, sym))}
<1>1. PICK V : V = Seq(S)
  OBVIOUS
<1>2. <<sym>> \in V /\ Empty \in V
  BY <1>1, EmptySeq DEF Empty
<1> DEFINE J(parts) == Join(parts, <<sym>>)
<1>0. /\ \A parts \in Seq(V) : J(parts) \in V
      /\ \A parts \in Seq(V), part \in V :
           J(Append(parts, part)) = IF parts = <<>> THEN part ELSE J(parts) \o <<sym>> \o part
  <2>1. PICK sep : sep = <<sym>>
    OBVIOUS
  <2>2. sep \in Seq(S)
    BY <1>1, <1>2, <2>1
  <2>3. /\ \A parts \in Seq(Seq(S)) : Join(parts, sep) \in Seq(S)
        /\ \A parts \in Seq(Seq(S)), part \in Seq(S) :
             Join(Append(parts, part), sep) =
               IF parts = <<>> THEN part ELSE Join(parts, sep) \o sep \o part
    BY <2>2, JoinFacts
  <2>4. QED
    BY <1>1, <2>1, <2>3
<1>3. <<>> \in T
  <2>1. Join(Append(<<>>, Empty), <<sym>>) = Empty
    BY <1>1, <1>2, EmptySeq, JoinFacts
  <2>2. Append(<<>>, Empty) = <<Empty>> /\ Len(<<Empty>>) = 1 /\ <<Empty>>[1] = Empty
    OBVIOUS
  <2>3. Without(Empty, sym)
    BY WithoutFacts DEF Empty
  <2>4. P(Empty, <<Empty>>)
    BY <2>1, <2>2, <2>3
  <2>5. QED
    BY <2>4, EmptySeq, SplitFacts DEF Empty
<1>4. ASSUME NEW t \in Seq(S), NEW c \in S, t \in T PROVE Append(t, c) \in T
  <2>1. PICK parts : parts = Split(t, sym)
    OBVIOUS
  <2>2. parts \in Seq(V) /\ parts # <<>> /\ P(t, parts)
    <3>1. Split(t, sym) \in Seq(Seq(S)) \ {<<>>}
      BY SplitFacts
    <3>2. QED
      BY <1>1, <1>4, <2>1, <3>1
  <2>3. Split(Append(t, c), sym) = SplitOn(parts, c, sym)
    <3>1. \A s \in Seq(S), d \in S : Split(Append(s, d), sym) = SplitOn(Split(s, sym), d, sym)
      BY SplitFacts
    <3>2. Split(Append(t, c), sym) = SplitOn(Split(t, sym), c, sym)
      BY <3>1
    <3>3. QED
      BY <2>1, <3>2
  <2>4. CASE c = sym
    <3>1. SplitOn(parts, c, sym) = Append(parts, Empty)
      BY <2>4 DEF SplitOn
    <3>2. PICK more : more = Append(parts, Empty)
      OBVIOUS
    <3>3. Join(more, <<sym>>) = t \o <<sym>> \o Empty
      <4>1. J(more) = IF parts = <<>> THEN Empty ELSE J(parts) \o <<sym>> \o Empty
        <5> HIDE DEF J
        <5>1. QED
          BY <1>0, <1>2, <2>2, <3>2
      <4>2. J(parts) = t
        BY <2>2
      <4>3. QED
        BY <2>2, <4>1, <4>2
    <3>4. t \o <<sym>> \o Empty = Append(t, c)
      <4>1. t \o <<sym>> = Append(t, c) /\ Append(t, c) \in Seq(S)
        BY <2>4, AppendIsConcat, AppendProperties
      <4>2. QED
        BY <4>1, ConcatEmptySeq DEF Empty
    <3>5. ASSUME NEW i \in 1 .. Len(more) PROVE Without(more[i], sym)
      <4>1. /\ Len(more) = Len(parts) + 1 /\ more[Len(parts) + 1] = Empty /\ Len(parts) \in Nat
            /\ \A j \in 1 .. Len(parts) : more[j] = parts[j]
        BY <1>2, <2>2, <3>2, AppendProperties, LenProperties
      <4>2. i = Len(parts) + 1 \/ i \in 1 .. Len(parts)
        BY <4>1
      <4>3. Without(Empty, sym)
        BY WithoutFacts DEF Empty
      <4>4. QED
        BY <2>2, <4>1, <4>2, <4>3
    <3>6. Append(t, c) \in Seq(S) /\ P(Append(t, c), more)
      BY <3>3, <3>4, <3>5, AppendProperties
    <3> HIDE DEF P
    <3>7. QED
      BY <2>3, <3>1, <3>2, <3>6
  <2>5. CASE c # sym
    <3>1. PICK front, last : front = Front(parts) /\ last = Last(parts)
      OBVIOUS
    <3>2. /\ front \in Seq(V) /\ last \in V /\ parts = Append(front, last)
          /\ Append(last, c) \in V
      BY <1>1, <2>2, <3>1, FrontLast, AppendProperties
    <3>3. PICK more : more = Append(front, Append(last, c))
      OBVIOUS
    <3>4. SplitOn(parts, c, sym) = more
      BY <2>5, <3>1, <3>3 DEF SplitOn
    <3>5. Join(more, <<sym>>) = Append(t, c)
      <4>1. /\ t = IF front = <<>> THEN last ELSE Join(front, <<sym>>) \o <<sym>> \o last
            /\ Join(more, <<sym>>) =
                 IF front = <<>> THEN Append(last, c)
                 ELSE Join(front, <<sym>>) \o <<sym>> \o Append(last, c)
        <5>1. J(parts) = t
          BY <2>2
        <5> HIDE DEF J
        <5>2. /\ J(parts) = IF front = <<>> THEN last ELSE J(front) \o <<sym>> \o last
              /\ J(more) = IF front = <<>> THEN Append(last, c)
                           ELSE J(front) \o <<sym>> \o Append(last, c)
          BY <1>0, <3>2, <3>3
        <5>3. QED
          BY <5>1, <5>2 DEF J
      <4>2. CASE front = <<>>
        BY <4>1, <4>2
      <4>3. CASE front # <<>>
        <5>1. PICK before : before = Join(front, <<sym>>) \o <<sym>>
          OBVIOUS
        <5>2. before \in Seq(S)
          BY <1>1, <1>2, <3>2, <5>1, JoinFacts, ConcatProperties
        <5>3. before \o Append(last, c) = Append(before \o last, c)
          BY <1>1, <3>2, <5>2, ConcatAppend
        <5>4. QED
          BY <4>1, <4>3, <5>1, <5>3
      <4>4. QED
        BY <4>2, <4>3
    <3>6. ASSUME NEW i \in 1 .. Len(more) PROVE Without(more[i], sym)
      <4>1. /\ Len(front) \in Nat /\ Len(more) = Len(front) + 1 /\ Len(parts) = Len(front) + 1
            /\ more[Len(front) + 1] = Append(last, c) /\ parts[Len(front) + 1] = last
        BY <3>2, <3>3, AppendProperties, LenProperties
      <4>2. \A j \in 1 .. Len(front) : more[j] = front[j] /\ parts[j] = front[j]
        BY <3>2, <3>3, AppendProperties
      <4>3. Without(last, sym)
        BY <2>2, <4>1
      <4>4. Without(Append(last, c), sym)
        BY <1>1, <2>5, <3>2, <4>3, WithoutFacts
      <4>5. i = Len(front) + 1 \/ (i \in 1 .. Len(front) /\ i \in 1 .. Len(parts))
        BY <4>1
      <4>6. QED
        BY <2>2, <4>1, <4>2, <4>4, <4>5
    <3>7. Append(t, c) \in Seq(S) /\ P(Append(t, c), more)
      BY <3>5, <3>6, AppendProperties
    <3> HIDE DEF P
    <3>8. QED
      BY <2>3, <3>4, <3>7
  <2>6. QED
    BY <2>4, <2>5
<1> HIDE DEF P
<1>5. text \in T
  <2> HIDE DEF T
  <2>1. QED
    BY <1>3, <1>4, AppendInduction
<1>6. QED
  BY <1>5 DEF P

\* Concatenation and Append, when only what follows matters of them.
Cat(s, t) == s \o t
Add(s, x) == Append(s, x)

LEMMA CatFacts ==
  ASSUME NEW S
  PROVE  /\ \A s \in Seq(S), t \in Seq(S) : Cat(s, t) \in Seq(S)
         /\ \A s \in Seq(S), t \in Seq(S), u \in Seq(S) : Cat(Cat(s, t), u) = Cat(s, Cat(t, u))
         /\ \A s \in Seq(S) : Cat(s, <<>>) = s /\ Cat(<<>>, s) = s
         /\ \A s \in Seq(S), x \in S : Add(s, x) \in Seq(S)
         /\ \A s \in Seq(S), t \in Seq(S), x \in S : Cat(s, Add(t, x)) = Add(Cat(s, t), x)
<1>1. ASSUME NEW s \in Seq(S), NEW t \in Seq(S) PROVE Cat(s, t) \in Seq(S)
  BY ConcatProperties DEF Cat
<1>2. ASSUME NEW s \in Seq(S), NEW t \in Seq(S), NEW u \in Seq(S)
      PROVE  Cat(Cat(s, t), u) = Cat(s, Cat(t, u))
  BY ConcatAssociative DEF Cat
<1>3. ASSUME NEW s \in Seq(S) PROVE Cat(s, <<>>) = s /\ Cat(<<>>, s) = s
  BY ConcatEmptySeq DEF Cat
<1>4. ASSUME NEW s \in Seq(S), NEW x \in S PROVE Add(s, x) \in Seq(S)
  BY AppendProperties DEF Add
<1>5. ASSUME NEW s \in Seq(S), NEW t \in Seq(S), NEW x \in S
      PROVE  Cat(s, Add(t, x)) = Add(Cat(s, t), x)
  BY ConcatAppend DEF Cat, Add
<1>6. QED
  BY <1>1, <1>2, <1>3, <1>4, <1>5

LEMMA JoinConcat ==
  ASSUME NEW S, NEW sep \in Seq(S), NEW p \in Seq(Seq(S)), p # <<>>, NEW q \in Seq(Seq(S)), q # <<>>
  PROVE  Join(p \o q, sep) = Join(p, sep) \o sep \o Join(q, sep)
<1>1. PICK V : V = Seq(S)
  OBVIOUS
<1> DEFINE J(parts) == Join(parts, sep)
           T == {r \in Seq(V) : r # <<>> => J(p \o r) = J(p) \o sep \o J(r)}
<1>2. /\ \A parts \in Seq(V) : J(parts) \in V
      /\ \A parts \in Seq(V), part \in V :
           J(Append(parts, part)) = IF parts = <<>> THEN part ELSE J(parts) \o sep \o part
  <2>1. /\ \A parts \in Seq(Seq(S)) : Join(parts, sep) \in Seq(S)
        /\ \A parts \in Seq(Seq(S)), part \in Seq(S) :
             Join(Append(parts, part), sep) =
               IF parts = <<>> THEN part ELSE Join(parts, sep) \o sep \o part
    BY JoinFacts
  <2>2. QED
    BY <1>1, <2>1
<1> HIDE DEF J
<1>3. <<>> \in T
  BY EmptySeq
<1>4. ASSUME NEW r \in Seq(V), NEW y \in V, r # <<>> => J(p \o r) = J(p) \o sep \o J(r)
      PROVE  J(p \o Append(r, y)) = J(p) \o sep \o J(Append(r, y))
  <2> HIDE DEF T
  <2>0. p \in Seq(V)
    BY <1>1
  <2>1. /\ p \o r \in Seq(V) /\ p \o r # <<>> /\ p \o Append(r, y) = Append(p \o r, y)
        /\ Append(r, y) \in Seq(V)
    BY <2>0, ConcatProperties, ConcatEqualIffEmpty, ConcatAppend, AppendProperties
  <2>2. J(p \o Append(r, y)) = J(p \o r) \o sep \o y
    BY <1>2, <2>1
  <2>3. CASE r = <<>>
    <3>1. J(Append(r, y)) = y /\ p \o r = p
      BY <1>2, <2>0, <2>3, ConcatEmptySeq
    <3>2. QED
      BY <2>1, <2>2, <3>1
  <2>4. CASE r # <<>>
    <3>1. J(p \o r) = J(p) \o sep \o J(r) /\ J(Append(r, y)) = J(r) \o sep \o y
      BY <1>2, <1>4, <2>4
    <3>2. PICK a, b : a = J(p) \o sep /\ b = J(r)
      OBVIOUS
    <3>3. a \in Seq(S) /\ b \in Seq(S) /\ y \in Seq(S)
      BY <1>1, <1>2, <2>0, <3>2, ConcatProperties
    <3>4. a \o b \o sep \o y = a \o (b \o sep \o y)
      <4>1. Cat(Cat(Cat(a, b), sep), y) = Cat(a, Cat(Cat(b, sep), y))
        BY <3>3, CatFacts
      <4>2. QED
        BY <4>1 DEF Cat
    <3>5. QED
      BY <2>2, <3>1, <3>2, <3>4
  <2>5. QED
    BY <2>3, <2>4
<1>5. q \in T
  <2> DEFINE step == \A r \in Seq(V), y \in V : r \in T => Append(r, y) \in T
  <2>0. step
    BY <1>4, AppendProperties
  <2> HIDE DEF T
  <2>1. QED
    BY <1>1, <1>3, <2>0, AppendInduction
<1>6. QED
  BY <1>5 DEF J

LEMMA JoinSingle ==
  ASSUME NEW S, NEW sep \in Seq(S), NEW part \in Seq(S)
  PROVE  Join(<<part>>, sep) = part
<1>1. \A parts \in Seq(Seq(S)), p \in Seq(S) :
        Join(Append(parts, p), sep) = IF parts = <<>> THEN p ELSE Join(parts, sep) \o sep \o p
  BY JoinFacts
<1>2. PICK none : none = <<>>
  OBVIOUS
<1>3. none \in Seq(Seq(S)) /\ Append(none, part) = <<part>>
  BY <1>2
<1>4. Join(Append(none, part), sep) = part
  BY <1>1, <1>2, <1>3
<1>5. QED
  BY <1>3, <1>4

LEMMA PairConcat ==
  ASSUME NEW a, NEW b
  PROVE  <<a>> \o <<b>> = <<a, b>>
<1>1. PICK S : S = {a, b}
  OBVIOUS
<1>2. PICK two, w : two = <<b>> /\ w = <<a>> \o two
  OBVIOUS
<1>3. two \in Seq(S) /\ a \in S /\ Len(two) = 1 /\ two[1] = b
  BY <1>1, <1>2
<1>4. w \in Seq(S) /\ Len(w) = Len(two) + 1 /\ w[1] = a /\ \A i \in 1 .. Len(two) : w[i + 1] = two[i]
  BY <1>2, <1>3, PrependFacts
<1>5. Len(w) = 2 /\ w[1] = a /\ w[1 + 1] = b
  BY <1>3, <1>4
<1>6. w = <<a, b>>
  <2>1. PICK v : v = <<a, b>>
    OBVIOUS
  <2>2. v \in Seq(S) /\ Len(v) = 2 /\ v[1] = a /\ v[2] = b
    BY <1>1, <2>1
  <2>3. \A i \in 1 .. Len(w) : w[i] = v[i]
    BY <1>5, <2>2
  <2>4. w = v
    BY <1>4, <1>5, <2>2, <2>3, SeqEqual
  <2>5. QED
    BY <2>1, <2>4
<1>7. QED
  BY <1>2, <1>6

LEMMA SplitOnConcat ==
  ASSUME NEW S, NEW p \in Seq(Seq(S)), NEW q \in Seq(Seq(S)), q # <<>>, NEW c \in S, NEW sym
  PROVE  SplitOn(p \o q, c, sym) = p \o SplitOn(q, c, sym)
<1>1. PICK V : V = Seq(S)
  OBVIOUS
<1>2. PICK front, last : front = Front(q) /\ last = Last(q)
  OBVIOUS
<1>3. /\ front \in Seq(V) /\ last \in V /\ q = Append(front, last)
      /\ Append(last, c) \in V /\ Empty \in V
  BY <1>1, <1>2, FrontLast, AppendProperties, EmptySeq DEF Empty
<1>4. p \o q = Append(p \o front, last) /\ p \o front \in Seq(V)
  <2>1. p \in Seq(V) /\ front \in Seq(V) /\ last \in V
    BY <1>1, <1>3
  <2>2. p \o Append(front, last) = Append(p \o front, last)
    BY <2>1, ConcatAppend
  <2>3. p \o front \in Seq(V)
    BY <2>1, ConcatProperties
  <2>4. QED
    BY <1>3, <2>2, <2>3
<1>5. Front(p \o q) = p \o front /\ Last(p \o q) = last
  <2>1. PICK f, l : f = Front(p \o q) /\ l = Last(p \o q)
    OBVIOUS
  <2>2. p \o q \in Seq(V) /\ p \o q # <<>>
    BY <1>3, <1>4, AppendProperties
  <2>3. f \in Seq(V) /\ l \in V /\ p \o q = Append(f, l)
    BY <2>1, <2>2, FrontLast
  <2>4. PICK g : g = p \o front
    OBVIOUS
  <2>5. Append(g, last) = Append(f, l) /\ g \in Seq(V)
    BY <1>4, <2>3, <2>4
  <2>6. g = f /\ last = l
    BY <1>3, <2>3, <2>5, AppendInjective
  <2>7. QED
    BY <2>1, <2>4, <2>6
<1>6. p \in Seq(V) /\ q \in Seq(V)
  BY <1>1
<1>7. Append(p \o q, Empty) = p \o Append(q, Empty)
  <2>1. \A x \in V : Add(Cat(p, q), x) = Cat(p, Add(q, x))
    BY <1>6, CatFacts
  <2>2. QED
    BY <1>3, <2>1 DEF Cat, Add
<1>8. PICK longer : longer = Append(last, c)
  OBVIOUS
<1>9. Append(p \o front, longer) = p \o Append(front, longer)
  <2>1. Add(Cat(p, front), longer) = Cat(p, Add(front, longer))
    BY <1>3, <1>6, <1>8, CatFacts
  <2>2. QED
    BY <2>1 DEF Cat, Add
<1>10. QED
  BY <1>2, <1>5, <1>7, <1>8, <1>9 DEF SplitOn

\* A text before and one after a sym are split on their own.
LEMMA SplitConcat ==
  ASSUME NEW S, NEW sym \in S, NEW s \in Seq(S), NEW t \in Seq(S)
  PROVE  Split(s \o <<sym>> \o t, sym) = Split(s, sym) \o Split(t, sym)
<1>1. PICK V : V = Seq(S)
  OBVIOUS
<1>2. PICK p : p = Split(s, sym)
  OBVIOUS
<1> DEFINE before == s \o <<sym>>
           T == {u \in Seq(S) : Split(before \o u, sym) = p \o Split(u, sym)}
<1>3. /\ \A u \in Seq(S) : Split(u, sym) \in Seq(V) /\ Split(u, sym) # <<>>
      /\ \A u \in Seq(S), c \in S : Split(Append(u, c), sym) = SplitOn(Split(u, sym), c, sym)
      /\ Split(<<>>, sym) = <<Empty>> /\ Empty \in V
  <2>1. \A u \in Seq(S) : Split(u, sym) \in Seq(Seq(S)) \ {<<>>}
    BY SplitFacts
  <2>2. QED
    BY <1>1, <2>1, SplitFacts, EmptySeq DEF Empty
<1>4. before \in Seq(S) /\ before = Append(s, sym)
  BY ConcatProperties, AppendIsConcat
<1>5. <<>> \in T
  <2>1. Split(before, sym) = Append(p, Empty)
    BY <1>2, <1>3, <1>4 DEF SplitOn
  <2>2. Append(p, Empty) = p \o <<Empty>>
    BY <1>2, <1>3, AppendIsConcat
  <2>3. before \o <<>> = before
    BY <1>4, ConcatEmptySeq
  <2>4. QED
    BY <1>3, <2>1, <2>2, <2>3, EmptySeq
<1> HIDE DEF before
<1>6. ASSUME NEW u \in Seq(S), NEW c \in S, u \in T PROVE Append(u, c) \in T
  <2>1. before \o Append(u, c) = Append(before \o u, c) /\ before \o u \in Seq(S)
    BY <1>4, ConcatAppend, ConcatProperties
  <2>2. Split(before \o Append(u, c), sym) = SplitOn(p \o Split(u, sym), c, sym)
    BY <1>3, <1>6, <2>1
  <2>3. SplitOn(p \o Split(u, sym), c, sym) = p \o SplitOn(Split(u, sym), c, sym)
    <3>1. PICK q : q = Split(u, sym)
      OBVIOUS
    <3>2. p \in Seq(Seq(S)) /\ q \in Seq(Seq(S)) /\ q # <<>>
      BY <1>1, <1>2, <1>3, <3>1
    <3>3. SplitOn(p \o q, c, sym) = p \o SplitOn(q, c, sym)
      BY <3>2, SplitOnConcat
    <3>4. QED
      BY <3>1, <3>3
  <2>4. QED
    BY <1>3, <2>2, <2>3, AppendProperties
<1>7. t \in T
  <2> HIDE DEF T
  <2>1. QED
    BY <1>5, <1>6, AppendInduction
<1>8. QED
  BY <1>2, <1>7 DEF before

LEMMA SplitWhole ==
  ASSUME NEW S, NEW sym, NEW text \in Seq(S), Without(text, sym)
  PROVE  Split(text, sym) = <<text>>
<1> DEFINE T == {t \in Seq(S) : Without(t, sym) => Split(t, sym) = <<t>>}
<1>1. <<>> \in T
  BY SplitFacts, EmptySeq DEF Empty
<1>2. ASSUME NEW t \in Seq(S), NEW c \in S, t \in T PROVE Append(t, c) \in T
  <2>1. ASSUME Without(Append(t, c), sym) PROVE Split(Append(t, c), sym) = <<Append(t, c)>>
    <3>1. Without(t, sym) /\ c # sym
      BY <2>1, WithoutFacts
    <3>2. Split(Append(t, c), sym) = SplitOn(<<t>>, c, sym)
      BY <1>2, <3>1, SplitFacts
    <3>3. Last(<<t>>) = t
      BY DEF Last
    <3>4. Front(<<t>>) = <<>>
      BY SubSeqEmpty DEF Front
    <3>5. SplitOn(<<t>>, c, sym) = Append(<<>>, Append(t, c))
      BY <3>1, <3>3, <3>4 DEF SplitOn
    <3>6. PICK longer : longer = Append(t, c)
      OBVIOUS
    <3>7. Append(<<>>, longer) = <<longer>>
      OBVIOUS
    <3>8. QED
      BY <3>2, <3>5, <3>6, <3>7
  <2>2. QED
    BY <2>1, AppendProperties
<1>3. text \in T
  <2> HIDE DEF T
  <2>1. QED
    BY <1>1, <1>2, AppendInduction
<1>4. QED
  BY <1>3

\* Up to the first sym, and from there on.
Before(text, sym) == SubSeq(text, 1, Index(text, sym) - 1)
After(text, sym) == SubSeq(text, Index(text, sym) + 1, Len(text))

IsCut(text, sym, S) ==
  /\ Index(text, sym) = 0 => Without(text, sym) /\ Split(text, sym) = <<text>>
  /\ Index(text, sym) # 0 =>
       /\ Before(text, sym) \in Seq(S) /\ After(text, sym) \in Seq(S)
       /\ Without(Before(text, sym), sym)
       /\ text = Before(text, sym) \o <<sym>> \o After(text, sym)
       /\ Split(text, sym) = <<Before(text, sym)>> \o Split(After(text, sym), sym)

LEMMA SplitCut ==
  ASSUME NEW S, NEW sym \in S, NEW text \in Seq(S)
  PROVE  IsCut(text, sym, S)
<1>0. PICK k, before, after : /\ k = Index(text, sym) /\ before = SubSeq(text, 1, k - 1)
                              /\ after = SubSeq(text, k + 1, Len(text))
  OBVIOUS
<1>1. /\ k = 0 => Without(text, sym)
      /\ k # 0 => k \in 1 .. Len(text) /\ text[k] = sym
      /\ \A i \in 1 .. k - 1 : text[i] # sym
      /\ Len(text) \in Nat /\ k \in Nat
  <2>1. Len(text) \in Nat
    BY LenProperties
  <2>2. QED
    BY <1>0, <2>1, IndexFacts DEF Without
<1>2. CASE k = 0
  BY <1>0, <1>1, <1>2, SplitWhole DEF IsCut
<1>3. CASE k # 0
  <2>1. /\ before \in Seq(S) /\ Len(before) = k - 1
        /\ \A i \in 1 .. k - 1 : before[i] = text[i]
    <3>1. /\ 1 \in Int /\ k - 1 \in Int /\ \A i \in 1 .. k - 1 : text[i] \in S
          /\ k - 1 = IF 1 <= k - 1 THEN (k - 1) - 1 + 1 ELSE 0
          /\ (k - 1) - 1 + 1 = k - 1 /\ \A i \in 1 .. k - 1 : 1 + i - 1 = i
      BY <1>1, <1>3, ElementOfSeq
    <3>2. QED
      BY <1>0, <3>1, SubSeqProperties
  <2>2. after \in Seq(S)
    <3>1. k + 1 \in Int /\ Len(text) \in Int /\ \A i \in k + 1 .. Len(text) : text[i] \in S
      BY <1>1, <1>3, ElementOfSeq
    <3>2. QED
      BY <1>0, <3>1, SubSeqProperties
  <2>3. Without(before, sym)
    BY <1>1, <2>1 DEF Without
  <2>4. text = before \o <<sym>> \o after
    <3>1. SubSeq(text, 1, k) = before \o <<text[k]>>
      <4>1. 1 \in 1 .. Len(text) /\ k \in 1 .. Len(text)
        BY <1>1, <1>3
      <4>2. QED
        BY <1>0, <4>1, SubSeqRecursiveSecond
    <3>2. SubSeq(text, 1, k) \o after = SubSeq(text, 1, Len(text))
      <4>1. 1 \in 1 .. Len(text) + 1 /\ k \in 1 - 1 .. Len(text) /\ Len(text) \in k .. Len(text)
        BY <1>1, <1>3
      <4>2. QED
        BY <1>0, <4>1, ConcatAdjacentSubSeq
    <3>3. QED
      BY <1>1, <1>3, <3>1, <3>2, SubSeqFull
  <2>5. Split(text, sym) = Split(before, sym) \o Split(after, sym)
    BY <2>1, <2>2, <2>4, SplitConcat
  <2>6. Split(before, sym) = <<before>>
    BY <2>1, <2>3, SplitWhole
  <2>7. QED
    BY <1>0, <1>3, <2>1, <2>2, <2>3, <2>4, <2>5, <2>6 DEF IsCut, Before, After
<1>4. QED
  BY <1>2, <1>3
-----------------------------------------------------------------------------
(* Events: who, and whether a text is an action, CTCP or neither.          *)

LEMMA HeadOfSplit ==
  ASSUME NEW S, NEW sym \in S, NEW text \in Seq(S), NEW h, h = Head(Split(text, sym))
  PROVE  /\ h \in Seq(S)
         /\ h = IF Index(text, sym) = 0 THEN text ELSE SubSeq(text, 1, Index(text, sym) - 1)
         /\ ~StartsWith(text, sym) /\ text # Empty => h # Empty /\ h[1] = text[1]
         /\ StartsWith(text, sym) => h = Empty
<1>1. PICK k : k = Index(text, sym)
  OBVIOUS
<1>2. PICK before, after : /\ before = SubSeq(text, 1, k - 1)
                           /\ after = SubSeq(text, k + 1, Len(text))
  OBVIOUS
<1>3. /\ k \in Nat /\ k \in 0 .. Len(text) /\ Len(text) \in Nat
      /\ k # 0 => text[k] = sym
      /\ \A i \in 1 .. k - 1 : text[i] # sym
      /\ k = 0 => \A i \in 1 .. Len(text) : text[i] # sym
  <2>1. Len(text) \in Nat
    BY LenProperties
  <2>2. QED
    BY <1>1, <2>1, IndexFacts
<1> DEFINE whole == Without(text, sym) /\ Split(text, sym) = <<text>>
           cut == /\ before \in Seq(S) /\ after \in Seq(S) /\ Without(before, sym)
                  /\ text = before \o <<sym>> \o after
                  /\ Split(text, sym) = <<before>> \o Split(after, sym)
<1>0. (k = 0 => whole) /\ (k # 0 => cut)
  <2>1. k # 0 => before = Before(text, sym) /\ after = After(text, sym)
    BY <1>1, <1>2 DEF Before, After
  <2>2. IsCut(text, sym, S)
    BY SplitCut
  <2>3. QED
    BY <1>1, <2>1, <2>2 DEF IsCut
<1>4. text # Empty => Len(text) # 0 /\ Head(text) = text[1]
  BY EmptySeq DEF Empty
<1>5. CASE k = 0
  <2>1. Split(text, sym) = <<text>>
    BY <1>0, <1>5
  <2>2. h = text
    BY <2>1
  <2>3. text # Empty => text[1] # sym
    BY <1>3, <1>4, <1>5
  <2>4. QED
    BY <1>1, <1>4, <1>5, <2>2, <2>3 DEF StartsWith
<1>6. CASE k # 0
  <2>1. /\ before \in Seq(S) /\ after \in Seq(S)
        /\ Split(text, sym) = <<before>> \o Split(after, sym)
    BY <1>0, <1>6
  <2>2. h = before
    <3>1. PICK V : V = Seq(S)
      OBVIOUS
    <3>2. Split(after, sym) \in Seq(V) /\ before \in V
      BY <2>1, <3>1, SplitFacts
    <3>3. Head(<<before>> \o Split(after, sym)) = before
      BY <3>2, PrependFacts
    <3>4. QED
      BY <2>1, <3>3
  <2>3. Len(before) = k - 1 /\ \A i \in 1 .. k - 1 : before[i] = text[i]
    <3>1. /\ 1 \in Int /\ k - 1 \in Int /\ \A i \in 1 .. k - 1 : text[i] \in S
          /\ k - 1 = IF 1 <= k - 1 THEN (k - 1) - 1 + 1 ELSE 0
          /\ (k - 1) - 1 + 1 = k - 1 /\ \A i \in 1 .. k - 1 : 1 + i - 1 = i
      BY <1>3, <1>6, ElementOfSeq
    <3>2. QED
      BY <1>2, <3>1, SubSeqProperties
  <2>4. text # Empty /\ Head(text) = text[1]
    <3>1. Len(text) # 0
      BY <1>3, <1>6
    <3>2. QED
      BY <1>4, <3>1, EmptySeq DEF Empty
  <2>5. CASE k = 1
    <3>1. before = Empty
      BY <2>1, <2>3, <2>5, EmptySeq DEF Empty
    <3>2. StartsWith(text, sym)
      BY <1>3, <2>4, <2>5 DEF StartsWith
    <3>3. QED
      BY <1>1, <1>2, <1>6, <2>1, <2>2, <3>1, <3>2
  <2>6. CASE k # 1
    <3>1. 1 \in 1 .. k - 1 /\ k - 1 # 0
      BY <1>3, <1>6, <2>6
    <3>2. before # Empty /\ before[1] = text[1] /\ text[1] # sym
      BY <1>3, <2>3, <3>1, EmptySeq DEF Empty
    <3>3. ~StartsWith(text, sym)
      BY <2>4, <3>2 DEF StartsWith
    <3>4. QED
      BY <1>1, <1>2, <1>6, <2>1, <2>2, <3>2, <3>3
  <2>7. QED
    BY <2>5, <2>6
<1>7. QED
  BY <1>5, <1>6

LEMMA NonEmptyHead ==
  ASSUME NEW S, NEW parts \in Seq(S), parts # <<>>, parts[1] # Empty
  PROVE  NonEmpty(parts) # <<>> /\ Head(NonEmpty(parts)) = parts[1]
<1> DEFINE P(p, kept) == p # <<>> /\ p[1] # Empty => kept # <<>> /\ Head(kept) = p[1]
           T == {p \in Seq(S) : P(p, NonEmpty(p))}
<1>1. <<>> \in T
  BY EmptySeq
<1>2. ASSUME NEW p \in Seq(S), NEW x \in S, P(p, NonEmpty(p))
      PROVE  P(Append(p, x), NonEmpty(Append(p, x)))
  <2>1. PICK kept : kept = NonEmpty(p)
    OBVIOUS
  <2>2. kept \in Seq(S) /\ NonEmpty(Append(p, x)) = KeepOn(kept, x)
    BY <2>1, NonEmptyFacts
  <2>3. PICK longer : longer = Append(p, x)
    OBVIOUS
  <2>4. /\ longer # <<>> /\ Len(p) \in Nat /\ longer[Len(p) + 1] = x
        /\ \A i \in 1 .. Len(p) : longer[i] = p[i]
    BY <2>3, AppendProperties, LenProperties
  <2>5. Head(Append(kept, x)) = IF kept = <<>> THEN x ELSE Head(kept)
    BY <2>2, HeadTailAppend
  <2>6. Append(kept, x) # <<>>
    BY <2>2, AppendProperties
  <2>7. CASE p = <<>>
    <3>1. kept = <<>> /\ longer[1] = x
      BY <2>1, <2>4, <2>7, NonEmptyFacts, EmptySeq
    <3>2. P(longer, KeepOn(kept, x))
      BY <2>5, <2>6, <3>1 DEF KeepOn
    <3>3. QED
      BY <2>2, <2>3, <3>2
  <2>8. CASE p # <<>>
    <3>1. longer[1] = p[1]
      BY <2>4, <2>8, EmptySeq
    <3>2. P(longer, KeepOn(kept, x))
      BY <1>2, <2>1, <2>5, <2>6, <2>8, <3>1 DEF KeepOn
    <3>3. QED
      BY <2>2, <2>3, <3>2
  <2>9. QED
    BY <2>7, <2>8
<1> HIDE DEF P
<1>3. \A p \in Seq(S), x \in S : p \in T => Append(p, x) \in T
  BY <1>2, AppendProperties
<1>4. parts \in T
  <2> HIDE DEF T
  <2>1. QED
    BY <1>1, <1>3, AppendInduction
<1>5. QED
  BY <1>4 DEF P

LEMMA FieldsFacts ==
  ASSUME NEW S, NEW text \in Seq(S), Space \in S
  PROVE  /\ Fields(text) \in Seq(Seq(S))
         /\ text = Empty => Fields(text) = <<>>
         /\ text # Empty /\ ~StartsWith(text, Space) =>
              Fields(text) # <<>> /\ Head(Fields(text)) = Head(Split(text, Space))
<1>1. PICK V, parts : V = Seq(S) /\ parts = Split(text, Space)
  OBVIOUS
<1>2. parts \in Seq(V) /\ parts # <<>> /\ Fields(text) = NonEmpty(parts)
  BY <1>1, SplitFacts DEF Fields
<1>3. Fields(text) \in Seq(V)
  BY <1>2, NonEmptyFacts
<1>4. ASSUME text = Empty PROVE Fields(text) = <<>>
  <2>1. parts = <<Empty>>
    BY <1>1, <1>4, SplitFacts DEF Empty
  <2>2. Empty \in V /\ <<>> \in Seq(V) /\ Append(<<>>, Empty) = <<Empty>>
    BY <1>1, EmptySeq DEF Empty
  <2>3. NonEmpty(Append(<<>>, Empty)) = KeepOn(NonEmpty(<<>>), Empty)
    BY <2>2, NonEmptyFacts
  <2>4. QED
    BY <1>2, <2>1, <2>2, <2>3, NonEmptyFacts DEF KeepOn
<1>5. ASSUME text # Empty, ~StartsWith(text, Space)
      PROVE  Fields(text) # <<>> /\ Head(Fields(text)) = Head(Split(text, Space))
  <2>1. Head(parts) # Empty
    BY <1>1, <1>5, HeadOfSplit
  <2>2. Head(parts) = parts[1]
    OBVIOUS
  <2>3. QED
    BY <1>1, <1>2, <2>1, <2>2, NonEmptyHead
<1>6. QED
  BY <1>1, <1>3, <1>4, <1>5

LEMMA ContentFacts ==
  ASSUME NEW S, NEW text \in Seq(S), Delimited(text)
  PROVE  /\ Content(text) \in Seq(S) /\ Len(text) \in Nat \ {0}
         /\ Len(text) = 1 => Content(text) = Empty
         /\ Len(text) # 1 => /\ Len(Content(text)) = Len(text) - 2
                             /\ \A i \in 1 .. Len(text) - 2 : Content(text)[i] = text[i + 1]
         /\ Content(text) # Empty => Len(text) >= 3
         /\ text[1] = Delimiter /\ text[Len(text)] = Delimiter
<1>1. /\ Len(text) \in Nat \ {0} /\ text[1] = Delimiter /\ text[Len(text)] = Delimiter
  BY EmptySeq DEF Delimited, StartsWith, EndsWith, Last, Empty
<1>2. CASE Len(text) = 1
  <2>1. Content(text) = Empty
    BY <1>2, SubSeqEmpty DEF Content, Empty
  <2>2. QED
    BY <1>1, <1>2, <2>1, EmptySeq DEF Empty
<1>3. CASE Len(text) # 1
  <2>1. /\ 2 \in Int /\ Len(text) - 1 \in Int /\ \A i \in 2 .. Len(text) - 1 : text[i] \in S
    BY <1>1, ElementOfSeq
  <2>2. /\ SubSeq(text, 2, Len(text) - 1) \in Seq(S)
        /\ Len(SubSeq(text, 2, Len(text) - 1)) =
             IF 2 <= Len(text) - 1 THEN (Len(text) - 1) - 2 + 1 ELSE 0
        /\ \A i \in 1 .. (Len(text) - 1) - 2 + 1 :
             SubSeq(text, 2, Len(text) - 1)[i] = text[2 + i - 1]
    BY <2>1, SubSeqProperties
  <2>3. /\ (Len(text) - 1) - 2 + 1 = Len(text) - 2
        /\ ~(2 <= Len(text) - 1) => Len(text) - 2 = 0
        /\ \A i \in 1 .. Len(text) - 2 : 2 + i - 1 = i + 1
    <3>1. PICK n : n = Len(text)
      OBVIOUS
    <3>2. n \in Nat /\ n # 0 /\ n # 1
      BY <1>1, <1>3, <3>1
    <3>3. ((n - 1) - 2) + 1 = n - 2 /\ (~(2 <= n - 1) => n - 2 = 0)
      BY <3>2
    <3>4. \A i \in 1 .. n - 2 : 2 + i - 1 = i + 1
      BY <3>2
    <3>5. QED
      BY <3>1, <3>3, <3>4
  <2>4. /\ Content(text) \in Seq(S) /\ Len(Content(text)) = Len(text) - 2
        /\ \A i \in 1 .. Len(text) - 2 : Content(text)[i] = text[i + 1]
    BY <2>2, <2>3 DEF Content
  <2>5. Content(text) # Empty => Len(Content(text)) # 0
    BY <2>4, EmptySeq DEF Empty
  <2>6. QED
    BY <1>1, <1>3, <2>4, <2>5
<1>4. QED
  BY <1>2, <1>3

LEMMA LengthFacts ==
  ASSUME NEW S, NEW text \in Seq(S)
  PROVE  /\ Length(text) \in Nat /\ Length(text) >= Len(text)
         /\ \A i \in 1 .. Len(text) : text[i] = "ACTION" => Length(text) >= Len(text) + 5
<1> DEFINE A == {i \in DOMAIN text : text[i] \in {"ACTION", "action"}}
           B == {i \in DOMAIN text : text[i] = "VERSION"}
<1>1. Len(text) \in Nat /\ DOMAIN text = 1 .. Len(text)
  BY LenProperties
<1>2. IsFiniteSet(A) /\ IsFiniteSet(B)
  <2>1. IsFiniteSet(1 .. Len(text))
    BY <1>1, FS_Interval
  <2>2. A \subseteq 1 .. Len(text) /\ B \subseteq 1 .. Len(text)
    BY <1>1
  <2>3. QED
    BY <2>1, <2>2, FS_Subset
<1>3. Cardinality(A) \in Nat /\ Cardinality(B) \in Nat /\ (A # {} => Cardinality(A) # 0)
  <2> HIDE DEF A, B
  <2>1. QED
    BY <1>2, FS_CardinalityType, FS_EmptySet
<1>4. Length(text) = Len(text) + 5 * Cardinality(A) + 6 * Cardinality(B)
  BY DEF Length
<1>5. \A i \in 1 .. Len(text) : text[i] = "ACTION" => A # {}
  BY <1>1
<1> HIDE DEF A, B
<1>6. QED
  BY <1>1, <1>3, <1>4, <1>5

LEMMA UpperAction ==
  ASSUME NEW S, NEW word \in Seq(S)
  PROVE  ToUpper(word) = <<"ACTION">> <=> word \in {<<"ACTION">>, <<"action">>}
<1>1. PICK upper : upper = ToUpper(word)
  OBVIOUS
<1>2. /\ Len(word) \in Nat /\ DOMAIN word = 1 .. Len(word) /\ DOMAIN upper = 1 .. Len(word)
      /\ \A i \in 1 .. Len(word) :
           upper[i] = IF word[i] \in DOMAIN Upper THEN Upper[word[i]] ELSE word[i]
  BY <1>1, LenProperties DEF ToUpper
<1>3. DOMAIN Upper = {"action", "privmsg"} /\ Upper["action"] = "ACTION" /\ Upper["privmsg"] = "PRIVMSG"
  BY DEF Upper
<1>4. ASSUME upper = <<"ACTION">> PROVE word \in {<<"ACTION">>, <<"action">>}
  <2>1. 1 .. Len(word) = 1 .. 1 /\ upper[1] = "ACTION"
    <3>1. DOMAIN <<"ACTION">> = 1 .. 1 /\ <<"ACTION">>[1] = "ACTION"
      OBVIOUS
    <3>2. QED
      BY <1>2, <1>4, <3>1
  <2>2. Len(word) = 1
    BY <1>2, <2>1
  <2>3. word[1] \in {"ACTION", "action"}
    BY <1>2, <1>3, <2>1, <2>2
  <2>4. word = <<word[1]>>
    BY <2>2
  <2>5. QED
    BY <2>3, <2>4
<1>5. ASSUME word \in {<<"ACTION">>, <<"action">>} PROVE upper = <<"ACTION">>
  <2>1. Len(word) = 1 /\ word[1] \in {"ACTION", "action"}
    BY <1>5
  <2>2. upper = [i \in 1 .. 1 |-> "ACTION"]
    <3>1. upper = [i \in 1 .. Len(word) |-> IF word[i] \in DOMAIN Upper THEN Upper[word[i]] ELSE word[i]]
      BY <1>1, <1>2 DEF ToUpper
    <3>2. QED
      BY <1>3, <2>1, <3>1
  <2>3. QED
    BY <2>2
<1>6. QED
  BY <1>1, <1>4, <1>5

LEMMA SpecialSymbols ==
  /\ Space \in Symbols /\ Delimiter \in Symbols
  /\ {":", ";", "=", "@", "!", "\\", "\r", "\n", "NUL", "s", "r", "n", "0"} \subseteq Symbols
  BY CodecAssumption DEF CodecAssumption, Special

LEMMA ActionOrCTCP ==
  ASSUME NEW text \in Text, ~Misjudged(text)
  PROVE  /\ IsActionMessage(text) <=> Asks(text, {<<"ACTION">>})
         /\ IsValidCTCP(text) <=> /\ Delimited(text) /\ Fields(Content(text)) # <<>>
                                  /\ ~Asks(text, {<<"ACTION">>})
<1>1. SUFFICES ASSUME Delimited(text)
               PROVE  /\ IsActionMessage(text) <=> Asks(text, {<<"ACTION">>})
                      /\ IsValidCTCP(text) <=> /\ Delimited(text) /\ Fields(Content(text)) # <<>>
                                               /\ ~Asks(text, {<<"ACTION">>})
  BY DEF IsActionMessage, IsValidCTCP, Asks
<1>2. PICK content, words, first :
        content = Content(text) /\ words = Fields(content) /\ first = Head(Split(content, Space))
  OBVIOUS
<1>3. /\ content \in Text /\ Len(text) \in Nat \ {0} /\ (content # Empty => Len(text) >= 3)
      /\ Len(text) # 1 => /\ Len(content) = Len(text) - 2
                          /\ \A i \in 1 .. Len(text) - 2 : content[i] = text[i + 1]
  BY <1>1, <1>2, ContentFacts DEF Text
<1>4. Length(text) \in Nat /\ Length(text) >= Len(text)
  BY LengthFacts DEF Text
\* The first word is the first part, if that is not empty.
<1>5. /\ first \in Text /\ words \in Seq(Text)
      /\ ~StartsWith(content, Space) /\ content # Empty =>
           first # Empty /\ first[1] = content[1] /\ words # <<>> /\ Head(words) = first
      /\ StartsWith(content, Space) => first = Empty
      /\ content = Empty => words = <<>>
  <2>1. Space \in Symbols
    BY SpecialSymbols
  <2>2. /\ first \in Text
        /\ ~StartsWith(content, Space) /\ content # Empty => first # Empty /\ first[1] = content[1]
        /\ StartsWith(content, Space) => first = Empty
    BY <1>2, <1>3, <2>1, HeadOfSplit DEF Text
  <2>3. /\ words \in Seq(Text)
        /\ content = Empty => words = <<>>
        /\ content # Empty /\ ~StartsWith(content, Space) => words # <<>> /\ Head(words) = first
    BY <1>2, <1>3, <2>1, FieldsFacts DEF Text
  <2>4. QED
    BY <2>2, <2>3
<1>6. first \in {<<"ACTION">>} => content # Empty /\ ~StartsWith(content, Space)
  <2>1. content = Empty => first = Empty
    <3>1. Split(<<>>, Space) = <<Empty>>
      BY SplitFacts
    <3>2. QED
      BY <1>2, <3>1 DEF Empty
  <2>2. <<"ACTION">> # Empty
    BY DEF Empty
  <2>3. QED
    BY <1>5, <2>1, <2>2
<1>7. Asks(text, {<<"ACTION">>}) <=> first = <<"ACTION">>
  <2>1. first = <<"ACTION">> => Len(text) > 1
    BY <1>3, <1>6
  <2>2. QED
    BY <1>1, <1>2, <2>1 DEF Asks
<1>8. /\ words # <<>> => /\ text # <<Delimiter, "ACTION", Delimiter>>
                        /\ Head(words) # <<"action">>
                        /\ ~(Head(words) = <<"ACTION">> /\ StartsWith(content, Space))
                        /\ ~(Len(Head(words)) > 1 /\ StartsWith(content, "ACTION"))
  BY <1>1, <1>2 DEF Misjudged
<1>9. ASSUME first = <<"ACTION">> PROVE IsActionMessage(text)
  <2>1. content # Empty /\ ~StartsWith(content, Space) /\ words # <<>> /\ content[1] = "ACTION"
    BY <1>5, <1>6, <1>9
  <2>2. StartsWith(content, "ACTION")
    BY <2>1 DEF StartsWith
  <2>3. Len(text) >= 3 /\ text[2] = "ACTION"
    <3>1. Len(text) >= 3 /\ 1 \in 1 .. Len(text) - 2
      BY <1>3, <2>1
    <3>2. content[1] = text[1 + 1]
      BY <1>3, <3>1
    <3>3. QED
      BY <2>1, <3>1, <3>2
  <2>4. Len(text) # 3
    <3>1. ASSUME Len(text) = 3 PROVE FALSE
      <4>1. text[1] = Delimiter /\ text[3] = Delimiter
        BY <1>1, <3>1, ContentFacts DEF Text
      <4>2. text = <<text[1], text[2], text[3]>>
        BY <3>1 DEF Text
      <4>3. text = <<Delimiter, "ACTION", Delimiter>>
        BY <2>3, <4>1, <4>2
      <4>4. QED
        BY <1>8, <2>1, <4>3
    <3>2. QED
      BY <3>1
  <2>5. Length(text) >= Len(text) + 5
    <3>1. 2 \in 1 .. Len(text)
      BY <1>3, <2>3
    <3>2. QED
      BY <2>3, <3>1, LengthFacts DEF Text
  <2>6. Length(text) >= 9
    <3>1. PICK n, l : n = Len(text) /\ l = Length(text)
      OBVIOUS
    <3>2. n \in Nat /\ n >= 4
      BY <1>3, <2>3, <2>4, <3>1
    <3>3. l \in Nat /\ l >= n + 5
      BY <1>4, <2>5, <3>1
    <3>4. QED
      BY <3>1, <3>2, <3>3
  <2>7. QED
    BY <1>1, <1>2, <2>2, <2>6 DEF IsActionMessage
<1>10. ASSUME IsActionMessage(text) PROVE first = <<"ACTION">>
  <2>1. content # Empty /\ Head(content) = "ACTION" /\ Head(content) = content[1]
    BY <1>2, <1>10 DEF IsActionMessage, StartsWith
  <2>2. ~StartsWith(content, Space)
    BY <2>1 DEF StartsWith, Space
  <2>3. first # Empty /\ first[1] = "ACTION" /\ words # <<>> /\ Head(words) = first
    BY <1>5, <2>1, <2>2
  <2>4. ~(Len(first) > 1)
    BY <1>8, <2>1, <2>3 DEF StartsWith
  <2>5. Len(first) = 1
    <3>1. Len(first) \in Nat \ {0}
      BY <1>5, <2>3, EmptySeq DEF Empty, Text
    <3>2. \A n \in Nat \ {0} : ~(n > 1) => n = 1
      OBVIOUS
    <3>3. QED
      BY <2>4, <3>1, <3>2
  <2>6. first = <<first[1]>>
    BY <1>5, <2>5 DEF Text
  <2>7. QED
    BY <2>3, <2>6
<1>11. words # <<>> => Length(text) >= 2
  BY <1>3, <1>4, <1>5
<1>12. ASSUME words # <<>>
       PROVE  ToUpper(Head(words)) = <<"ACTION">> <=> first = <<"ACTION">>
  <2>1. Head(words) \in Text
    BY <1>5, <1>12, HeadTailProperties
  <2>2. ToUpper(Head(words)) = <<"ACTION">> <=> Head(words) \in {<<"ACTION">>, <<"action">>}
    BY <2>1, UpperAction DEF Text
  <2>3. Head(words) # <<"action">>
    BY <1>8, <1>12
  <2>4. ASSUME Head(words) = <<"ACTION">> PROVE first = <<"ACTION">>
    <3>1. ~StartsWith(content, Space) /\ content # Empty
      BY <1>5, <1>8, <1>12, <2>4
    <3>2. QED
      BY <1>5, <2>4, <3>1
  <2>5. ASSUME first = <<"ACTION">> PROVE Head(words) = <<"ACTION">>
    BY <1>5, <1>6, <2>5
  <2>6. QED
    BY <2>2, <2>3, <2>4, <2>5
<1>13. IsValidCTCP(text) <=> words # <<>> /\ first # <<"ACTION">>
  BY <1>1, <1>2, <1>11, <1>12 DEF IsValidCTCP
<1>14. QED
  BY <1>1, <1>2, <1>7, <1>9, <1>10, <1>13

\* What a message says, read back.
LEMMA SendableFacts ==
  ASSUME NEW m \in Messages
  PROVE  /\ m = [tags |-> m.tags, source |-> m.source, command |-> m.command, params |-> m.params]
         /\ m.source \in Seq(Symbols \ {"\r", "\n"})
         /\ m.params \in Seq(Seq(Symbols \ {"\r", "\n"}))
         /\ \E word \in Symbols \ (Blanks \cup {":", "@"}) : m.command = <<word>>
         /\ m.tags \in [DOMAIN m.tags -> Text] /\ IsFiniteSet(DOMAIN m.tags)
         /\ DOMAIN m.tags \subseteq Seq(Symbols \ (Blanks \cup {";", "="})) \ {Empty}
<1>1. Sendable(m)
  BY CodecAssumption DEF CodecAssumption
<1>2. QED
  BY <1>1 DEF Sendable, Text

\* A text of few symbols is a text.
LEMMA TextFacts ==
  ASSUME NEW X
  PROVE  /\ Seq(Symbols \ X) \subseteq Text
         /\ Seq(Seq(Symbols \ X)) \subseteq Seq(Text)
<1>1. Symbols \ X \subseteq Symbols
  OBVIOUS
<1>2. Seq(Symbols \ X) \subseteq Text
  BY <1>1, SeqMonotonic DEF Text
<1>3. QED
  BY <1>2, SeqMonotonic

\* A message read that is the one sent, but for its tags.
LEMMA SameButTags ==
  ASSUME NEW m \in Messages, NEW g, [g EXCEPT !.tags = m.tags] = m
  PROVE  g.source = m.source /\ g.command = m.command /\ g.params = m.params
<1>1. DOMAIN m = {"tags", "source", "command", "params"}
  BY SendableFacts
<1>2. QED
  BY <1>1

LEMMA EventTypes ==
  ASSUME NEW m, NEW word, m.command = <<word>>, word \in {"PRIVMSG", "NOTICE"}
  PROVE  DetermineEventType(m) =
           IF word = "NOTICE" THEN <<"notice">>
           ELSE IF Len(m.params) >= 2 /\ IsActionMessage(GetTrailing(m))
                THEN <<"action">> ELSE <<"privmsg">>
<1>1. Len(m.command) = 1 /\ Head(m.command) = word
  OBVIOUS
<1>2. /\ DOMAIN Named = {"PING", "PONG", "ERROR", "NICK", "JOIN", "PART", "QUIT", "KICK", "MODE",
                         "TOPIC", "NOTICE", "INVITE", "AUTHENTICATE"}
      /\ Named["NOTICE"] = "notice"
  BY DEF Named
<1>3. DOMAIN Replies = {"001", "353", "903", "904", "311", "352", "322", "433"}
  BY DEF Replies
<1>4. CASE word = "NOTICE"
  <2>1. /\ word \in DOMAIN Named /\ Named[word] = "notice" /\ word \notin DOMAIN Replies
        /\ word # "PRIVMSG" /\ word # "CAP"
    BY <1>2, <1>3, <1>4
  <2>2. DetermineEventType(m) = <<Named[word]>>
    BY <1>1, <2>1 DEF DetermineEventType
  <2>3. QED
    BY <1>4, <2>1, <2>2
<1>5. CASE word = "PRIVMSG"
  <2>1. "PRIVMSG" \notin DOMAIN Named /\ "PRIVMSG" \notin DOMAIN Replies
    BY <1>2, <1>3
  <2>2. QED
    BY <1>1, <1>5, <2>1 DEF DetermineEventType
<1>6. QED
  BY <1>4, <1>5

LEMMA NickOf ==
  ASSUME NEW source \in Text
  PROVE  ExtractNick(source) = Head(Split(source, "!"))
<1>1. PICK bang, h : bang = "!" /\ h = Head(Split(source, bang))
  OBVIOUS
<1>2. bang \in Symbols /\ source \in Seq(Symbols)
  BY <1>1, SpecialSymbols DEF Text
<1>3. h = IF Index(source, bang) = 0 THEN source ELSE SubSeq(source, 1, Index(source, bang) - 1)
  BY <1>1, <1>2, HeadOfSplit
<1>4. QED
  BY <1>1, <1>3 DEF ExtractNick

\* Of one event.
Faithful(e, cmd, m) ==
  LET text == GetTrailing(m)
      ctcp == Delimited(text) /\ Fields(Content(text)) # <<>>
  IN  /\ e.nick = Head(Split(m.source, "!"))
      /\ cmd \in {"PRIVMSG", "NOTICE"} /\ Len(m.params) >= 2 =>
           /\ e.target = m.params[1] /\ e.text = text
           /\ ~Misjudged(text) =>
                /\ e.type = "action" <=> cmd = "PRIVMSG" /\ Asks(text, {<<"ACTION">>})
                /\ e.ctcp <=> ctcp /\ ~Asks(text, {<<"ACTION">>})

LEMMA EventsFaithful ==
  ASSUME NEW m \in Messages, NEW g, [g EXCEPT !.tags = m.tags] = m,
         NEW k \in DOMAIN CreateEvents(g)
  PROVE  Faithful(CreateEvents(g)[k], Head(m.command), m)
<1>1. g.source = m.source /\ g.command = m.command /\ g.params = m.params
  BY SameButTags
<1>2. PICK e, types, text : /\ e = CreateEvents(g)[k] /\ types = DetermineEventType(g)
                            /\ text = GetTrailing(m)
  OBVIOUS
<1>3. /\ k \in DOMAIN types /\ e.type = types[k] /\ e.nick = ExtractNick(m.source)
      /\ e.target = Param(m, 1) /\ e.text = text /\ e.ctcp = IsValidCTCP(text)
  BY <1>1, <1>2 DEF CreateEvents, Param, GetTrailing
<1>4. m.source \in Text /\ m.params \in Seq(Text) /\ \E word \in Symbols : m.command = <<word>>
  BY SendableFacts, TextFacts
<1>5. e.nick = Head(Split(m.source, "!"))
  BY <1>3, <1>4, NickOf
<1>6. ASSUME Head(m.command) \in {"PRIVMSG", "NOTICE"}, Len(m.params) >= 2
      PROVE  /\ e.target = m.params[1] /\ e.text = text
             /\ ~Misjudged(text) =>
                  /\ e.type = "action" <=> Head(m.command) = "PRIVMSG" /\ Asks(text, {<<"ACTION">>})
                  /\ e.ctcp <=> /\ Delimited(text) /\ Fields(Content(text)) # <<>>
                                /\ ~Asks(text, {<<"ACTION">>})
  <2>1. PICK word : m.command = <<word>>
    BY <1>4
  <2>2. word = Head(m.command) /\ word \in {"PRIVMSG", "NOTICE"}
    BY <1>6, <2>1
  <2>3. Len(m.params) \in Nat /\ 1 \in DOMAIN m.params
    BY <1>4, <1>6, LenProperties
  <2>4. e.target = m.params[1]
    BY <1>3, <2>3 DEF Param
  <2>5. text \in Text
    <3>1. m.params # <<>>
      BY <1>6, <2>3
    <3>2. QED
      BY <1>2, <1>4, <3>1, FrontLast DEF GetTrailing
  <2>6. types = IF word = "NOTICE" THEN <<"notice">>
                ELSE IF Len(m.params) >= 2 /\ IsActionMessage(text)
                     THEN <<"action">> ELSE <<"privmsg">>
    <3>1. GetTrailing(g) = text
      BY <1>1, <1>2 DEF GetTrailing
    <3>2. QED
      BY <1>1, <1>2, <2>1, <2>2, <3>1, EventTypes
  <2>7. e.type = "action" <=> word = "PRIVMSG" /\ IsActionMessage(text)
    BY <1>3, <1>6, <2>2, <2>6
  <2>8. QED
    BY <1>3, <2>2, <2>4, <2>5, <2>7, ActionOrCTCP
<1>7. QED
  BY <1>2, <1>5, <1>6 DEF Faithful

(***************************************************************************)
(* Whatever is said, in a message of any shape: the events of a message    *)
(* that arrives as it was sent say who sent what to whom, and "/me" is an  *)
(* action, other CTCP is CTCP, nothing both, but for the texts Misjudged   *)
(* names (isActionMessage and isValidCTCP, parser/events.go).              *)
(***************************************************************************)
THEOREM EventsAreFaithful == Spec => []EventFaithful
<1>1. CodecInv => EventFaithful
  <2>1. SUFFICES ASSUME CodecInv, stage = "emitted", [got EXCEPT !.tags = msg.tags] = msg,
                        NEW k \in DOMAIN events
                 PROVE  Faithful(events[k], Head(msg.command), msg)
    BY DEF EventFaithful, Faithful
  <2>2. msg \in Messages /\ events = CreateEvents(got)
    BY <2>1 DEF CodecInv, FormattedInv, EmittedInv, Arrived
  <2>3. QED
    BY <2>1, <2>2, EventsFaithful
<1>2. QED
  BY <1>1, CodecInvariant, PTL
-----------------------------------------------------------------------------
(* Replacing.                                                              *)

\* One symbol before a text.
Pre(c, text) == <<c>> \o text

LEMMA PreFacts ==
  ASSUME NEW S
  PROVE  /\ \A c \in S, s \in Seq(S) :
              /\ Pre(c, s) \in Seq(S) /\ Pre(c, s) # Empty
              /\ Head(Pre(c, s)) = c /\ Tail(Pre(c, s)) = s /\ Len(Pre(c, s)) = Len(s) + 1
         /\ \A c \in S, s \in Seq(S), t \in Seq(S) : Cat(Pre(c, s), t) = Pre(c, Cat(s, t))
         /\ \A c \in S : Pre(c, Empty) = <<c>>
         /\ \A s \in Seq(S) : s # Empty => Head(s) \in S /\ Tail(s) \in Seq(S) /\ s = Pre(Head(s), Tail(s))
<1>1. ASSUME NEW c \in S, NEW s \in Seq(S)
      PROVE  /\ Pre(c, s) \in Seq(S) /\ Pre(c, s) # Empty
             /\ Head(Pre(c, s)) = c /\ Tail(Pre(c, s)) = s /\ Len(Pre(c, s)) = Len(s) + 1
  BY PrependFacts DEF Pre, Empty
<1>2. ASSUME NEW c \in S, NEW s \in Seq(S), NEW t \in Seq(S)
      PROVE  Cat(Pre(c, s), t) = Pre(c, Cat(s, t))
  <2>1. PICK one : one = <<c>>
    OBVIOUS
  <2>2. one \in Seq(S)
    BY <2>1
  <2>3. Cat(Cat(one, s), t) = Cat(one, Cat(s, t))
    BY <2>2, CatFacts
  <2>4. QED
    BY <2>1, <2>3 DEF Pre, Cat
<1>3. ASSUME NEW c \in S PROVE Pre(c, Empty) = <<c>>
  <2>1. <<c>> \in Seq(S)
    OBVIOUS
  <2>2. QED
    BY <2>1, ConcatEmptySeq DEF Pre, Empty
<1>4. ASSUME NEW s \in Seq(S), s # Empty
      PROVE  Head(s) \in S /\ Tail(s) \in Seq(S) /\ s = Pre(Head(s), Tail(s))
  BY <1>4, HeadAndTail DEF Pre, Empty
<1>5. QED
  BY <1>1, <1>2, <1>3, <1>4

LEMMA PreInduction ==
  ASSUME NEW S, NEW T, Empty \in T, \A s \in Seq(S), x \in S : s \in T => Pre(x, s) \in T
  PROVE  Seq(S) \subseteq T
  BY PrependInduction DEF Pre, Empty

\* Whether old is at place i, and what the text from there on becomes.
Found(text, old, i) ==
  i + Len(old) - 1 <= Len(text) /\ SubSeq(text, i, i + Len(old) - 1) = old

ReplacesAt(text, old, new, f, i) ==
  IF i = Len(text) + 1 THEN Empty
  ELSE IF Found(text, old, i) THEN new \o f[i + Len(old)] ELSE <<text[i]>> \o f[i + 1]

ReplacesFrom(f, text, old, new) ==
  f = [i \in 1 .. Len(text) + 1 |-> ReplacesAt(text, old, new, f, i)]

StandsAt(text, old, i) == /\ i + Len(old) - 1 <= Len(text)
                          /\ \A j \in 1 .. Len(old) : text[i + j - 1] = old[j]

LEMMA FoundIs ==
  ASSUME NEW S, NEW text \in Seq(S), NEW old \in Seq(S), NEW i \in 1 .. Len(text)
  PROVE  Found(text, old, i) <=> StandsAt(text, old, i)
<1>1. PICK n, k : n = Len(old) /\ k = i + n - 1
  OBVIOUS
<1>2. n \in Nat /\ Len(text) \in Nat /\ i \in Nat /\ i >= 1 /\ k \in Int /\ k - i + 1 = n
  <2>1. n \in Nat /\ Len(text) \in Nat
    BY <1>1, LenProperties
  <2>2. QED
    BY <1>1, <2>1
<1>3. ASSUME k <= Len(text)
      PROVE  SubSeq(text, i, k) = old <=> \A j \in 1 .. n : text[i + j - 1] = old[j]
  <2>1. \A j \in i .. k : text[j] \in S
    <3>1. \A j \in i .. k : j \in 1 .. Len(text)
      BY <1>2, <1>3
    <3>2. QED
      BY <3>1, ElementOfSeq
  <2>2. PICK sub : sub = SubSeq(text, i, k)
    OBVIOUS
  <2>3. /\ sub \in Seq(S) /\ Len(sub) = IF i <= k THEN k - i + 1 ELSE 0
        /\ \A j \in 1 .. k - i + 1 : sub[j] = text[i + j - 1]
    BY <1>2, <2>1, <2>2, SubSeqProperties
  <2>4. Len(sub) = n
    BY <1>2, <2>3
  <2>5. \A j \in 1 .. n : sub[j] = text[i + j - 1]
    BY <1>2, <2>3
  <2>6. sub = old <=> \A j \in 1 .. n : sub[j] = old[j]
    BY <1>1, <2>3, <2>4, SeqEqual
  <2>7. QED
    BY <2>2, <2>5, <2>6
<1>4. QED
  BY <1>1, <1>3 DEF Found, StandsAt

LEMMA FoundInTail ==
  ASSUME NEW S, NEW t \in Seq(S), NEW c \in S, NEW u, u = Pre(c, t), NEW old \in Seq(S),
         NEW i \in 1 .. Len(t), NEW next, next = i + 1
  PROVE  Found(u, old, next) <=> Found(t, old, i)
<1>1. PICK n : n = Len(old)
  OBVIOUS
<1>2. /\ u \in Seq(S) /\ Len(u) = Len(t) + 1 /\ Len(t) \in Nat /\ n \in Nat /\ i \in Nat /\ i >= 1
      /\ \A j \in 1 .. Len(t) : u[j + 1] = t[j]
  BY <1>1, PrependFacts, LenProperties DEF Pre
<1>3. i + 1 \in 1 .. Len(u)
  BY <1>2
<1>4. /\ Found(u, old, next) <=> /\ (i + 1) + n - 1 <= Len(u)
                                 /\ \A j \in 1 .. n : u[(i + 1) + j - 1] = old[j]
      /\ Found(t, old, i) <=> i + n - 1 <= Len(t) /\ \A j \in 1 .. n : t[i + j - 1] = old[j]
  <2>1. next \in 1 .. Len(u)
    BY <1>3
  <2>2. Found(u, old, next) <=> StandsAt(u, old, next)
    BY <1>2, <2>1, FoundIs
  <2>3. Found(t, old, i) <=> StandsAt(t, old, i)
    BY FoundIs
  <2>4. QED
    BY <1>1, <2>2, <2>3 DEF StandsAt
<1>5. (i + 1) + n - 1 <= Len(u) <=> i + n - 1 <= Len(t)
  BY <1>2
<1>6. ASSUME i + n - 1 <= Len(t), NEW j \in 1 .. n PROVE u[(i + 1) + j - 1] = t[i + j - 1]
  <2>1. i + j - 1 \in 1 .. Len(t) /\ (i + j - 1) + 1 = (i + 1) + j - 1
    BY <1>2, <1>6
  <2>2. QED
    BY <1>2, <2>1
<1>7. QED
  BY <1>4, <1>5, <1>6

\* What the text becomes from each place on, with one symbol before it.
ReplacesBefore(g, f, t, u, old, new) ==
  /\ ReplacesFrom(g, u, old, new)
  /\ g[1] = IF Found(u, old, 1) THEN new \o f[Len(old)] ELSE <<u[1]>> \o f[1]
  /\ \A i \in 1 .. Len(t) + 1 : g[i + 1] = f[i]

LEMMA ReplacesFromPre ==
  ASSUME NEW S, NEW t \in Seq(S), NEW c \in S, NEW u, u = Pre(c, t), NEW old \in Seq(S), old # Empty,
         NEW new, NEW f, ReplacesFrom(f, t, old, new)
  PROVE  \E g : ReplacesBefore(g, f, t, u, old, new)
<1>1. PICK n, l : n = Len(old) /\ l = Len(t)
  OBVIOUS
<1>2. /\ u \in Seq(S) /\ Len(u) = l + 1 /\ l \in Nat /\ n \in Nat /\ n >= 1
      /\ u[1] = c /\ \A j \in 1 .. l : u[j + 1] = t[j]
  <2>1. n \in Nat \ {0}
    BY <1>1, EmptySeq DEF Empty
  <2>2. QED
    BY <1>1, <2>1, PrependFacts, LenProperties DEF Pre
<1> DEFINE g == [i \in 1 .. l + 2 |->
                   IF i = 1 THEN IF Found(u, old, 1) THEN new \o f[n] ELSE <<c>> \o f[1]
                   ELSE f[i - 1]]
<1>3. /\ g = [i \in 1 .. l + 2 |-> g[i]]
      /\ g[1] = IF Found(u, old, 1) THEN new \o f[n] ELSE <<c>> \o f[1]
      /\ \A i \in 2 .. l + 2 : g[i] = f[i - 1]
  BY <1>2
<1> HIDE DEF g
<1>4. g[1] = ReplacesAt(u, old, new, g, 1)
  <2>1. 1 # Len(u) + 1 /\ g[2] = f[1]
    <3>1. 2 \in 2 .. l + 2 /\ 2 - 1 = 1 /\ l + 1 + 1 # 1
      BY <1>2
    <3>2. QED
      BY <1>2, <1>3, <3>1
  <2>2. Found(u, old, 1) => g[1 + n] = f[n]
    <3>1. Found(u, old, 1) => 1 + n - 1 <= l + 1
      BY <1>1, <1>2 DEF Found
    <3>2. Found(u, old, 1) => 1 + n \in 2 .. l + 2 /\ (1 + n) - 1 = n
      BY <1>2, <3>1
    <3>3. QED
      BY <1>3, <3>2
  <2>3. 1 + 1 = 2 /\ u[1] = c
    BY <1>2
  <2>4. QED
    BY <1>1, <1>3, <2>1, <2>2, <2>3 DEF ReplacesAt
<1>5. ASSUME NEW i \in 1 .. l + 1 PROVE g[i + 1] = ReplacesAt(u, old, new, g, i + 1)
  <2>1. g[i + 1] = f[i]
    <3>1. l \in Nat
      BY <1>2
    <3>2. i + 1 \in 2 .. l + 2 /\ (i + 1) - 1 = i
      BY <3>1
    <3>3. QED
      BY <1>3, <3>2
  <2>2. f[i] = ReplacesAt(t, old, new, f, i)
    BY <1>1 DEF ReplacesFrom
  <2>3. CASE i = l + 1
    BY <1>1, <1>2, <2>1, <2>2, <2>3 DEF ReplacesAt
  <2>4. CASE i # l + 1
    <3>1. i \in 1 .. l /\ i \in Nat
      BY <1>2, <2>4
    <3>2. Found(u, old, i + 1) <=> Found(t, old, i)
      <4>1. i \in 1 .. Len(t) /\ u = Pre(c, t)
        BY <1>1, <3>1
      <4>2. QED
        BY <4>1, FoundInTail
    <3>3. g[(i + 1) + 1] = f[i + 1] /\ u[i + 1] = t[i]
      <4>1. PICK k : k = (i + 1) + 1
        OBVIOUS
      <4>2. k \in 2 .. l + 2 /\ k - 1 = i + 1
        BY <1>2, <3>1, <4>1
      <4>3. g[k] = f[i + 1]
        BY <1>3, <4>2
      <4>4. u[i + 1] = t[i]
        BY <1>2, <3>1
      <4>5. QED
        BY <4>1, <4>3, <4>4
    <3>4. Found(t, old, i) => g[(i + 1) + n] = f[i + n]
      <4>1. Found(t, old, i) => i + n - 1 <= l
        BY <1>1 DEF Found
      <4>2. Found(t, old, i) => (i + 1) + n \in 2 .. l + 2 /\ ((i + 1) + n) - 1 = i + n
        BY <1>2, <3>1, <4>1
      <4>3. QED
        BY <1>3, <4>2
    <3>5. i # Len(t) + 1 /\ i + 1 # Len(u) + 1
      BY <1>1, <1>2, <2>4, <3>1
    <3>6. QED
      BY <1>1, <2>1, <2>2, <3>2, <3>3, <3>4, <3>5 DEF ReplacesAt
  <2>5. QED
    BY <2>3, <2>4
<1>6. \A i \in 1 .. Len(u) + 1 : g[i] = ReplacesAt(u, old, new, g, i)
  <2>1. ASSUME NEW i \in 1 .. Len(u) + 1, i # 1 PROVE g[i] = ReplacesAt(u, old, new, g, i)
    <3>1. i - 1 \in 1 .. l + 1 /\ (i - 1) + 1 = i
      BY <1>2, <2>1
    <3>2. QED
      BY <1>5, <3>1
  <2>2. QED
    BY <1>4, <2>1
<1>7. ReplacesFrom(g, u, old, new)
  <2>1. Len(u) + 1 = l + 2
    BY <1>2
  <2>2. QED
    BY <1>3, <1>6, <2>1 DEF ReplacesFrom
<1>8. \A i \in 1 .. l + 1 : g[i + 1] = f[i]
  <2>1. ASSUME NEW i \in 1 .. l + 1 PROVE g[i + 1] = f[i]
    <3>1. l \in Nat
      BY <1>2
    <3>2. i + 1 \in 2 .. l + 2 /\ (i + 1) - 1 = i
      BY <3>1
    <3>3. QED
      BY <1>3, <3>2
  <2>2. QED
    BY <2>1
<1>9. QED
  BY <1>1, <1>2, <1>3, <1>7, <1>8 DEF ReplacesBefore

LEMMA ReplacesFromExists ==
  ASSUME NEW S, NEW text \in Seq(S), NEW old \in Seq(S), old # Empty, NEW new
  PROVE  \E f : ReplacesFrom(f, text, old, new)
<1> DEFINE T == {t \in Seq(S) : \E f : ReplacesFrom(f, t, old, new)}
<1>1. Empty \in T
  <2> DEFINE f == [i \in 1 .. 1 |-> Empty]
  <2>1. Empty \in Seq(S) /\ Len(Empty) = 0
    BY EmptySeq DEF Empty
  <2>2. ReplacesFrom(f, Empty, old, new)
    BY <2>1 DEF ReplacesFrom, ReplacesAt
  <2> HIDE DEF f
  <2>3. QED
    BY <2>1, <2>2
<1>2. ASSUME NEW t \in Seq(S), NEW c \in S, t \in T PROVE Pre(c, t) \in T
  <2>1. PICK f : ReplacesFrom(f, t, old, new)
    BY <1>2
  <2>2. PICK u : u = Pre(c, t)
    OBVIOUS
  <2>3. u \in Seq(S) /\ \E g : ReplacesFrom(g, u, old, new)
    BY <2>1, <2>2, PreFacts, ReplacesFromPre DEF ReplacesBefore
  <2>4. QED
    BY <2>2, <2>3
<1>3. text \in T
  <2> HIDE DEF T
  <2>1. QED
    BY <1>1, <1>2, PreInduction
<1>4. QED
  BY <1>3

BeginsWith(f, text, old, new) == Replaced(text, old, new) = f[1]

LEMMA ReplacedIs ==
  ASSUME NEW S, NEW text \in Seq(S), NEW old \in Seq(S), old # Empty, NEW new,
         NEW f, ReplacesFrom(f, text, old, new)
  PROVE  BeginsWith(f, text, old, new)
<1> DEFINE g == CHOOSE h : ReplacesFrom(h, text, old, new)
<1>1. Replaced(text, old, new) = g[1]
  BY DEF Replaced, ReplacesFrom, ReplacesAt, Found
<1>2. ReplacesFrom(g, text, old, new)
  OBVIOUS
<1> HIDE DEF g
<1>3. PICK l, n : l = Len(text) /\ n = Len(old)
  OBVIOUS
<1>4. l \in Nat /\ n \in Nat /\ n >= 1
  <2>1. n \in Nat \ {0}
    BY <1>3, EmptySeq DEF Empty
  <2>2. QED
    BY <1>3, <2>1, LenProperties
<1> DEFINE U == {k \in Nat : \A i \in 1 .. l + 1 : i >= l + 1 - k => f[i] = g[i]}
<1>5. 0 \in U
  <2>1. f[l + 1] = ReplacesAt(text, old, new, f, l + 1) /\ g[l + 1] = ReplacesAt(text, old, new, g, l + 1)
    <3>1. PICK k : k = l + 1
      OBVIOUS
    <3>2. k \in 1 .. Len(text) + 1
      BY <1>3, <1>4, <3>1
    <3>3. f[k] = ReplacesAt(text, old, new, f, k) /\ g[k] = ReplacesAt(text, old, new, g, k)
      BY <1>2, <3>2 DEF ReplacesFrom
    <3>4. QED
      BY <3>1, <3>3
  <2>2. f[l + 1] = g[l + 1]
    BY <1>3, <2>1 DEF ReplacesAt
  <2>3. \A i \in 1 .. l + 1 : i >= l + 1 - 0 => i = l + 1
    BY <1>4
  <2>4. QED
    BY <2>2, <2>3
<1>6. ASSUME NEW k \in Nat, k \in U PROVE k + 1 \in U
  <2>1. SUFFICES ASSUME NEW i \in 1 .. l + 1, i >= l + 1 - (k + 1) PROVE f[i] = g[i]
    BY <1>6
  <2>2. CASE i >= l + 1 - k
    BY <1>6, <2>2
  <2>3. CASE ~(i >= l + 1 - k)
    <3>1. i \in 1 .. l /\ i \in Nat
      BY <1>4, <2>3
    <3>2. f[i] = ReplacesAt(text, old, new, f, i) /\ g[i] = ReplacesAt(text, old, new, g, i)
      BY <1>2, <1>3, <2>1 DEF ReplacesFrom
    <3>3. f[i + 1] = g[i + 1]
      <4>1. i + 1 \in 1 .. l + 1 /\ i + 1 >= l + 1 - k
        BY <1>4, <2>1, <3>1
      <4>2. QED
        BY <1>6, <4>1
    <3>4. Found(text, old, i) => f[i + n] = g[i + n]
      <4>1. ASSUME Found(text, old, i) PROVE i + n \in 1 .. l + 1 /\ i + n >= l + 1 - k
        <5>1. i + n - 1 <= l
          BY <1>3, <4>1 DEF Found
        <5>2. QED
          BY <1>4, <2>1, <3>1, <5>1
      <4>2. QED
        BY <1>6, <4>1
    <3>5. i # l + 1
      BY <1>4, <3>1
    <3>6. QED
      BY <1>3, <3>2, <3>3, <3>4, <3>5 DEF ReplacesAt
  <2>4. QED
    BY <2>2, <2>3
<1>7. l \in U
  <2> HIDE DEF U
  <2>1. Nat \subseteq U
    BY <1>5, <1>6, SetInduction
  <2>2. QED
    BY <1>4, <2>1
<1>8. f[1] = g[1]
  <2>1. 1 \in 1 .. l + 1 /\ 1 >= l + 1 - l
    BY <1>4
  <2>2. QED
    BY <1>7, <2>1
<1>9. QED
  BY <1>1, <1>8 DEF BeginsWith

LEMMA ReplacedEmpty ==
  ASSUME NEW S, NEW old \in Seq(S), old # Empty, NEW new
  PROVE  Replaced(Empty, old, new) = Empty
<1>1. Empty \in Seq(S) /\ Len(Empty) = 0
  BY EmptySeq DEF Empty
<1>2. PICK f : ReplacesFrom(f, Empty, old, new)
  BY <1>1, ReplacesFromExists
<1>3. f[1] = ReplacesAt(Empty, old, new, f, 1)
  BY <1>1, <1>2 DEF ReplacesFrom
<1>4. f[1] = Empty
  BY <1>1, <1>3 DEF ReplacesAt
<1>5. BeginsWith(f, Empty, old, new)
  BY <1>1, <1>2, ReplacedIs
<1>6. QED
  BY <1>4, <1>5 DEF BeginsWith

LEMMA ReplacedOne ==
  ASSUME NEW S, NEW x \in S, NEW new, NEW t \in Seq(S), NEW c \in S
  PROVE  Replaced(Pre(c, t), <<x>>, new) =
           IF c = x THEN Cat(new, Replaced(t, <<x>>, new)) ELSE Pre(c, Replaced(t, <<x>>, new))
<1>1. PICK old, u : old = <<x>> /\ u = Pre(c, t)
  OBVIOUS
<1>2. old \in Seq(S) /\ old # Empty /\ Len(old) = 1 /\ old[1] = x
  BY <1>1 DEF Empty
<1>3. u \in Seq(S) /\ u[1] = c /\ Len(u) \in Nat /\ Len(u) >= 1
  BY <1>1, PrependFacts, LenProperties DEF Pre
<1>4. PICK f : ReplacesFrom(f, t, old, new)
  BY <1>2, ReplacesFromExists
<1>5. PICK g : ReplacesBefore(g, f, t, u, old, new)
  BY <1>1, <1>2, <1>4, ReplacesFromPre
<1>6. Replaced(t, old, new) = f[1]
  <2>1. BeginsWith(f, t, old, new)
    BY <1>2, <1>4, ReplacedIs
  <2>2. QED
    BY <2>1 DEF BeginsWith
<1>7. Replaced(u, old, new) = g[1]
  <2>1. ReplacesFrom(g, u, old, new)
    BY <1>5 DEF ReplacesBefore
  <2>2. BeginsWith(g, u, old, new)
    BY <1>2, <1>3, <2>1, ReplacedIs
  <2>3. QED
    BY <2>2 DEF BeginsWith
<1>8. Found(u, old, 1) <=> c = x
  <2>1. PICK i : i = 1
    OBVIOUS
  <2>2. i \in 1 .. Len(u)
    BY <1>3, <2>1
  <2>3. Found(u, old, i) <=> StandsAt(u, old, i)
    BY <1>2, <1>3, <2>2, FoundIs
  <2>4. QED
    BY <1>2, <1>3, <2>1, <2>3 DEF StandsAt
<1>9. g[1] = IF Found(u, old, 1) THEN new \o f[Len(old)] ELSE <<u[1]>> \o f[1]
  BY <1>5 DEF ReplacesBefore
<1>10. QED
  BY <1>1, <1>2, <1>3, <1>6, <1>7, <1>8, <1>9 DEF Pre, Cat

ReplacesPair(x, y, old, new, c, S) ==
  /\ Replaced(Pre(c, Empty), old, new) = Pre(c, Empty)
  /\ \A d \in S, t \in Seq(S) :
       Replaced(Pre(c, Pre(d, t)), old, new) =
         IF c = x /\ d = y THEN Cat(new, Replaced(t, old, new))
         ELSE Pre(c, Replaced(Pre(d, t), old, new))

LEMMA ReplacedTwo ==
  ASSUME NEW S, NEW x \in S, NEW y \in S, NEW old, old = <<x, y>>, NEW new, NEW c \in S
  PROVE  ReplacesPair(x, y, old, new, c, S)
<1>1. old \in Seq(S) /\ old # Empty /\ Len(old) = 2 /\ old[1] = x /\ old[2] = y
  BY DEF Empty
<1>2. Replaced(Pre(c, Empty), old, new) = Pre(c, Empty)
  <2>1. PICK u : u = Pre(c, Empty)
    OBVIOUS
  <2>2. u = <<c>> /\ u \in Seq(S) /\ Len(u) = 1 /\ u[1] = c /\ Empty \in Seq(S) /\ Len(Empty) = 0
    <3>1. Empty \in Seq(S) /\ Len(Empty) = 0
      BY DEF Empty
    <3>2. u = <<c>>
      BY <2>1, PreFacts
    <3>3. QED
      BY <3>1, <3>2
  <2>3. PICK f : ReplacesFrom(f, Empty, old, new)
    BY <1>1, <2>2, ReplacesFromExists
  <2>4. PICK g : ReplacesBefore(g, f, Empty, u, old, new)
    BY <1>1, <2>1, <2>2, <2>3, ReplacesFromPre
  <2>5. Replaced(u, old, new) = g[1]
    <3>1. ReplacesFrom(g, u, old, new)
      BY <2>4 DEF ReplacesBefore
    <3>2. BeginsWith(g, u, old, new)
      BY <1>1, <2>2, <3>1, ReplacedIs
    <3>3. QED
      BY <3>2 DEF BeginsWith
  <2>6. Replaced(Empty, old, new) = Empty /\ Replaced(Empty, old, new) = f[1]
    <3>1. BeginsWith(f, Empty, old, new)
      BY <1>1, <2>2, <2>3, ReplacedIs
    <3>2. Replaced(Empty, old, new) = Empty
      BY <1>1, ReplacedEmpty
    <3>3. QED
      BY <3>1, <3>2 DEF BeginsWith
  <2>7. ~Found(u, old, 1)
    BY <1>1, <2>2 DEF Found
  <2>8. g[1] = <<c>> \o Empty
    BY <2>2, <2>4, <2>6, <2>7 DEF ReplacesBefore
  <2>9. QED
    BY <2>1, <2>5, <2>8 DEF Pre
<1>3. ASSUME NEW d \in S, NEW t \in Seq(S)
      PROVE  Replaced(Pre(c, Pre(d, t)), old, new) =
               IF c = x /\ d = y THEN Cat(new, Replaced(t, old, new))
               ELSE Pre(c, Replaced(Pre(d, t), old, new))
  <2>1. PICK u, v : u = Pre(d, t) /\ v = Pre(c, u)
    OBVIOUS
  <2>2. u \in Seq(S) /\ v \in Seq(S)
    BY <2>1, PreFacts
  <2>3. v[1] = c /\ v[2] = d /\ Len(v) \in Nat /\ Len(v) >= 2
    <3>1. u[1] = d /\ Len(u) = Len(t) + 1 /\ Len(t) \in Nat
      BY <2>1, PrependFacts, LenProperties DEF Pre
    <3>2. v[1] = c /\ Len(v) = Len(u) + 1 /\ \A i \in 1 .. Len(u) : v[i + 1] = u[i]
      BY <2>1, <2>2, PrependFacts DEF Pre
    <3>3. v[1 + 1] = u[1]
      BY <3>1, <3>2
    <3>4. QED
      BY <3>1, <3>2, <3>3
  <2>4. PICK f : ReplacesFrom(f, t, old, new)
    BY <1>1, ReplacesFromExists
  <2>5. PICK g : ReplacesBefore(g, f, t, u, old, new)
    BY <1>1, <2>1, <2>4, ReplacesFromPre
  <2>6. PICK h : ReplacesBefore(h, g, u, v, old, new)
    <3>1. ReplacesFrom(g, u, old, new)
      BY <2>5 DEF ReplacesBefore
    <3>2. QED
      BY <1>1, <2>1, <2>2, <3>1, ReplacesFromPre
  <2>7. Replaced(t, old, new) = f[1]
    <3>1. BeginsWith(f, t, old, new)
      BY <1>1, <2>4, ReplacedIs
    <3>2. QED
      BY <3>1 DEF BeginsWith
  <2>8. Replaced(u, old, new) = g[1]
    <3>1. ReplacesFrom(g, u, old, new)
      BY <2>5 DEF ReplacesBefore
    <3>2. BeginsWith(g, u, old, new)
      BY <1>1, <2>2, <3>1, ReplacedIs
    <3>3. QED
      BY <3>2 DEF BeginsWith
  <2>9. Replaced(v, old, new) = h[1]
    <3>1. ReplacesFrom(h, v, old, new)
      BY <2>6 DEF ReplacesBefore
    <3>2. BeginsWith(h, v, old, new)
      BY <1>1, <2>2, <3>1, ReplacedIs
    <3>3. QED
      BY <3>2 DEF BeginsWith
  <2>10. Found(v, old, 1) <=> c = x /\ d = y
    <3>1. PICK i : i = 1
      OBVIOUS
    <3>2. i \in 1 .. Len(v)
      BY <2>3, <3>1
    <3>3. Found(v, old, i) <=> StandsAt(v, old, i)
      BY <1>1, <2>2, <3>2, FoundIs
    <3>4. QED
      BY <1>1, <2>3, <3>1, <3>3 DEF StandsAt
  <2>11. h[1] = IF Found(v, old, 1) THEN new \o g[2] ELSE <<v[1]>> \o g[1]
    BY <1>1, <2>6 DEF ReplacesBefore
  <2>12. g[2] = f[1]
    <3>1. 1 \in 1 .. Len(t) + 1 /\ 1 + 1 = 2
      BY LenProperties
    <3>2. QED
      BY <2>5, <3>1 DEF ReplacesBefore
  <2>13. QED
    BY <2>1, <2>3, <2>7, <2>8, <2>9, <2>10, <2>11, <2>12 DEF Pre, Cat
<1>4. QED
  BY <1>2, <1>3 DEF ReplacesPair
-----------------------------------------------------------------------------
(* Escaping.                                                               *)

Escaped == {"\\", ";", Space, "\r", "\n", "NUL"}
Letter(c) == CASE c = "\\" -> "\\" [] c = ";" -> ":" [] c = Space -> "s"
               [] c = "\r" -> "r" [] c = "\n" -> "n" [] OTHER -> "0"

\* A text in which the symbols of D are escaped.
Code(D, c) == IF c \in D THEN <<"\\", Letter(c)>> ELSE <<c>>
Coded(D, v) == Join([i \in DOMAIN v |-> Code(D, v[i])], Empty)

LEMMA LetterFacts ==
  /\ Escaped \subseteq Symbols /\ \A c \in Escaped : Letter(c) \in Symbols
  /\ \A c \in Escaped : /\ Letter(c) = "\\" <=> c = "\\"
                        /\ c # "\\" => Letter(c) \notin Escaped
  /\ \A c \in Escaped, d \in Escaped : Letter(c) = Letter(d) => c = d
<1>1. /\ Letter("\\") = "\\" /\ Letter(";") = ":" /\ Letter(Space) = "s"
      /\ Letter("\r") = "r" /\ Letter("\n") = "n" /\ Letter("NUL") = "0"
  BY DEF Letter, Space
<1>2. Escaped \subseteq Symbols
  BY SpecialSymbols DEF Escaped
<1>3. ASSUME NEW c \in Escaped
      PROVE  c = "\\" \/ c = ";" \/ c = Space \/ c = "\r" \/ c = "\n" \/ c = "NUL"
  BY DEF Escaped
<1>4. ASSUME NEW c \in Escaped PROVE Letter(c) \in Symbols
  BY <1>1, <1>3, SpecialSymbols
<1>5. ASSUME NEW c \in Escaped, c # "\\" PROVE Letter(c) # "\\" /\ Letter(c) \notin Escaped
  BY <1>1, <1>3, <1>5 DEF Escaped, Space
<1>6. ASSUME NEW c \in Escaped, NEW d \in Escaped, Letter(c) = Letter(d) PROVE c = d
  <2>1. CASE c = "\\"
    BY <1>1, <1>3, <1>6, <2>1
  <2>2. CASE c = ";"
    BY <1>1, <1>3, <1>6, <2>2
  <2>3. CASE c = Space
    BY <1>1, <1>3, <1>6, <2>3
  <2>4. CASE c = "\r"
    BY <1>1, <1>3, <1>6, <2>4
  <2>5. CASE c = "\n"
    BY <1>1, <1>3, <1>6, <2>5
  <2>6. CASE c = "NUL"
    BY <1>1, <1>3, <1>6, <2>6
  <2>7. QED
    BY <1>3, <2>1, <2>2, <2>3, <2>4, <2>5, <2>6
<1>7. QED
  BY <1>1, <1>2, <1>4, <1>5, <1>6

LEMMA CodeType ==
  ASSUME NEW D, D \subseteq Escaped, NEW c \in Symbols
  PROVE  /\ Code(D, c) \in Text /\ Code(D, c) # Empty
         /\ \A t \in Text : Cat(Code(D, c), t) = IF c \in D THEN Pre("\\", Pre(Letter(c), t)) ELSE Pre(c, t)
<1>1. CASE c \in D
  <2>1. PICK a, b : a = "\\" /\ b = Letter(c)
    OBVIOUS
  <2>2. a \in Symbols /\ b \in Symbols
    BY <1>1, <2>1, LetterFacts, SpecialSymbols, D \subseteq Escaped
  <2>3. Code(D, c) = <<a, b>> /\ <<a, b>> \in Text
    BY <1>1, <2>1, <2>2 DEF Code, Text
  <2>4. ASSUME NEW t \in Text PROVE <<a, b>> \o t = <<a>> \o (<<b>> \o t)
    <3>1. PICK one, two : one = <<a>> /\ two = <<b>>
      OBVIOUS
    <3>2. one \in Text /\ two \in Text /\ t \in Text
      BY <2>2, <3>1 DEF Text
    <3>3. Cat(Cat(one, two), t) = Cat(one, Cat(two, t))
      BY <3>2, CatFacts DEF Text
    <3>4. one \o two = <<a, b>>
      <4>1. <<a>> \o <<b>> = <<a, b>>
        BY PairConcat
      <4>2. QED
        BY <3>1, <4>1
    <3>5. QED
      BY <3>1, <3>3, <3>4 DEF Cat
  <2>5. QED
    BY <1>1, <2>1, <2>3, <2>4 DEF Cat, Pre, Empty
<1>2. CASE c \notin D
  BY <1>2 DEF Code, Text, Cat, Pre, Empty
<1>3. QED
  BY <1>1, <1>2

LEMMA CodedFacts ==
  ASSUME NEW D, D \subseteq Escaped
  PROVE  /\ Coded(D, Empty) = Empty
         /\ \A v \in Text : Coded(D, v) \in Text
         /\ \A v \in Text, c \in Symbols : Coded(D, Pre(c, v)) = Cat(Code(D, c), Coded(D, v))
<1> DEFINE codes(v) == [i \in DOMAIN v |-> Code(D, v[i])]
<1>1. Empty \in Text /\ Empty = <<>>
  BY DEF Text, Empty
<1>2. ASSUME NEW v \in Text PROVE codes(v) \in Seq(Text) /\ Len(codes(v)) = Len(v) /\ DOMAIN codes(v) = 1 .. Len(v)
  <2>1. Len(v) \in Nat /\ DOMAIN v = 1 .. Len(v) /\ \A i \in 1 .. Len(v) : v[i] \in Symbols
    BY <1>2 DEF Text
  <2>2. \A i \in 1 .. Len(v) : Code(D, v[i]) \in Text
    BY <2>1, CodeType
  <2>3. QED
    BY <2>1, <2>2
<1>3. Coded(D, Empty) = Empty
  <2>1. codes(Empty) = <<>>
    BY <1>1
  <2>2. Join(<<>>, Empty) = Empty
    BY <1>1, JoinFacts DEF Text
  <2>3. QED
    BY <2>1, <2>2 DEF Coded
<1>4. ASSUME NEW v \in Text PROVE Coded(D, v) \in Text
  <2>1. Coded(D, v) = Join(codes(v), Empty)
    BY DEF Coded
  <2>2. PICK p : p = codes(v)
    OBVIOUS
  <2>3. p \in Seq(Text)
    BY <1>2, <1>4, <2>2
  <2>4. Join(p, Empty) \in Text
    BY <1>1, <2>3, JoinFacts DEF Text
  <2>5. QED
    BY <2>1, <2>2, <2>4
<1>5. ASSUME NEW v \in Text, NEW c \in Symbols
      PROVE  Coded(D, Pre(c, v)) = Cat(Code(D, c), Coded(D, v))
  <2>1. PICK p, q, u : p = <<Code(D, c)>> /\ q = codes(v) /\ u = Pre(c, v)
    OBVIOUS
  <2>2. p \in Seq(Text) /\ p # <<>> /\ Len(p) = 1 /\ p[1] = Code(D, c) /\ q \in Seq(Text) /\ Len(q) = Len(v)
        /\ \A i \in 1 .. Len(v) : q[i] = Code(D, v[i])
    <3>1. p \in Seq(Text) /\ p # <<>> /\ Len(p) = 1 /\ p[1] = Code(D, c)
      BY <2>1, CodeType
    <3>2. \A i \in 1 .. Len(v) : q[i] = Code(D, v[i])
      BY <2>1 DEF Text
    <3>3. QED
      BY <1>2, <2>1, <3>1, <3>2
  <2>3. u \in Text /\ u[1] = c /\ Len(u) = Len(v) + 1 /\ \A i \in 1 .. Len(v) : u[i + 1] = v[i]
    BY <2>1, PrependFacts DEF Pre, Text
  <2>4. codes(u) = p \o q
    <3>1. codes(u) \in Seq(Text) /\ Len(codes(u)) = Len(v) + 1 /\ \A i \in 1 .. Len(v) + 1 : codes(u)[i] = Code(D, u[i])
      BY <1>2, <2>3
    <3>2. PICK w : w = p \o q
      OBVIOUS
    <3>3. /\ w \in Seq(Text) /\ Len(w) = Len(v) + 1 /\ w[1] = Code(D, c)
          /\ \A i \in 1 .. Len(v) : w[i + 1] = Code(D, v[i])
      <4>1. PICK x : x = Code(D, c)
        OBVIOUS
      <4>2. x \in Text /\ p = <<x>>
        BY <2>1, <4>1, CodeType
      <4>3. w \in Seq(Text) /\ Len(w) = Len(q) + 1 /\ w[1] = x /\ \A i \in 1 .. Len(q) : w[i + 1] = q[i]
        BY <2>2, <3>2, <4>2, PrependFacts
      <4>4. QED
        BY <2>2, <4>1, <4>3
    <3>4. ASSUME NEW i \in 1 .. Len(v) + 1 PROVE codes(u)[i] = w[i]
      <4>1. CASE i = 1
        BY <2>3, <3>1, <3>3, <4>1
      <4>2. CASE i # 1
        <5>1. PICK k : k = i - 1
          OBVIOUS
        <5>2. k \in 1 .. Len(v) /\ k + 1 = i
          BY <4>2, <5>1, LenProperties DEF Text
        <5>3. u[k + 1] = v[k] /\ w[k + 1] = Code(D, v[k])
          BY <2>3, <3>3, <5>2
        <5>4. codes(u)[i] = Code(D, u[i])
          BY <3>1
        <5>5. QED
          BY <5>2, <5>3, <5>4
      <4>3. QED
        BY <4>1, <4>2
    <3> HIDE DEF codes
    <3>5. codes(u) = w
      BY <3>1, <3>3, <3>4, SeqEqual
    <3>6. QED
      BY <3>2, <3>5
  <2>5. Coded(D, u) = Join(codes(u), Empty) /\ Coded(D, v) = Join(q, Empty)
    BY <2>1 DEF Coded
  <2> HIDE DEF codes
  <2>6. Join(p, Empty) = Code(D, c)
    <3>1. PICK x : x = Code(D, c)
      OBVIOUS
    <3>2. x \in Text /\ p = <<x>>
      BY <2>1, <3>1, CodeType
    <3>3. Join(<<x>>, Empty) = x
      BY <1>1, <3>2, JoinSingle DEF Text
    <3>4. QED
      BY <3>1, <3>2, <3>3
  <2>7. CASE q = <<>>
    <3>1. p \o q = p
      BY <2>2, <2>7
    <3>2. Coded(D, v) = Empty
      BY <1>1, <2>5, <2>7, JoinFacts DEF Text
    <3>3. Cat(Code(D, c), Empty) = Code(D, c)
      BY <1>1, CodeType, CatFacts DEF Text
    <3>4. QED
      BY <2>1, <2>4, <2>5, <2>6, <3>1, <3>2, <3>3
  <2>8. CASE q # <<>>
    <3>1. Join(p \o q, Empty) = Join(p, Empty) \o Empty \o Join(q, Empty)
      BY <1>1, <2>2, <2>8, JoinConcat DEF Text
    <3>2. Code(D, c) \o Empty = Code(D, c)
      BY <1>1, CodeType DEF Text
    <3>3. QED
      BY <2>1, <2>4, <2>5, <2>6, <3>1, <3>2 DEF Cat
  <2>9. QED
    BY <2>7, <2>8
<1>6. QED
  BY <1>3, <1>4, <1>5

LEMMA CodedNone ==
  ASSUME NEW v \in Text
  PROVE  Coded({}, v) = v
<1> DEFINE T == {t \in Text : Coded({}, t) = t}
<1>1. Empty \in T
  BY CodedFacts DEF Text, Empty
<1>2. ASSUME NEW t \in Text, NEW c \in Symbols, t \in T PROVE Pre(c, t) \in T
  <2>1. Coded({}, Pre(c, t)) = Cat(Code({}, c), Coded({}, t))
    BY CodedFacts
  <2>2. Coded({}, t) = t
    BY <1>2
  <2>3. Cat(Code({}, c), t) = Pre(c, t)
    BY CodeType
  <2>4. Pre(c, t) \in Text
    BY PreFacts DEF Text
  <2>5. QED
    BY <2>1, <2>2, <2>3, <2>4
<1>3. Text \subseteq T
  <2> HIDE DEF T
  <2>1. QED
    BY <1>1, <1>2, PreInduction DEF Text
<1>4. QED
  BY <1>3

\* A text escaped symbol by symbol.
CodedPre(D, c, t) == IF c \in D THEN Pre("\\", Pre(Letter(c), t)) ELSE Pre(c, t)

LEMMA CodedOf ==
  ASSUME NEW D, D \subseteq Escaped, NEW v \in Text, NEW c \in Symbols
  PROVE  Coded(D, Pre(c, v)) = CodedPre(D, c, Coded(D, v))
<1>1. Coded(D, Pre(c, v)) = Cat(Code(D, c), Coded(D, v)) /\ Coded(D, v) \in Text
  BY CodedFacts
<1>2. QED
  BY <1>1, CodeType DEF CodedPre

(***************************************************************************)
(* Escaping one more symbol, if it is not among those the escapes have.    *)
(***************************************************************************)
LEMMA EscapePass ==
  ASSUME NEW D, D \subseteq Escaped, NEW x \in Escaped, x \notin D, x # "\\" \/ D = {},
         NEW v \in Text
  PROVE  Replaced(Coded(D, v), <<x>>, <<"\\", Letter(x)>>) = Coded(D \cup {x}, v)
<1>1. PICK old, new, more, b, slash :
        old = <<x>> /\ new = <<"\\", Letter(x)>> /\ more = D \cup {x} /\ b = Letter(x) /\ slash = "\\"
  OBVIOUS
<1>2. more \subseteq Escaped /\ x \in Symbols /\ b \in Symbols /\ slash \in Symbols
  BY <1>1, LetterFacts, SpecialSymbols
<1> DEFINE R(w) == Replaced(w, old, new)
           T == {t \in Text : R(Coded(D, t)) = Coded(more, t)}
<1>3. R(Empty) = Empty
  <2>1. old \in Text /\ old # Empty
    BY <1>1, <1>2 DEF Text, Empty
  <2>2. QED
    BY <2>1, ReplacedEmpty DEF Text
<1>4. ASSUME NEW t \in Text, NEW c \in Symbols
      PROVE  R(Pre(c, t)) = IF c = x THEN Cat(new, R(t)) ELSE Pre(c, R(t))
  BY <1>1, <1>2, ReplacedOne DEF Text
<1> HIDE DEF R
<1>5. \A t \in Text : Cat(new, t) = Pre(slash, Pre(b, t))
  <2>1. new = Code(more, x) /\ x \in more
    BY <1>1 DEF Code
  <2>2. \A t \in Text : Cat(Code(more, x), t) =
                         IF x \in more THEN Pre("\\", Pre(Letter(x), t)) ELSE Pre(x, t)
    BY <1>2, CodeType
  <2>3. QED
    BY <1>1, <2>1, <2>2
<1>6. Empty \in T
  BY <1>2, <1>3, CodedFacts DEF Text, Empty
<1>7. ASSUME NEW t \in Text, NEW c \in Symbols, t \in T PROVE Pre(c, t) \in T
  <2>1. PICK w, z : w = Coded(D, t) /\ z = Coded(more, t)
    OBVIOUS
  <2>2. w \in Text /\ z \in Text /\ R(w) = z
    BY <1>2, <1>7, <2>1, CodedFacts
  <2>3. Coded(D, Pre(c, t)) = CodedPre(D, c, w) /\ Coded(more, Pre(c, t)) = CodedPre(more, c, z)
    BY <1>2, <2>1, CodedOf
  <2>4. R(CodedPre(D, c, w)) = CodedPre(more, c, z)
    <3>1. CASE c = x
      <4>1. CodedPre(D, c, w) = Pre(x, w) /\ CodedPre(more, c, z) = Pre(slash, Pre(b, z))
        BY <1>1, <3>1 DEF CodedPre
      <4>2. R(Pre(x, w)) = Cat(new, z)
        BY <1>2, <1>4, <2>2
      <4>3. QED
        BY <1>5, <2>2, <4>1, <4>2
    <3>2. CASE c # x /\ c \notin D
      <4>1. CodedPre(D, c, w) = Pre(c, w) /\ CodedPre(more, c, z) = Pre(c, z)
        BY <1>1, <3>2 DEF CodedPre
      <4>2. R(Pre(c, w)) = Pre(c, z)
        BY <1>4, <2>2, <3>2
      <4>3. QED
        BY <4>1, <4>2
    <3>3. CASE c # x /\ c \in D
      <4>1. PICK l : l = Letter(c)
        OBVIOUS
      <4>2. l \in Symbols /\ l # x /\ slash # x
        BY <1>1, <3>3, <4>1, LetterFacts
      <4>3. CodedPre(D, c, w) = Pre(slash, Pre(l, w)) /\ CodedPre(more, c, z) = Pre(slash, Pre(l, z))
        BY <1>1, <3>3, <4>1 DEF CodedPre
      <4>4. Pre(l, w) \in Text
        BY <2>2, <4>2, PreFacts DEF Text
      <4>5. R(Pre(slash, Pre(l, w))) = Pre(slash, R(Pre(l, w)))
        BY <1>2, <1>4, <4>2, <4>4
      <4>6. R(Pre(l, w)) = Pre(l, z)
        BY <1>4, <2>2, <4>2
      <4>7. QED
        BY <4>3, <4>5, <4>6
    <3>4. QED
      BY <3>1, <3>2, <3>3
  <2>5. Pre(c, t) \in Text
    BY PreFacts DEF Text
  <2>6. QED
    BY <2>3, <2>4, <2>5
<1>8. Text \subseteq T
  <2> HIDE DEF T
  <2>1. QED
    BY <1>6, <1>7, PreInduction DEF Text
<1>9. R(Coded(D, v)) = Coded(more, v)
  BY <1>8
<1>10. QED
  BY <1>1, <1>9 DEF R

\* What replacing one escape does.
UnescapesOne(x, b, slash, old, new) ==
  /\ Replaced(Empty, old, new) = Empty
  /\ \A t \in Text : Replaced(t, old, new) \in Text
  /\ \A t \in Text, c \in Symbols :
       c # slash \/ ~StartsWith(t, b) => Replaced(Pre(c, t), old, new) = Pre(c, Replaced(t, old, new))
  /\ \A t \in Text : Replaced(Pre(slash, Pre(b, t)), old, new) = Pre(x, Replaced(t, old, new))

LEMMA UnescapeSteps ==
  ASSUME NEW x \in Escaped, NEW b \in Symbols, NEW slash, slash = "\\",
         NEW old, old = <<slash, b>>, NEW new, new = <<x>>
  PROVE  UnescapesOne(x, b, slash, old, new)
<1>1. x \in Symbols /\ slash \in Symbols /\ Empty \in Text
  <2>1. x \in Symbols
    BY LetterFacts
  <2>2. slash \in Symbols
    BY SpecialSymbols
  <2>3. Empty \in Text
    BY DEF Text, Empty
  <2>4. QED
    BY <2>1, <2>2, <2>3
<1> DEFINE R(w) == Replaced(w, old, new)
<1>2. R(Empty) = Empty
  <2>1. old \in Text /\ old # Empty
    BY <1>1 DEF Text, Empty
  <2>2. QED
    BY <2>1, ReplacedEmpty DEF Text
<1>3. ASSUME NEW c \in Symbols
      PROVE  /\ R(Pre(c, Empty)) = Pre(c, Empty)
             /\ \A d \in Symbols, t \in Text :
                  R(Pre(c, Pre(d, t))) = IF c = slash /\ d = b THEN Cat(new, R(t)) ELSE Pre(c, R(Pre(d, t)))
  <2>1. ReplacesPair(slash, b, old, new, c, Symbols)
    BY <1>1, ReplacedTwo
  <2>2. QED
    BY <2>1 DEF ReplacesPair, Text
<1> HIDE DEF R
<1>4. ASSUME NEW t \in Text PROVE Cat(new, t) = Pre(x, t)
  BY DEF Cat, Pre
<1>5. ASSUME NEW t \in Text, t # Empty
      PROVE  /\ Head(t) \in Symbols /\ Tail(t) \in Text /\ t = Pre(Head(t), Tail(t))
             /\ StartsWith(t, b) <=> Head(t) = b
  <2>1. Head(t) \in Symbols /\ Tail(t) \in Text /\ t = Pre(Head(t), Tail(t))
    BY <1>5, PreFacts DEF Text
  <2>2. QED
    BY <1>5, <2>1 DEF StartsWith
<1>6. ASSUME NEW t \in Text, NEW c \in Symbols, c # slash \/ ~StartsWith(t, b)
      PROVE  R(Pre(c, t)) = Pre(c, R(t))
  <2>1. CASE t = Empty
    BY <1>2, <1>3, <2>1
  <2>2. CASE t # Empty
    <3>1. PICK d, u : d = Head(t) /\ u = Tail(t)
      OBVIOUS
    <3>2. d \in Symbols /\ u \in Text /\ t = Pre(d, u) /\ ~(c = slash /\ d = b)
      BY <1>5, <1>6, <2>2, <3>1
    <3>3. QED
      BY <1>3, <3>2
  <2>3. QED
    BY <2>1, <2>2
<1> DEFINE T == {t \in Text : R(t) \in Text /\ \A d \in Symbols : R(Pre(d, t)) \in Text}
<1>7. Empty \in T
  <2>1. ASSUME NEW d \in Symbols PROVE R(Pre(d, Empty)) \in Text
    <3>1. R(Pre(d, Empty)) = Pre(d, Empty)
      BY <1>3
    <3>2. QED
      BY <1>1, <3>1, PreFacts DEF Text
  <2>2. QED
    BY <1>1, <1>2, <2>1
<1>8. ASSUME NEW t \in Text, NEW c \in Symbols, t \in T PROVE Pre(c, t) \in T
  <2>1. R(t) \in Text /\ R(Pre(c, t)) \in Text
    BY <1>8
  <2>2. ASSUME NEW d \in Symbols PROVE R(Pre(d, Pre(c, t))) \in Text
    <3>1. CASE d = slash /\ c = b
      <4>1. R(Pre(d, Pre(c, t))) = Pre(x, R(t))
        BY <1>3, <1>4, <2>1, <3>1
      <4>2. QED
        BY <1>1, <2>1, <4>1, PreFacts DEF Text
    <3>2. CASE ~(d = slash /\ c = b)
      <4>1. R(Pre(d, Pre(c, t))) = Pre(d, R(Pre(c, t)))
        BY <1>3, <3>2
      <4>2. QED
        BY <2>1, <4>1, PreFacts DEF Text
    <3>3. QED
      BY <3>1, <3>2
  <2>3. Pre(c, t) \in Text
    BY PreFacts DEF Text
  <2>4. QED
    BY <2>1, <2>2, <2>3
<1>9. Text \subseteq T
  <2> HIDE DEF T
  <2>1. QED
    BY <1>7, <1>8, PreInduction DEF Text
<1>10. \A t \in Text : R(t) \in Text
  BY <1>9
<1>11. ASSUME NEW t \in Text PROVE R(Pre(slash, Pre(b, t))) = Pre(x, R(t))
  BY <1>1, <1>3, <1>4, <1>10
<1>12. QED
  BY <1>2, <1>6, <1>10, <1>11 DEF R, UnescapesOne

LEMMA CountPre ==
  ASSUME NEW S, NEW c \in S, NEW t \in Seq(S), NEW K
  PROVE  Count(Pre(c, t), K) = One(c, K) + Count(t, K)
<1>1. PICK one : one = <<c>>
  OBVIOUS
<1>2. one \in Seq(S)
  BY <1>1
<1>3. Count(one \o t, K) = Count(one, K) + Count(t, K)
  BY <1>2, CountConcat
<1>4. Count(one, K) = One(c, K)
  BY <1>1, CountOne
<1>5. QED
  BY <1>1, <1>3, <1>4 DEF Pre

\* No escape brings in more of another symbol.
LEMMA UnescapeAddsNone ==
  ASSUME NEW x \in Escaped, NEW b \in Symbols, NEW slash, slash = "\\",
         NEW old, old = <<slash, b>>, NEW new, new = <<x>>, NEW K, x \notin K, NEW u \in Text
  PROVE  Count(Replaced(u, old, new), K) <= Count(u, K)
<1>1. x \in Symbols /\ slash \in Symbols /\ Empty \in Text
  <2>1. x \in Symbols
    BY LetterFacts
  <2>2. slash \in Symbols
    BY SpecialSymbols
  <2>3. Empty \in Text
    BY DEF Text, Empty
  <2>4. QED
    BY <2>1, <2>2, <2>3
<1> DEFINE R(w) == Replaced(w, old, new)
           N(w) == Count(w, K)
           T == {t \in Text : N(R(t)) <= N(t) /\ \A d \in Symbols : N(R(Pre(d, t))) <= N(Pre(d, t))}
<1>2. /\ R(Empty) = Empty
      /\ \A t \in Text : R(t) \in Text
      /\ \A t \in Text, c \in Symbols : c # slash \/ ~StartsWith(t, b) => R(Pre(c, t)) = Pre(c, R(t))
      /\ \A t \in Text : R(Pre(slash, Pre(b, t))) = Pre(x, R(t))
  <2>1. UnescapesOne(x, b, slash, old, new)
    BY UnescapeSteps
  <2>2. QED
    BY <2>1 DEF UnescapesOne
<1>3. /\ \A t \in Text : N(t) \in Nat
      /\ \A t \in Text, c \in Symbols : N(Pre(c, t)) = One(c, K) + N(t)
      /\ \A c : One(c, K) \in {0, 1}
      /\ One(x, K) = 0
  BY PlacesFinite, CountPre DEF Text, One
<1> HIDE DEF R, N
<1>4. Empty \in T
  <2>1. \A d \in Symbols : ~StartsWith(Empty, b)
    BY DEF StartsWith
  <2>2. \A d \in Symbols : R(Pre(d, Empty)) = Pre(d, Empty)
    BY <1>1, <1>2, <2>1
  <2>3. \A d \in Symbols : N(Pre(d, Empty)) = One(d, K) + N(Empty)
    BY <1>1, <1>3
  <2>4. N(Empty) \in Nat
    BY <1>1, <1>3
  <2>5. \A d \in Symbols : N(Pre(d, Empty)) \in Nat
    BY <1>3, <2>3, <2>4
  <2>6. QED
    BY <1>1, <1>2, <2>2, <2>4, <2>5
<1>5. ASSUME NEW t \in Text, NEW c \in Symbols, t \in T PROVE Pre(c, t) \in T
  <2>1. N(R(t)) <= N(t) /\ N(R(Pre(c, t))) <= N(Pre(c, t))
    BY <1>5
  <2>2. PICK u1 : u1 = Pre(c, t)
    OBVIOUS
  <2>3. u1 \in Text /\ Head(u1) = c /\ u1 # Empty
    <3>1. Pre(c, t) \in Text /\ Head(Pre(c, t)) = c /\ Pre(c, t) # Empty
      BY PreFacts DEF Text
    <3>2. QED
      BY <2>2, <3>1
  <2>4. N(t) \in Nat /\ N(R(t)) \in Nat /\ N(u1) \in Nat /\ N(R(u1)) \in Nat
    BY <1>2, <1>3, <2>3
  <2>5. ASSUME NEW d \in Symbols PROVE N(R(Pre(d, u1))) <= N(Pre(d, u1))
    <3>1. N(Pre(d, u1)) = One(d, K) + N(u1) /\ N(u1) = One(c, K) + N(t)
      BY <1>3, <2>2, <2>3
    <3>2. One(d, K) \in Nat /\ One(c, K) \in Nat
      BY <1>3
    <3>3. CASE d = slash /\ c = b
      <4>1. R(Pre(d, u1)) = Pre(x, R(t))
        BY <1>2, <2>2, <3>3
      <4>2. R(t) \in Text
        BY <1>2
      <4>3. N(Pre(x, R(t))) = 0 + N(R(t))
        BY <1>1, <1>3, <4>2
      <4>4. QED
        BY <2>1, <2>4, <3>1, <3>2, <4>1, <4>3
    <3>4. CASE ~(d = slash /\ c = b)
      <4>1. d # slash \/ ~StartsWith(u1, b)
        BY <2>3, <3>4 DEF StartsWith
      <4>2. R(Pre(d, u1)) = Pre(d, R(u1)) /\ R(u1) \in Text
        BY <1>2, <2>3, <4>1
      <4>3. N(Pre(d, R(u1))) = One(d, K) + N(R(u1))
        BY <1>3, <4>2
      <4>4. N(R(u1)) <= N(u1)
        BY <2>1, <2>2
      <4>5. QED
        BY <2>4, <3>1, <3>2, <4>2, <4>3, <4>4
    <3>5. QED
      BY <3>3, <3>4
  <2>6. QED
    BY <2>1, <2>2, <2>3, <2>5
<1>6. Text \subseteq T
  <2> HIDE DEF T
  <2>1. QED
    BY <1>4, <1>5, PreInduction DEF Text
<1>7. QED
  BY <1>6 DEF R, N

\* A backslash before b.
Spells(v, b) == \E i \in 1 .. Len(v) - 1 : v[i] = "\\" /\ v[i + 1] = b

LEMMA SpellsPre ==
  ASSUME NEW t \in Text, NEW c \in Symbols, NEW b, NEW u, u = Pre(c, t)
  PROVE  Spells(u, b) <=> Spells(t, b) \/ (c = "\\" /\ StartsWith(t, b))
<1>1. PICK n : n = Len(t)
  OBVIOUS
<1>2. n \in Nat /\ Len(u) = n + 1 /\ u[1] = c /\ \A i \in 1 .. n : u[i + 1] = t[i]
  BY <1>1, PrependFacts, LenProperties DEF Pre, Text
<1>3. StartsWith(t, b) <=> n # 0 /\ t[1] = b
  <2>1. t # Empty <=> n # 0
    BY <1>1, EmptySeq DEF Text, Empty
  <2>2. t # Empty => Head(t) = t[1]
    BY HeadAndTail DEF Text, Empty
  <2>3. QED
    BY <2>1, <2>2 DEF StartsWith
<1>4. ASSUME Spells(t, b) PROVE Spells(u, b)
  <2>1. PICK i \in 1 .. n - 1 : t[i] = "\\" /\ t[i + 1] = b
    BY <1>1, <1>4 DEF Spells
  <2>2. PICK j : j = i + 1
    OBVIOUS
  <2>3. i \in 1 .. n /\ j \in 1 .. n
    BY <1>2, <2>1, <2>2
  <2>4. u[i + 1] = "\\" /\ u[j + 1] = b
    BY <1>2, <2>1, <2>2, <2>3
  <2>5. j \in 1 .. Len(u) - 1
    BY <1>2, <2>3
  <2>6. QED
    BY <2>2, <2>4, <2>5 DEF Spells
<1>5. ASSUME c = "\\", StartsWith(t, b) PROVE Spells(u, b)
  <2>1. n # 0 /\ t[1] = b
    BY <1>3, <1>5
  <2>2. 1 \in 1 .. n /\ 1 \in 1 .. Len(u) - 1
    BY <1>2, <2>1
  <2>3. u[1 + 1] = b
    BY <1>2, <2>1, <2>2
  <2>4. QED
    BY <1>2, <1>5, <2>2, <2>3 DEF Spells
<1>6. ASSUME Spells(u, b) PROVE Spells(t, b) \/ (c = "\\" /\ StartsWith(t, b))
  <2>1. PICK i \in 1 .. Len(u) - 1 : u[i] = "\\" /\ u[i + 1] = b
    BY <1>6 DEF Spells
  <2>2. i \in 1 .. n /\ t[i] = b
    BY <1>2, <2>1
  <2>3. CASE i = 1
    BY <1>2, <1>3, <2>1, <2>2, <2>3
  <2>4. CASE i # 1
    <3>1. PICK j : j = i - 1
      OBVIOUS
    <3>2. j \in 1 .. n /\ j \in 1 .. n - 1 /\ j + 1 = i
      BY <1>2, <2>2, <2>4, <3>1
    <3>3. t[j] = "\\" /\ t[j + 1] = b
      BY <1>2, <2>1, <2>2, <3>2
    <3>4. QED
      BY <1>1, <3>2, <3>3 DEF Spells
  <2>5. QED
    BY <2>3, <2>4
<1>7. QED
  BY <1>4, <1>5, <1>6

\* Escaped or not, a text starts with a symbol that no escape starts with.
LEMMA StartsCoded ==
  ASSUME NEW D, D \subseteq Escaped, NEW t \in Text, NEW b, b \notin Escaped
  PROVE  StartsWith(Coded(D, t), b) <=> StartsWith(t, b)
<1>1. CASE t = Empty
  BY <1>1, CodedFacts
<1>2. CASE t # Empty
  <2>1. PICK c, u : c = Head(t) /\ u = Tail(t)
    OBVIOUS
  <2>2. c \in Symbols /\ u \in Text /\ t = Pre(c, u)
    BY <1>2, <2>1, PreFacts DEF Text
  <2>3. PICK w : w = Coded(D, u)
    OBVIOUS
  <2>4. w \in Text /\ Coded(D, t) = CodedPre(D, c, w)
    BY <2>2, <2>3, CodedFacts, CodedOf
  <2>5. StartsWith(t, b) <=> c = b
    BY <1>2, <2>1 DEF StartsWith
  <2>6. CASE c \in D
    <3>1. PICK slash, l : slash = "\\" /\ l = Letter(c)
      OBVIOUS
    <3>2. slash \in Symbols /\ l \in Symbols /\ slash # b /\ c # b
      BY <2>6, <3>1, LetterFacts, SpecialSymbols DEF Escaped
    <3>3. Coded(D, t) = Pre(slash, Pre(l, w))
      BY <2>4, <2>6, <3>1 DEF CodedPre
    <3>4. Pre(l, w) \in Text
      BY <2>4, <3>2, PreFacts DEF Text
    <3>5. Head(Pre(slash, Pre(l, w))) = slash
      BY <3>2, <3>4, PreFacts DEF Text
    <3>6. QED
      BY <2>5, <3>2, <3>3, <3>5 DEF StartsWith
  <2>7. CASE c \notin D
    <3>1. Coded(D, t) = Pre(c, w)
      BY <2>4, <2>7 DEF CodedPre
    <3>2. Head(Pre(c, w)) = c /\ Pre(c, w) # Empty
      BY <2>2, <2>4, PreFacts DEF Text
    <3>3. QED
      BY <2>5, <3>1, <3>2 DEF StartsWith
  <2>8. QED
    BY <2>6, <2>7
<1>3. QED
  BY <1>1, <1>2

(***************************************************************************)
(* Unescaping one symbol, x, symbol by symbol.                             *)
(***************************************************************************)
Passes(D, x, b, slash, old, new, c, t, w, r, y) ==
  /\ c # slash \/ x = slash \/ ~StartsWith(t, b) => y = CodedPre(D \ {x}, c, r)
  /\ c = slash /\ x # slash =>
       y = IF c \in D THEN Pre(slash, Replaced(Pre(slash, w), old, new))
           ELSE Replaced(Pre(slash, w), old, new)

LEMMA PassStep ==
  ASSUME NEW D, D \subseteq Escaped, NEW x \in D, NEW b, b = Letter(x), NEW slash, slash = "\\",
         NEW old, old = <<slash, b>>, NEW new, new = <<x>>,
         NEW t \in Text, NEW c \in Symbols, NEW w, w = Coded(D, t), NEW r, r = Replaced(w, old, new),
         NEW y, y = Replaced(Coded(D, Pre(c, t)), old, new)
  PROVE  Passes(D, x, b, slash, old, new, c, t, w, r, y)
<1>1. /\ x \in Escaped /\ b \in Symbols /\ slash \in Symbols /\ w \in Text
      /\ b = slash <=> x = slash
      /\ x # slash => b \notin Escaped
  <2>1. x \in Escaped /\ w \in Text
    BY CodedFacts
  <2>2. slash \in Symbols
    BY SpecialSymbols
  <2>3. QED
    BY <2>1, <2>2, LetterFacts
<1> DEFINE R(z) == Replaced(z, old, new)
<1>2. /\ \A z \in Text, d \in Symbols : d # slash \/ ~StartsWith(z, b) => R(Pre(d, z)) = Pre(d, R(z))
      /\ \A z \in Text : R(Pre(slash, Pre(b, z))) = Pre(x, R(z))
      /\ \A z \in Text : R(z) \in Text
  <2>1. UnescapesOne(x, b, slash, old, new)
    BY <1>1, UnescapeSteps
  <2>2. QED
    BY <2>1 DEF UnescapesOne
<1>3. r = R(w) /\ y = R(CodedPre(D, c, w))
  BY CodedOf
<1> HIDE DEF R
<1>4. r \in Text
  BY <1>1, <1>2, <1>3
<1>5. CASE c = x
  <2>1. CodedPre(D, c, w) = Pre(slash, Pre(b, w)) /\ CodedPre(D \ {x}, c, r) = Pre(x, r)
    BY <1>5 DEF CodedPre
  <2>2. R(Pre(slash, Pre(b, w))) = Pre(x, r)
    BY <1>1, <1>2, <1>3
  <2>3. QED
    BY <1>3, <1>5, <2>1, <2>2 DEF Passes
<1>6. CASE c # x /\ c \in D
  <2>1. PICK l : l = Letter(c)
    OBVIOUS
  <2>2. l \in Symbols /\ l # b /\ (l = slash <=> c = slash)
    BY <1>6, <2>1, LetterFacts
  <2>3. CodedPre(D, c, w) = Pre(slash, Pre(l, w)) /\ CodedPre(D \ {x}, c, r) = Pre(slash, Pre(l, r))
    BY <1>6, <2>1 DEF CodedPre
  <2>4. R(Pre(slash, Pre(l, w))) = Pre(slash, R(Pre(l, w)))
    <3>1. Pre(l, w) \in Text /\ Head(Pre(l, w)) = l
      BY <1>1, <2>2, PreFacts DEF Text
    <3>2. ~StartsWith(Pre(l, w), b)
      BY <2>2, <3>1 DEF StartsWith
    <3>3. QED
      BY <1>1, <1>2, <3>1, <3>2
  <2>5. CASE c # slash
    <3>1. R(Pre(l, w)) = Pre(l, r)
      BY <1>1, <1>2, <1>3, <2>2, <2>5
    <3>2. QED
      BY <1>3, <2>3, <2>4, <2>5, <3>1 DEF Passes
  <2>6. CASE c = slash
    <3>1. b \notin Escaped /\ l = slash /\ x # slash
      BY <1>1, <1>6, <2>2, <2>6
    <3>2. ~StartsWith(t, b) => R(Pre(l, w)) = Pre(l, r)
      BY <1>1, <1>2, <1>3, <3>1, StartsCoded
    <3>3. y = Pre(slash, R(Pre(slash, w)))
      BY <1>3, <2>3, <2>4, <3>1
    <3>4. QED
      BY <1>6, <2>3, <2>6, <3>1, <3>2, <3>3 DEF Passes, R
  <2>7. QED
    BY <2>5, <2>6
<1>7. CASE c \notin D
  <2>1. CodedPre(D, c, w) = Pre(c, w) /\ CodedPre(D \ {x}, c, r) = Pre(c, r) /\ c # x
    BY <1>7 DEF CodedPre
  <2>2. CASE c # slash
    <3>1. R(Pre(c, w)) = Pre(c, r)
      BY <1>1, <1>2, <1>3, <2>2
    <3>2. QED
      BY <1>3, <2>1, <2>2, <3>1 DEF Passes
  <2>3. CASE c = slash
    <3>1. b \notin Escaped /\ x # slash
      BY <1>1, <2>1, <2>3
    <3>2. ~StartsWith(t, b) => R(Pre(c, w)) = Pre(c, r)
      BY <1>1, <1>2, <1>3, <3>1, StartsCoded
    <3>3. y = R(Pre(slash, w))
      BY <1>3, <2>1, <2>3
    <3>4. QED
      BY <1>7, <2>1, <2>3, <3>1, <3>2, <3>3 DEF Passes, R
  <2>4. QED
    BY <2>2, <2>3
<1>8. QED
  BY <1>5, <1>6, <1>7

(***************************************************************************)
(* A pass undoes the escapes of its symbol where no backslash of the text  *)
(* stands before its letter.                                               *)
(***************************************************************************)
LEMMA UnescapePass ==
  ASSUME NEW D, D \subseteq Escaped, NEW x \in D, NEW v \in Text, x = "\\" \/ ~Spells(v, Letter(x))
  PROVE  Replaced(Coded(D, v), <<"\\", Letter(x)>>, <<x>>) = Coded(D \ {x}, v)
<1>1. PICK b, slash, old, new, less :
        b = Letter(x) /\ slash = "\\" /\ old = <<slash, b>> /\ new = <<x>> /\ less = D \ {x}
  OBVIOUS
<1>2. x \in Escaped /\ b \in Symbols /\ less \subseteq Escaped
  BY <1>1, LetterFacts
<1> DEFINE T == {t \in Text : x = slash \/ ~Spells(t, b) =>
                                Replaced(Coded(D, t), old, new) = Coded(less, t)}
<1>3. Empty \in T
  <2>1. Coded(D, Empty) = Empty /\ Coded(less, Empty) = Empty /\ Empty \in Text
    BY <1>2, CodedFacts DEF Text, Empty
  <2>2. UnescapesOne(x, b, slash, old, new)
    BY <1>1, <1>2, UnescapeSteps
  <2>3. QED
    BY <2>1, <2>2 DEF UnescapesOne
<1>4. ASSUME NEW t \in Text, NEW c \in Symbols, t \in T PROVE Pre(c, t) \in T
  <2>1. PICK u : u = Pre(c, t)
    OBVIOUS
  <2>2. u \in Text
    BY <2>1, PreFacts DEF Text
  <2>3. ASSUME x = slash \/ ~Spells(u, b) PROVE Replaced(Coded(D, u), old, new) = Coded(less, u)
    <3>1. x = slash \/ (~Spells(t, b) /\ ~(c = slash /\ StartsWith(t, b)))
      BY <1>1, <2>1, <2>3, SpellsPre
    <3>2. PICK w, r, y : w = Coded(D, t) /\ r = Replaced(w, old, new) /\ y = Replaced(Coded(D, u), old, new)
      OBVIOUS
    <3>3. r = Coded(less, t)
      BY <1>4, <3>1, <3>2
    <3>4. Passes(D, x, b, slash, old, new, c, t, w, r, y)
      BY <1>1, <2>1, <3>2, PassStep
    <3>5. y = CodedPre(less, c, r)
      BY <1>1, <3>1, <3>4 DEF Passes
    <3>6. Coded(less, u) = CodedPre(less, c, r)
      BY <1>2, <2>1, <3>3, CodedOf
    <3>7. QED
      BY <3>2, <3>5, <3>6
  <2>4. QED
    BY <2>1, <2>2, <2>3
<1>5. Text \subseteq T
  <2> HIDE DEF T
  <2>1. QED
    BY <1>3, <1>4, PreInduction DEF Text
<1>6. QED
  BY <1>1, <1>5

\* Where one does, the letter is lost.
Loses(D, t, b, old, new) ==
  /\ Count(Replaced(Coded(D, t), old, new), {b}) <= Count(t, {b})
  /\ Spells(t, b) => Count(Replaced(Coded(D, t), old, new), {b}) < Count(t, {b})

LEMMA UnescapeLoses ==
  ASSUME NEW D, D \subseteq Escaped, NEW x \in D, x # "\\", NEW b, b = Letter(x), NEW v \in Text,
         NEW old, old = <<"\\", b>>, NEW new, new = <<x>>
  PROVE  Loses(D, v, b, old, new)
<1>1. PICK slash, less : slash = "\\" /\ less = D \ {x}
  OBVIOUS
<1>2. /\ x \in Escaped /\ x \in Symbols /\ b \in Symbols /\ slash \in Symbols /\ less \subseteq Escaped
      /\ b \notin Escaped /\ b # slash /\ b # x
  <2>1. x \in Escaped /\ slash \in Symbols
    BY <1>1, SpecialSymbols
  <2>2. x \in Symbols /\ b \in Symbols /\ b # slash /\ b \notin Escaped
    BY <1>1, <2>1, LetterFacts
  <2>3. QED
    BY <1>1, <2>1, <2>2
<1> DEFINE R(z) == Replaced(z, old, new)
           N(z) == Count(z, {b})
           T == {t \in Text : Loses(D, t, b, old, new)}
<1>3. /\ R(Empty) = Empty
      /\ \A z \in Text : R(z) \in Text
      /\ \A z \in Text, d \in Symbols : d # slash \/ ~StartsWith(z, b) => R(Pre(d, z)) = Pre(d, R(z))
      /\ \A z \in Text : R(Pre(slash, Pre(b, z))) = Pre(x, R(z))
  <2>1. UnescapesOne(x, b, slash, old, new)
    BY <1>1, <1>2, UnescapeSteps
  <2>2. QED
    BY <2>1 DEF UnescapesOne
<1>4. /\ \A z \in Text : N(z) \in Nat
      /\ \A z \in Text, d \in Symbols : N(Pre(d, z)) = One(d, {b}) + N(z)
      /\ \A d : One(d, {b}) = IF d = b THEN 1 ELSE 0
  BY PlacesFinite, CountPre DEF Text, One
<1>5. \A z \in Text : Loses(D, z, b, old, new) <=> /\ N(R(Coded(D, z))) <= N(z)
                                                   /\ Spells(z, b) => N(R(Coded(D, z))) < N(z)
  BY DEF Loses
<1> HIDE DEF R, N
<1>6. Empty \in T
  <2>1. Empty \in Text /\ Coded(D, Empty) = Empty
    BY CodedFacts DEF Text, Empty
  <2>2. ~Spells(Empty, b)
    BY DEF Spells, Empty
  <2>3. N(Empty) \in Nat
    BY <1>4, <2>1
  <2>4. QED
    BY <1>3, <1>5, <2>1, <2>2, <2>3
<1>7. ASSUME NEW t \in Text, NEW c \in Symbols, t \in T PROVE Pre(c, t) \in T
  <2>1. PICK u, w, r, y : u = Pre(c, t) /\ w = Coded(D, t) /\ r = R(w) /\ y = R(Coded(D, u))
    OBVIOUS
  <2>2. u \in Text /\ w \in Text /\ r \in Text
    BY <1>3, <2>1, PreFacts, CodedFacts DEF Text
  <2>3. N(r) \in Nat /\ N(t) \in Nat /\ N(r) <= N(t) /\ (Spells(t, b) => N(r) < N(t))
    BY <1>4, <1>5, <1>7, <2>1, <2>2
  <2>4. N(u) = One(c, {b}) + N(t)
    BY <1>4, <2>1
  <2>5. Spells(u, b) <=> Spells(t, b) \/ (c = slash /\ StartsWith(t, b))
    BY <1>1, <2>1, SpellsPre
  <2>6. Passes(D, x, b, slash, old, new, c, t, w, r, y)
    BY <1>1, <2>1, PassStep DEF R
  <2>7. N(y) <= N(u) /\ (Spells(u, b) => N(y) < N(u))
    <3>1. CASE ~(c = slash /\ StartsWith(t, b))
      <4>1. y = CodedPre(less, c, r)
        BY <1>1, <2>6, <3>1 DEF Passes
      <4>2. N(y) = One(c, {b}) + N(r)
        <5>1. CASE c \in less
          <6>1. PICK l : l = Letter(c)
            OBVIOUS
          <6>2. l \in Symbols /\ l # b /\ c # b
            BY <1>1, <1>2, <5>1, <6>1, LetterFacts
          <6>3. y = Pre(slash, Pre(l, r))
            BY <1>1, <4>1, <5>1, <6>1 DEF CodedPre
          <6>4. N(Pre(l, r)) = 0 + N(r) /\ Pre(l, r) \in Text
            BY <1>4, <2>2, <6>2, PreFacts DEF Text
          <6>5. N(y) = 0 + N(Pre(l, r))
            BY <1>2, <1>4, <6>3, <6>4
          <6>6. One(c, {b}) = 0
            BY <1>4, <6>2
          <6>7. QED
            BY <2>3, <6>4, <6>5, <6>6
        <5>2. CASE c \notin less
          <6>1. y = Pre(c, r)
            BY <4>1, <5>2 DEF CodedPre
          <6>2. QED
            BY <1>4, <2>2, <6>1
        <5>3. QED
          BY <5>1, <5>2
      <4>3. One(c, {b}) \in Nat
        BY <1>4
      <4>4. QED
        BY <2>3, <2>4, <2>5, <3>1, <4>2, <4>3
    <3>2. CASE c = slash /\ StartsWith(t, b)
      <4>1. PICK s : t = Pre(b, s) /\ s \in Text
        <5>1. t # Empty /\ Head(t) = b
          BY <3>2 DEF StartsWith
        <5>2. Tail(t) \in Text /\ t = Pre(Head(t), Tail(t))
          BY <5>1, PreFacts DEF Text
        <5>3. QED
          BY <5>1, <5>2
      <4>2. PICK q : q = Coded(D, s)
        OBVIOUS
      <4>3. q \in Text /\ w = Pre(b, q)
        <5>1. b \notin D
          BY <1>2
        <5>2. w = CodedPre(D, b, q)
          BY <1>2, <2>1, <4>1, <4>2, CodedOf
        <5>3. QED
          BY <4>1, <4>2, <5>1, <5>2, CodedFacts DEF CodedPre
      <4>4. R(q) \in Text /\ r = Pre(b, R(q)) /\ R(Pre(slash, w)) = Pre(x, R(q))
        BY <1>2, <1>3, <2>1, <4>3
      <4>5. N(r) = 1 + N(R(q)) /\ N(R(Pre(slash, w))) = 0 + N(R(q))
        BY <1>2, <1>4, <4>4
      <4>6. N(R(q)) \in Nat
        BY <1>4, <4>4
      <4>7. N(y) = N(R(Pre(slash, w)))
        <5>1. y = IF c \in D THEN Pre(slash, R(Pre(slash, w))) ELSE R(Pre(slash, w))
          BY <1>1, <2>6, <3>2 DEF Passes, R
        <5>2. R(Pre(slash, w)) \in Text
          BY <1>2, <4>4, PreFacts DEF Text
        <5>3. N(Pre(slash, R(Pre(slash, w)))) = 0 + N(R(Pre(slash, w)))
          BY <1>2, <1>4, <5>2
        <5>4. N(R(Pre(slash, w))) \in Nat
          BY <1>4, <5>2
        <5>5. QED
          BY <5>1, <5>3, <5>4
      <4>8. N(u) = 0 + N(t)
        BY <1>2, <1>4, <2>4, <3>2
      <4>9. QED
        BY <2>3, <4>5, <4>6, <4>7, <4>8
    <3>3. QED
      BY <3>1, <3>2
  <2>8. QED
    BY <1>5, <2>1, <2>2, <2>7
<1>8. Text \subseteq T
  <2> HIDE DEF T
  <2>1. QED
    BY <1>6, <1>7, PreInduction DEF Text
<1>9. QED
  BY <1>8

\* The symbols in the order in which they are escaped, or unescaped.
IsOrder(o) == /\ o \in [1 .. 6 -> Escaped]
              /\ \A c \in Escaped : \E k \in 1 .. 6 : o[k] = c
              /\ \A i \in 1 .. 6, j \in 1 .. 6 : o[i] = o[j] => i = j

EscapesInOrder(o) ==
  /\ IsOrder(o) /\ o[1] = "\\" /\ Len(Escapes) = 6
  /\ \A k \in 1 .. 6 : Escapes[k].old = <<o[k]>> /\ Escapes[k].new = <<"\\", Letter(o[k])>>

UnescapesInOrder(o) ==
  /\ IsOrder(o) /\ Len(Unescapes) = 6
  /\ \A k \in 1 .. 6 : Unescapes[k].old = <<"\\", Letter(o[k])>> /\ Unescapes[k].new = <<o[k]>>

\* Six symbols make an order.
LEMMA SixSymbols ==
  ASSUME NEW a1, NEW a2, NEW a3, NEW a4, NEW a5, NEW a6, Escaped = {a1, a2, a3, a4, a5, a6},
         /\ a1 # a2 /\ a1 # a3 /\ a1 # a4 /\ a1 # a5 /\ a1 # a6
         /\ a2 # a3 /\ a2 # a4 /\ a2 # a5 /\ a2 # a6
         /\ a3 # a4 /\ a3 # a5 /\ a3 # a6
         /\ a4 # a5 /\ a4 # a6 /\ a5 # a6
  PROVE  IsOrder(<<a1, a2, a3, a4, a5, a6>>)
<1>1. PICK o : o = <<a1, a2, a3, a4, a5, a6>>
  OBVIOUS
<1>2. /\ o[1] = a1 /\ o[2] = a2 /\ o[3] = a3 /\ o[4] = a4 /\ o[5] = a5 /\ o[6] = a6
      /\ o = [k \in 1 .. 6 |-> o[k]]
  BY <1>1
<1>3. \A k \in 1 .. 6 : k = 1 \/ k = 2 \/ k = 3 \/ k = 4 \/ k = 5 \/ k = 6
  OBVIOUS
<1>4. \A k \in 1 .. 6 : o[k] \in Escaped
  BY <1>2, <1>3
<1>5. \A c \in Escaped : \E k \in 1 .. 6 : o[k] = c
  BY <1>2
<1>6. \A i \in 1 .. 6, j \in 1 .. 6 : o[i] = o[j] => i = j
  BY <1>2, <1>3
<1>7. QED
  BY <1>1, <1>2, <1>4, <1>5, <1>6 DEF IsOrder

LEMMA EscapeOrder == \E o : EscapesInOrder(o)
<1>1. PICK slash, semi, space, cr, lf, nul, colon, s, r, n, zero :
        /\ slash = "\\" /\ semi = ";" /\ space = Space /\ cr = "\r" /\ lf = "\n" /\ nul = "NUL"
        /\ colon = ":" /\ s = "s" /\ r = "r" /\ n = "n" /\ zero = "0"
  OBVIOUS
<1>2. PICK o : o = <<slash, semi, space, cr, lf, nul>>
  OBVIOUS
<1>3. Escaped = {slash, semi, space, cr, lf, nul}
  BY <1>1 DEF Escaped
<1>4. /\ slash # semi /\ slash # space /\ slash # cr /\ slash # lf /\ slash # nul
      /\ semi # space /\ semi # cr /\ semi # lf /\ semi # nul
      /\ space # cr /\ space # lf /\ space # nul /\ cr # lf /\ cr # nul /\ lf # nul
  BY <1>1 DEF Space
<1>5. IsOrder(o)
  BY <1>2, <1>3, <1>4, SixSymbols
<1>6. /\ Letter(slash) = slash /\ Letter(semi) = colon /\ Letter(space) = s
      /\ Letter(cr) = r /\ Letter(lf) = n /\ Letter(nul) = zero
  BY <1>1 DEF Letter, Space
<1>7. Escapes = <<[old |-> <<slash>>, new |-> <<slash, slash>>],
                  [old |-> <<semi>>, new |-> <<slash, colon>>],
                  [old |-> <<space>>, new |-> <<slash, s>>],
                  [old |-> <<cr>>, new |-> <<slash, r>>],
                  [old |-> <<lf>>, new |-> <<slash, n>>],
                  [old |-> <<nul>>, new |-> <<slash, zero>>]>>
  BY <1>1 DEF Escapes
<1>8. Len(Escapes) = 6 /\ \A k \in 1 .. 6 : Escapes[k].old = <<o[k]>> /\ Escapes[k].new = <<slash, Letter(o[k])>>
  <2>1. \A k \in 1 .. 6 : k = 1 \/ k = 2 \/ k = 3 \/ k = 4 \/ k = 5 \/ k = 6
    OBVIOUS
  <2>2. o[1] = slash /\ o[2] = semi /\ o[3] = space /\ o[4] = cr /\ o[5] = lf /\ o[6] = nul
    BY <1>2
  <2>3. /\ Len(Escapes) = 6
        /\ Escapes[1] = [old |-> <<slash>>, new |-> <<slash, slash>>]
        /\ Escapes[2] = [old |-> <<semi>>, new |-> <<slash, colon>>]
        /\ Escapes[3] = [old |-> <<space>>, new |-> <<slash, s>>]
        /\ Escapes[4] = [old |-> <<cr>>, new |-> <<slash, r>>]
        /\ Escapes[5] = [old |-> <<lf>>, new |-> <<slash, n>>]
        /\ Escapes[6] = [old |-> <<nul>>, new |-> <<slash, zero>>]
    BY <1>7
  <2>4. ASSUME NEW k \in 1 .. 6 PROVE Escapes[k].old = <<o[k]>> /\ Escapes[k].new = <<slash, Letter(o[k])>>
    BY <1>6, <2>1, <2>2, <2>3
  <2>5. QED
    BY <2>3, <2>4
<1>9. o[1] = "\\"
  BY <1>1, <1>2
<1>10. QED
  BY <1>1, <1>5, <1>8, <1>9 DEF EscapesInOrder

LEMMA UnescapeOrder == \E o : UnescapesInOrder(o)
<1>1. PICK slash, semi, space, cr, lf, nul, colon, s, r, n, zero :
        /\ slash = "\\" /\ semi = ";" /\ space = Space /\ cr = "\r" /\ lf = "\n" /\ nul = "NUL"
        /\ colon = ":" /\ s = "s" /\ r = "r" /\ n = "n" /\ zero = "0"
  OBVIOUS
<1>2. PICK o : o = <<semi, space, slash, cr, lf, nul>>
  OBVIOUS
<1>3. Escaped = {semi, space, slash, cr, lf, nul}
  BY <1>1 DEF Escaped
<1>4. /\ semi # space /\ semi # slash /\ semi # cr /\ semi # lf /\ semi # nul
      /\ space # slash /\ space # cr /\ space # lf /\ space # nul
      /\ slash # cr /\ slash # lf /\ slash # nul /\ cr # lf /\ cr # nul /\ lf # nul
  BY <1>1 DEF Space
<1>5. IsOrder(o)
  BY <1>2, <1>3, <1>4, SixSymbols
<1>6. /\ Letter(slash) = slash /\ Letter(semi) = colon /\ Letter(space) = s
      /\ Letter(cr) = r /\ Letter(lf) = n /\ Letter(nul) = zero
  BY <1>1 DEF Letter, Space
<1>7. Unescapes = <<[old |-> <<slash, colon>>, new |-> <<semi>>],
                    [old |-> <<slash, s>>, new |-> <<space>>],
                    [old |-> <<slash, slash>>, new |-> <<slash>>],
                    [old |-> <<slash, r>>, new |-> <<cr>>],
                    [old |-> <<slash, n>>, new |-> <<lf>>],
                    [old |-> <<slash, zero>>, new |-> <<nul>>]>>
  BY <1>1 DEF Unescapes
<1>8. Len(Unescapes) = 6 /\ \A k \in 1 .. 6 : Unescapes[k].old = <<slash, Letter(o[k])>> /\ Unescapes[k].new = <<o[k]>>
  <2>1. \A k \in 1 .. 6 : k = 1 \/ k = 2 \/ k = 3 \/ k = 4 \/ k = 5 \/ k = 6
    OBVIOUS
  <2>2. o[1] = semi /\ o[2] = space /\ o[3] = slash /\ o[4] = cr /\ o[5] = lf /\ o[6] = nul
    BY <1>2
  <2>3. /\ Len(Unescapes) = 6
        /\ Unescapes[1] = [old |-> <<slash, colon>>, new |-> <<semi>>]
        /\ Unescapes[2] = [old |-> <<slash, s>>, new |-> <<space>>]
        /\ Unescapes[3] = [old |-> <<slash, slash>>, new |-> <<slash>>]
        /\ Unescapes[4] = [old |-> <<slash, r>>, new |-> <<cr>>]
        /\ Unescapes[5] = [old |-> <<slash, n>>, new |-> <<lf>>]
        /\ Unescapes[6] = [old |-> <<slash, zero>>, new |-> <<nul>>]
    BY <1>7
  <2>4. ASSUME NEW k \in 1 .. 6 PROVE Unescapes[k].old = <<slash, Letter(o[k])>> /\ Unescapes[k].new = <<o[k]>>
    BY <1>6, <2>1, <2>2, <2>3
  <2>5. QED
    BY <2>3, <2>4
<1>9. QED
  BY <1>1, <1>5, <1>8 DEF UnescapesInOrder

PassesOver(f, pairs) ==
  \A k \in 1 .. Len(pairs) : f[k] = Replaced(f[k - 1], pairs[k].old, pairs[k].new)

LEMMA AllReplacedIs ==
  ASSUME NEW text, NEW pairs, Len(pairs) \in Nat, NEW f, f[0] = text, PassesOver(f, pairs)
  PROVE  AllReplaced(text, pairs) = f[Len(pairs)]
<1> DEFINE Chain(h) == h = [k \in 0 .. Len(pairs) |->
                              IF k = 0 THEN text ELSE Replaced(h[k - 1], pairs[k].old, pairs[k].new)]
           g == CHOOSE h : Chain(h)
           e == [k \in 0 .. Len(pairs) |-> f[k]]
<1>1. AllReplaced(text, pairs) = g[Len(pairs)]
  BY DEF AllReplaced
<1>2. Chain(e)
  <2>1. \A k \in 0 .. Len(pairs) : k # 0 => k \in 1 .. Len(pairs) /\ k - 1 \in 0 .. Len(pairs)
    OBVIOUS
  <2>2. \A k \in 0 .. Len(pairs) : k # 0 => f[k] = Replaced(f[k - 1], pairs[k].old, pairs[k].new)
    BY <2>1 DEF PassesOver
  <2>3. QED
    BY <2>1, <2>2
<1>3. Chain(g)
  BY <1>2
<1> HIDE DEF g, e
<1>4. g[0] = text
  BY <1>3
<1>5. ASSUME NEW k \in 1 .. Len(pairs), f[k - 1] = g[k - 1] PROVE f[k] = g[k]
  <2>1. k \in 0 .. Len(pairs) /\ k # 0
    OBVIOUS
  <2>2. g[k] = Replaced(g[k - 1], pairs[k].old, pairs[k].new)
    BY <1>3, <2>1
  <2>3. QED
    BY <1>5, <2>2 DEF PassesOver
<1> HIDE DEF Chain
<1>6. f[Len(pairs)] = g[Len(pairs)]
  BY <1>4, <1>5, StepsAgree
<1>7. QED
  BY <1>1, <1>6

\* The symbols among the first k of an order.
UpTo(o, k) == {o[i] : i \in 1 .. k}

LEMMA UpToFacts ==
  ASSUME NEW o, IsOrder(o)
  PROVE  /\ UpTo(o, 0) = {} /\ UpTo(o, 6) = Escaped
         /\ \A k \in 1 .. 6 : /\ UpTo(o, k) = UpTo(o, k - 1) \cup {o[k]} /\ o[k] \notin UpTo(o, k - 1)
                              /\ o[k] \in Escaped /\ UpTo(o, k - 1) \subseteq Escaped
<1>1. UpTo(o, 0) = {}
  BY DEF UpTo
<1>2. UpTo(o, 6) = Escaped
  BY DEF UpTo, IsOrder
<1>3. ASSUME NEW k \in 1 .. 6
      PROVE  /\ UpTo(o, k) = UpTo(o, k - 1) \cup {o[k]} /\ o[k] \notin UpTo(o, k - 1)
             /\ o[k] \in Escaped /\ UpTo(o, k - 1) \subseteq Escaped
  <2>1. \A i \in 1 .. k : i \in 1 .. 6 /\ (i = k \/ i \in 1 .. k - 1)
    OBVIOUS
  <2>2. \A i \in 1 .. k - 1 : i \in 1 .. 6 /\ i \in 1 .. k /\ i # k
    OBVIOUS
  <2>3. QED
    BY <2>1, <2>2 DEF UpTo, IsOrder
<1>4. QED
  BY <1>1, <1>2, <1>3

LEMMA EscapeIs ==
  ASSUME NEW v \in Text
  PROVE  EscapeTagValue(v) = Coded(Escaped, v)
<1>1. PICK o : EscapesInOrder(o)
  BY EscapeOrder
<1> DEFINE f == [k \in 0 .. 6 |-> Coded(UpTo(o, k), v)]
<1>2. IsOrder(o) /\ Len(Escapes) = 6 /\ f[0] = v /\ f[6] = Coded(Escaped, v)
  <2>1. IsOrder(o) /\ Len(Escapes) = 6
    BY <1>1 DEF EscapesInOrder
  <2>2. UpTo(o, 0) = {} /\ UpTo(o, 6) = Escaped
    BY <2>1, UpToFacts
  <2>3. f[0] = Coded(UpTo(o, 0), v) /\ f[6] = Coded(UpTo(o, 6), v)
    OBVIOUS
  <2>4. QED
    BY <2>1, <2>2, <2>3, CodedNone
<1>3. ASSUME NEW k \in 1 .. 6 PROVE f[k] = Replaced(f[k - 1], Escapes[k].old, Escapes[k].new)
  <2>1. PICK D, x : D = UpTo(o, k - 1) /\ x = o[k]
    OBVIOUS
  <2>2. /\ UpTo(o, k) = D \cup {x} /\ x \notin D /\ x \in Escaped /\ D \subseteq Escaped
        /\ f[k] = Coded(UpTo(o, k), v) /\ f[k - 1] = Coded(D, v)
    <3>1. k - 1 \in 0 .. 6 /\ k \in 0 .. 6
      OBVIOUS
    <3>2. QED
      BY <1>2, <2>1, <3>1, UpToFacts
  <2>3. x # "\\" \/ D = {}
    <3>1. CASE k = 1
      BY <1>2, <2>1, <3>1, UpToFacts
    <3>2. CASE k # 1
      BY <1>1, <2>1, <3>2 DEF EscapesInOrder, IsOrder
    <3>3. QED
      BY <3>1, <3>2
  <2>4. Replaced(Coded(D, v), <<x>>, <<"\\", Letter(x)>>) = Coded(D \cup {x}, v)
    BY <2>2, <2>3, EscapePass
  <2>5. Escapes[k].old = <<x>> /\ Escapes[k].new = <<"\\", Letter(x)>>
    BY <1>1, <2>1 DEF EscapesInOrder
  <2>6. QED
    BY <2>2, <2>4, <2>5
<1> HIDE DEF f
<1>4. AllReplaced(v, Escapes) = f[Len(Escapes)]
  <2>1. PassesOver(f, Escapes)
    BY <1>2, <1>3 DEF PassesOver
  <2>2. Len(Escapes) \in Nat /\ f[0] = v
    BY <1>2
  <2>3. QED
    BY <2>1, <2>2, AllReplacedIs
<1>5. QED
  BY <1>2, <1>4 DEF EscapeTagValue

LEMMA AmbiguousIs ==
  ASSUME NEW v \in Text
  PROVE  Ambiguous(v) <=> \E x \in Escaped \ {"\\"} : Spells(v, Letter(x))
<1>1. PICK semi, space, cr, lf, nul, colon, s, r, n, zero :
        /\ semi = ";" /\ space = Space /\ cr = "\r" /\ lf = "\n" /\ nul = "NUL"
        /\ colon = ":" /\ s = "s" /\ r = "r" /\ n = "n" /\ zero = "0"
  OBVIOUS
<1>2. Escaped \ {"\\"} = {semi, space, cr, lf, nul}
  BY <1>1 DEF Escaped, Space
<1>3. Letter(semi) = colon /\ Letter(space) = s /\ Letter(cr) = r /\ Letter(lf) = n /\ Letter(nul) = zero
  BY <1>1 DEF Letter, Space
<1>4. Ambiguous(v) <=> \E i \in 1 .. Len(v) - 1 :
                         v[i] = "\\" /\ v[i + 1] \in {colon, s, r, n, zero}
  BY <1>1 DEF Ambiguous
<1>5. Ambiguous(v) <=> \E b \in {colon, s, r, n, zero} : Spells(v, b)
  BY <1>4 DEF Spells
<1>6. QED
  BY <1>2, <1>3, <1>5

\* The passes of unescaping, one after another.
LEMMA UnescapePasses ==
  ASSUME NEW w \in Text
  PROVE  \E f : /\ f[0] = w /\ PassesOver(f, Unescapes) /\ \A k \in 0 .. 6 : f[k] \in Text
                /\ UnescapeTagValue(w) = f[6]
<1>1. PICK o : UnescapesInOrder(o)
  BY UnescapeOrder
<1>2. Len(Unescapes) = 6
  BY <1>1 DEF UnescapesInOrder
<1> DEFINE step == [k \in 1 .. 6 |-> [z \in Text |-> Replaced(z, Unescapes[k].old, Unescapes[k].new)]]
<1>3. ASSUME NEW k \in 1 .. 6, NEW z \in Text
      PROVE  Replaced(z, Unescapes[k].old, Unescapes[k].new) \in Text
  <2>1. PICK x, b, slash, old, new :
          x = o[k] /\ b = Letter(x) /\ slash = "\\" /\ old = <<slash, b>> /\ new = <<x>>
    OBVIOUS
  <2>2. x \in Escaped /\ b \in Symbols
    BY <1>1, <2>1, LetterFacts DEF UnescapesInOrder, IsOrder
  <2>3. Unescapes[k].old = old /\ Unescapes[k].new = new
    BY <1>1, <2>1 DEF UnescapesInOrder
  <2>4. UnescapesOne(x, b, slash, old, new)
    BY <2>1, <2>2, UnescapeSteps
  <2>5. QED
    BY <2>3, <2>4 DEF UnescapesOne
<1>4. \A k \in 1 .. 6, z \in Text : step[k][z] = Replaced(z, Unescapes[k].old, Unescapes[k].new)
  OBVIOUS
<1> HIDE DEF step
<1>5. PICK f : GoesThrough(f, 6, Text, w, step)
  BY <1>3, <1>4, FoldExists
<1>6. f[0] = w /\ \A k \in 0 .. 6 : f[k] \in Text
  BY <1>5 DEF GoesThrough
<1>7. PassesOver(f, Unescapes)
  <2>1. ASSUME NEW k \in 1 .. 6 PROVE f[k] = Replaced(f[k - 1], Unescapes[k].old, Unescapes[k].new)
    <3>1. k - 1 \in 0 .. 6
      OBVIOUS
    <3>2. f[k - 1] \in Text
      BY <1>6, <3>1
    <3>3. f[k] = step[k][f[k - 1]]
      BY <1>5 DEF GoesThrough
    <3>4. QED
      BY <1>4, <3>2, <3>3
  <2>2. QED
    BY <1>2, <2>1 DEF PassesOver
<1>8. AllReplaced(w, Unescapes) = f[6]
  <2>1. Len(Unescapes) \in Nat
    BY <1>2
  <2>2. AllReplaced(w, Unescapes) = f[Len(Unescapes)]
    BY <1>6, <1>7, <2>1, AllReplacedIs
  <2>3. QED
    BY <1>2, <2>2
<1>9. QED
  BY <1>6, <1>7, <1>8 DEF UnescapeTagValue

(***************************************************************************)
(* Unescaping undoes escaping exactly where nothing is ambiguous: the      *)
(* first pass that finds a letter of the value after a backslash takes it  *)
(* away, and no pass brings it back.                                       *)
(***************************************************************************)
LEMMA UnescapeEscaped ==
  ASSUME NEW v \in Text
  PROVE  UnescapeTagValue(EscapeTagValue(v)) = v <=> ~Ambiguous(v)
<1>1. PICK o : UnescapesInOrder(o)
  BY UnescapeOrder
<1>2. IsOrder(o) /\ Len(Unescapes) = 6
  BY <1>1 DEF UnescapesInOrder
<1> DEFINE D(k) == Escaped \ UpTo(o, k)
           w == Coded(Escaped, v)
<1>3. w \in Text /\ EscapeTagValue(v) = w
  BY CodedFacts, EscapeIs
<1>4. PICK f : /\ f[0] = w /\ PassesOver(f, Unescapes) /\ \A k \in 0 .. 6 : f[k] \in Text
               /\ UnescapeTagValue(w) = f[6]
  BY <1>3, UnescapePasses
<1>5. ASSUME NEW k \in 1 .. 6
      PROVE  /\ f[k] = Replaced(f[k - 1], <<"\\", Letter(o[k])>>, <<o[k]>>)
             /\ o[k] \in D(k - 1) /\ D(k) = D(k - 1) \ {o[k]} /\ D(k - 1) \subseteq Escaped
             /\ o[k] \in Escaped /\ f[k - 1] \in Text
  <2>1. f[k] = Replaced(f[k - 1], Unescapes[k].old, Unescapes[k].new)
    BY <1>2, <1>4 DEF PassesOver
  <2>2. k - 1 \in 0 .. 6
    OBVIOUS
  <2>3. Unescapes[k].old = <<"\\", Letter(o[k])>> /\ Unescapes[k].new = <<o[k]>>
    BY <1>1 DEF UnescapesInOrder
  <2>4. /\ UpTo(o, k) = UpTo(o, k - 1) \cup {o[k]} /\ o[k] \notin UpTo(o, k - 1)
        /\ o[k] \in Escaped
    BY <1>2, UpToFacts
  <2>5. o[k] \in D(k - 1) /\ D(k) = D(k - 1) \ {o[k]} /\ D(k - 1) \subseteq Escaped
    BY <2>4
  <2>6. f[k - 1] \in Text
    BY <1>4, <2>2
  <2>7. QED
    BY <2>1, <2>3, <2>4, <2>5, <2>6
<1>6. D(0) = Escaped /\ D(6) = {}
  BY <1>2, UpToFacts
<1> HIDE DEF D
<1> DEFINE Clear(k) == \A i \in 1 .. k : o[i] = "\\" \/ ~Spells(v, Letter(o[i]))
<1>7. ASSUME NEW k \in 0 .. 6, Clear(k) PROVE f[k] = Coded(D(k), v)
  <2> DEFINE U == {j \in Nat : j <= k => f[j] = Coded(D(j), v)}
  <2>1. 0 \in U
    BY <1>4, <1>6
  <2>2. ASSUME NEW j \in Nat, j \in U PROVE j + 1 \in U
    <3>1. SUFFICES ASSUME j + 1 <= k PROVE f[j + 1] = Coded(D(j + 1), v)
      OBVIOUS
    <3>2. PICK i, x : i = j + 1 /\ x = o[i]
      OBVIOUS
    <3>3. i \in 1 .. 6 /\ i \in 1 .. k /\ i - 1 = j /\ j <= k
      BY <3>1, <3>2
    <3>4. f[j] = Coded(D(j), v)
      BY <2>2, <3>3
    <3>5. /\ f[i] = Replaced(f[j], <<"\\", Letter(x)>>, <<x>>)
          /\ x \in D(j) /\ D(i) = D(j) \ {x} /\ D(j) \subseteq Escaped
      BY <1>5, <3>2, <3>3
    <3>6. x = "\\" \/ ~Spells(v, Letter(x))
      BY <1>7, <3>2, <3>3
    <3>7. Replaced(Coded(D(j), v), <<"\\", Letter(x)>>, <<x>>) = Coded(D(j) \ {x}, v)
      BY <3>5, <3>6, UnescapePass
    <3>8. QED
      BY <3>2, <3>4, <3>5, <3>7
  <2>3. Nat \subseteq U
    <3> HIDE DEF U
    <3>1. QED
      BY <2>1, <2>2, SetInduction
  <2>4. QED
    BY <2>3
<1>8. ASSUME ~Ambiguous(v) PROVE f[6] = v
  <2>1. \A x \in Escaped : x = "\\" \/ ~Spells(v, Letter(x))
    BY <1>8, AmbiguousIs
  <2>2. Clear(6)
    BY <1>5, <2>1
  <2>3. f[6] = Coded(D(6), v)
    BY <1>7, <2>2
  <2>4. QED
    BY <1>6, <2>3, CodedNone
<1>9. ASSUME Ambiguous(v) PROVE f[6] # v
  <2> DEFINE I == {k \in 1 .. 6 : o[k] # "\\" /\ Spells(v, Letter(o[k]))}
  <2>1. I # {}
    <3>1. PICK x \in Escaped \ {"\\"} : Spells(v, Letter(x))
      BY <1>9, AmbiguousIs
    <3>2. PICK k \in 1 .. 6 : o[k] = x
      BY <1>2, <3>1 DEF IsOrder
    <3>3. QED
      BY <3>1, <3>2
  <2>2. PICK k : k \in I /\ \A j \in I : k <= j
    <3>1. I \subseteq Nat
      OBVIOUS
    <3> HIDE DEF I
    <3>2. QED
      BY <2>1, <3>1, Least
  <2>3. k \in 1 .. 6 /\ o[k] # "\\" /\ Spells(v, Letter(o[k])) /\ k - 1 \in 0 .. 6
    BY <2>2
  <2>4. Clear(k - 1)
    <3>1. ASSUME NEW i \in 1 .. k - 1 PROVE i \in 1 .. 6 /\ i < k
      BY <2>3
    <3>2. QED
      BY <2>2, <3>1
  <2>5. PICK x, b, E : x = o[k] /\ b = Letter(x) /\ E = D(k - 1)
    OBVIOUS
  <2>6. f[k - 1] = Coded(E, v)
    BY <1>7, <2>3, <2>4, <2>5
  <2>7. f[k] = Replaced(f[k - 1], <<"\\", b>>, <<x>>) /\ x \in E /\ E \subseteq Escaped /\ x \in Escaped
    BY <1>5, <2>3, <2>5
  <2>8. b \in Symbols /\ b \notin Escaped
    BY <2>3, <2>5, <2>7, LetterFacts
  <2> DEFINE N(z) == Count(z, {b})
  <2>9. N(f[k]) < N(v)
    <3>1. PICK old, new : old = <<"\\", b>> /\ new = <<x>>
      OBVIOUS
    <3>2. Loses(E, v, b, old, new)
      BY <2>3, <2>5, <2>7, <3>1, UnescapeLoses
    <3>3. QED
      BY <2>3, <2>5, <2>6, <2>7, <3>1, <3>2 DEF Loses
  <2>10. ASSUME NEW i \in 1 .. 6 PROVE N(f[i]) <= N(f[i - 1])
    <3>1. PICK y, c, slash, old, new :
            y = o[i] /\ c = Letter(y) /\ slash = "\\" /\ old = <<slash, c>> /\ new = <<y>>
      OBVIOUS
    <3>2. f[i] = Replaced(f[i - 1], old, new) /\ y \in Escaped /\ f[i - 1] \in Text
      BY <1>5, <3>1
    <3>3. c \in Symbols /\ y \notin {b}
      BY <2>8, <3>1, <3>2, LetterFacts
    <3>4. Count(Replaced(f[i - 1], old, new), {b}) <= Count(f[i - 1], {b})
      <4>1. PICK K, u : K = {b} /\ u = f[i - 1]
        OBVIOUS
      <4>2. y \notin K /\ u \in Text
        BY <3>2, <3>3, <4>1
      <4>3. Count(Replaced(u, old, new), K) <= Count(u, K)
        BY <3>1, <3>2, <3>3, <4>2, UnescapeAddsNone
      <4>4. QED
        BY <4>1, <4>3
    <3>5. QED
      BY <3>2, <3>4
  <2>11. \A i \in 0 .. 6 : N(f[i]) \in Nat
    BY <1>4, PlacesFinite DEF Text
  <2>12. N(v) \in Nat
    BY PlacesFinite DEF Text
  <2> HIDE DEF N
  <2>13. ASSUME NEW i \in k .. 6 PROVE N(f[i]) < N(v)
    <3> DEFINE U == {j \in Nat : k + j <= 6 => N(f[k + j]) < N(v)}
    <3>1. 0 \in U
      BY <2>3, <2>9
    <3>2. ASSUME NEW j \in Nat, j \in U PROVE j + 1 \in U
      <4>1. SUFFICES ASSUME k + (j + 1) <= 6 PROVE N(f[k + (j + 1)]) < N(v)
        OBVIOUS
      <4>2. PICK n : n = k + (j + 1)
        OBVIOUS
      <4>3. n \in 1 .. 6 /\ n - 1 = k + j /\ k + j <= 6 /\ n \in 0 .. 6 /\ n - 1 \in 0 .. 6
        BY <2>3, <4>1, <4>2
      <4>4. N(f[n - 1]) < N(v) /\ N(f[n]) <= N(f[n - 1])
        BY <2>10, <3>2, <4>3
      <4>5. N(f[n]) \in Nat /\ N(f[n - 1]) \in Nat
        BY <2>11, <4>3
      <4>6. QED
        BY <2>12, <4>2, <4>4, <4>5
    <3>3. Nat \subseteq U
      <4> HIDE DEF U
      <4>1. QED
        BY <3>1, <3>2, SetInduction
    <3>4. i - k \in Nat /\ k + (i - k) = i /\ i <= 6
      BY <2>3
    <3>5. i - k \in U
      BY <3>3, <3>4
    <3>6. QED
      BY <3>4, <3>5
  <2>14. N(f[6]) < N(v)
    BY <2>3, <2>13
  <2>15. QED
    BY <2>12, <2>14
<1>10. QED
  BY <1>3, <1>4, <1>8, <1>9
-----------------------------------------------------------------------------
(* Parts that are joined.                                                  *)

\* Two texts with a symbol between them.
Glue(s, sym, t) == s \o <<sym>> \o t

LEMMA GlueFacts ==
  ASSUME NEW S, NEW sym \in S, NEW s \in Seq(S), NEW t \in Seq(S)
  PROVE  /\ Glue(s, sym, t) \in Seq(S)
         /\ Glue(s, sym, t) = Cat(s, Pre(sym, t))
         /\ Split(Glue(s, sym, t), sym) = Cat(Split(s, sym), Split(t, sym))
         /\ \A c : Without(Glue(s, sym, t), c) <=> Without(s, c) /\ c # sym /\ Without(t, c)
<1>1. PICK one : one = <<sym>>
  OBVIOUS
<1>2. one \in Seq(S) /\ Len(one) = 1 /\ one[1] = sym
  BY <1>1
<1>3. Cat(Cat(s, one), t) = Cat(s, Cat(one, t)) /\ Cat(s, one) \in Seq(S) /\ Cat(one, t) \in Seq(S)
  BY <1>2, CatFacts
<1>4. Glue(s, sym, t) = Cat(Cat(s, one), t) /\ Pre(sym, t) = Cat(one, t)
  BY <1>1 DEF Glue, Pre, Cat
<1>5. Cat(Cat(s, one), t) \in Seq(S)
  BY <1>3, CatFacts
<1>6. Split(Glue(s, sym, t), sym) = Cat(Split(s, sym), Split(t, sym))
  BY SplitConcat DEF Glue, Cat
<1>7. ASSUME NEW c PROVE Without(Glue(s, sym, t), c) <=> Without(s, c) /\ c # sym /\ Without(t, c)
  <2>1. PICK p : p = Cat(s, one)
    OBVIOUS
  <2>2. p \in Seq(S) /\ Glue(s, sym, t) = p \o t /\ p = s \o one
    BY <1>3, <1>4, <2>1 DEF Cat
  <2>3. Without(p \o t, c) <=> Without(p, c) /\ Without(t, c)
    BY <2>2, WithoutFacts
  <2>4. Without(s \o one, c) <=> Without(s, c) /\ Without(one, c)
    BY <1>2, WithoutFacts
  <2>5. Without(one, c) <=> c # sym
    BY <1>2 DEF Without
  <2>6. QED
    BY <2>2, <2>3, <2>4, <2>5
<1>8. QED
  BY <1>3, <1>4, <1>5, <1>6, <1>7

\* Joining with one symbol.
Joins(S, sym) ==
  /\ \A parts \in Seq(Seq(S)) : Join(parts, <<sym>>) \in Seq(S)
  /\ \A part \in Seq(S) : Join(<<part>>, <<sym>>) = part
  /\ \A parts \in Seq(Seq(S)), part \in Seq(S) :
       parts # <<>> => Join(Add(parts, part), <<sym>>) = Glue(Join(parts, <<sym>>), sym, part)
  /\ \A p \in Seq(Seq(S)), q \in Seq(Seq(S)) :
       p # <<>> /\ q # <<>> =>
         Join(Cat(p, q), <<sym>>) = Glue(Join(p, <<sym>>), sym, Join(q, <<sym>>))

LEMMA JoinsWith ==
  ASSUME NEW S, NEW sym \in S
  PROVE  Joins(S, sym)
<1>1. PICK sep : sep = <<sym>>
  OBVIOUS
<1>2. sep \in Seq(S)
  BY <1>1
<1>3. /\ \A parts \in Seq(Seq(S)) : Join(parts, sep) \in Seq(S)
      /\ \A parts \in Seq(Seq(S)), part \in Seq(S) :
           Join(Append(parts, part), sep) =
             IF parts = <<>> THEN part ELSE Join(parts, sep) \o sep \o part
  BY <1>2, JoinFacts
<1>4. ASSUME NEW part \in Seq(S) PROVE Join(<<part>>, sep) = part
  BY <1>2, JoinSingle
<1>5. ASSUME NEW parts \in Seq(Seq(S)), NEW part \in Seq(S), parts # <<>>
      PROVE  Join(Add(parts, part), sep) = Glue(Join(parts, sep), sym, part)
  BY <1>1, <1>3, <1>5 DEF Add, Glue
<1>6. ASSUME NEW p \in Seq(Seq(S)), NEW q \in Seq(Seq(S)), p # <<>>, q # <<>>
      PROVE  Join(Cat(p, q), sep) = Glue(Join(p, sep), sym, Join(q, sep))
  <2>1. Join(p \o q, sep) = Join(p, sep) \o sep \o Join(q, sep)
    BY <1>2, <1>6, JoinConcat
  <2>2. QED
    BY <1>1, <2>1 DEF Cat, Glue
<1>7. QED
  BY <1>1, <1>3, <1>4, <1>5, <1>6 DEF Joins

\* What holds of one part, and after each that is added, holds of all.
LEMMA PartsInduction ==
  ASSUME NEW S, NEW T, \A part \in S : <<part>> \in T,
         \A parts \in Seq(S), part \in S : parts # <<>> /\ parts \in T => Add(parts, part) \in T
  PROVE  \A parts \in Seq(S) : parts # <<>> => parts \in T
<1> DEFINE U == {p \in Seq(S) : p # <<>> => p \in T}
<1>1. <<>> \in U
  OBVIOUS
<1>2. ASSUME NEW s \in Seq(S), NEW x \in S, s \in U PROVE Append(s, x) \in U
  <2>1. Append(s, x) \in Seq(S)
    OBVIOUS
  <2>2. CASE s = <<>>
    <3>1. Append(s, x) = <<x>>
      BY <2>2
    <3>2. QED
      BY <2>1, <3>1
  <2>3. CASE s # <<>>
    <3>1. Add(s, x) \in T
      BY <1>2, <2>3
    <3>2. QED
      BY <2>1, <3>1 DEF Add
  <2>4. QED
    BY <2>2, <2>3
<1>3. Seq(S) \subseteq U
  <2> HIDE DEF U
  <2>1. QED
    BY <1>1, <1>2, AppendInduction
<1>4. QED
  BY <1>3

LEMMA PartsIn ==
  ASSUME NEW S, NEW V, NEW parts \in Seq(S), \A i \in 1 .. Len(parts) : parts[i] \in V
  PROVE  parts \in Seq(V)
<1>1. Len(parts) \in Nat /\ parts = [i \in 1 .. Len(parts) |-> parts[i]]
  OBVIOUS
<1>2. QED
  BY <1>1

LEMMA SplitJoined ==
  ASSUME NEW S, NEW sym \in S, NEW parts \in Seq(Seq(S)), parts # <<>>,
         \A i \in 1 .. Len(parts) : Without(parts[i], sym)
  PROVE  Split(Join(parts, <<sym>>), sym) = parts
<1>1. PICK sep, V, W : sep = <<sym>> /\ V = Seq(S) /\ W = {t \in V : Without(t, sym)}
  OBVIOUS
<1> DEFINE J(p) == Join(p, sep)
           T == {p \in Seq(W) : Split(J(p), sym) = p}
<1>2. \A w \in W : w \in Seq(S) /\ Split(w, sym) = <<w>>
  BY <1>1, SplitWhole
<1>3. /\ \A p \in Seq(V) : J(p) \in V
      /\ \A part \in V : J(<<part>>) = part
      /\ \A p \in Seq(V), part \in V : p # <<>> => J(Add(p, part)) = Glue(J(p), sym, part)
  <2>1. Joins(S, sym)
    BY JoinsWith
  <2>2. QED
    BY <1>1, <2>1 DEF Joins
<1> HIDE DEF J
<1>4. Seq(W) \subseteq Seq(V)
  BY <1>1, SeqMonotonic
<1>5. ASSUME NEW w \in W PROVE <<w>> \in T
  <2>1. J(<<w>>) = w /\ <<w>> \in Seq(W)
    BY <1>1, <1>3, <1>5
  <2>2. QED
    BY <1>2, <2>1
<1>6. ASSUME NEW p \in Seq(W), NEW w \in W, p # <<>>, p \in T PROVE Add(p, w) \in T
  <2>1. J(Add(p, w)) = Glue(J(p), sym, w) /\ J(p) \in Seq(S) /\ w \in Seq(S)
    BY <1>1, <1>3, <1>4, <1>6
  <2>2. Split(Glue(J(p), sym, w), sym) = Cat(Split(J(p), sym), Split(w, sym))
    BY <2>1, GlueFacts
  <2>3. Split(J(p), sym) = p /\ Split(w, sym) = <<w>>
    BY <1>2, <1>6
  <2>4. Cat(p, <<w>>) = Add(p, w)
    BY DEF Cat, Add
  <2>5. Add(p, w) \in Seq(W)
    BY DEF Add
  <2>6. QED
    BY <2>1, <2>2, <2>3, <2>4, <2>5
<1>7. parts \in Seq(W)
  <2>1. \A i \in 1 .. Len(parts) : parts[i] \in W
    BY <1>1
  <2>2. QED
    BY <2>1, PartsIn
<1>8. \A p \in Seq(W) : p # <<>> => p \in T
  <2> HIDE DEF T
  <2>1. QED
    BY <1>5, <1>6, PartsInduction
<1>9. QED
  BY <1>1, <1>7, <1>8 DEF J

LEMMA JoinWithout ==
  ASSUME NEW S, NEW sym \in S, NEW parts \in Seq(Seq(S)), parts # <<>>, NEW c, c # sym,
         \A i \in 1 .. Len(parts) : Without(parts[i], c)
  PROVE  Without(Join(parts, <<sym>>), c)
<1>1. PICK sep, V, W : sep = <<sym>> /\ V = Seq(S) /\ W = {t \in V : Without(t, c)}
  OBVIOUS
<1> DEFINE J(p) == Join(p, sep)
           T == {p \in Seq(W) : Without(J(p), c)}
<1>3. /\ \A p \in Seq(V) : J(p) \in V
      /\ \A part \in V : J(<<part>>) = part
      /\ \A p \in Seq(V), part \in V : p # <<>> => J(Add(p, part)) = Glue(J(p), sym, part)
  <2>1. Joins(S, sym)
    BY JoinsWith
  <2>2. QED
    BY <1>1, <2>1 DEF Joins
<1> HIDE DEF J
<1>4. Seq(W) \subseteq Seq(V)
  BY <1>1, SeqMonotonic
<1>5. ASSUME NEW w \in W PROVE <<w>> \in T
  <2>1. J(<<w>>) = w /\ <<w>> \in Seq(W) /\ Without(w, c)
    BY <1>1, <1>3, <1>5
  <2>2. QED
    BY <2>1
<1>6. ASSUME NEW p \in Seq(W), NEW w \in W, p # <<>>, p \in T PROVE Add(p, w) \in T
  <2>1. J(Add(p, w)) = Glue(J(p), sym, w) /\ J(p) \in Seq(S) /\ w \in Seq(S)
    BY <1>1, <1>3, <1>4, <1>6
  <2>2. Without(Glue(J(p), sym, w), c)
    BY <1>1, <1>6, <2>1, GlueFacts
  <2>3. Add(p, w) \in Seq(W)
    BY DEF Add
  <2>4. QED
    BY <2>1, <2>2, <2>3
<1>7. parts \in Seq(W)
  <2>1. \A i \in 1 .. Len(parts) : parts[i] \in W
    BY <1>1
  <2>2. QED
    BY <2>1, PartsIn
<1>8. \A p \in Seq(W) : p # <<>> => p \in T
  <2> HIDE DEF T
  <2>1. QED
    BY <1>5, <1>6, PartsInduction
<1>9. QED
  BY <1>1, <1>7, <1>8 DEF J

LEMMA NonEmptyWhole ==
  ASSUME NEW S, NEW parts \in Seq(S), \A i \in 1 .. Len(parts) : parts[i] # Empty
  PROVE  NonEmpty(parts) = parts
<1>1. PICK W : W = S \ {Empty}
  OBVIOUS
<1> DEFINE T == {p \in Seq(W) : NonEmpty(p) = p}
<1>2. <<>> \in T
  BY NonEmptyFacts
<1>3. ASSUME NEW p \in Seq(W), NEW w \in W, p \in T PROVE Append(p, w) \in T
  <2>1. NonEmpty(Append(p, w)) = KeepOn(NonEmpty(p), w)
    BY NonEmptyFacts
  <2>2. KeepOn(p, w) = Append(p, w)
    BY <1>1 DEF KeepOn
  <2>3. QED
    BY <1>3, <2>1, <2>2
<1>4. parts \in Seq(W)
  <2>1. \A i \in 1 .. Len(parts) : parts[i] \in W
    BY <1>1
  <2>2. QED
    BY <2>1, PartsIn
<1>5. Seq(W) \subseteq T
  <2> HIDE DEF T
  <2>1. QED
    BY <1>2, <1>3, AppendInduction
<1>6. QED
  BY <1>4, <1>5
-----------------------------------------------------------------------------
(* Tags.                                                                   *)

Semi == ";"

LEMMA PreText ==
  ASSUME NEW c \in Symbols, NEW t \in Text, NEW s, s = Pre(c, t)
  PROVE  /\ s \in Text /\ s # Empty /\ Head(s) = c /\ Tail(s) = t
         /\ \A d : Without(s, d) <=> d # c /\ Without(t, d)
<1>1. PICK one : one = <<c>>
  OBVIOUS
<1>2. one \in Text /\ s = one \o t
  BY <1>1 DEF Text, Pre
<1>3. s \in Text /\ s # Empty /\ Head(s) = c /\ Tail(s) = t
  <2>1. t \in Seq(Symbols)
    BY DEF Text
  <2>2. s \in Seq(Symbols) /\ s # Empty
    BY <2>1, PreFacts
  <2>3. Head(s) = c
    BY <2>1, PreFacts
  <2>4. Tail(s) = t
    <3>1. \A d \in Symbols, u \in Seq(Symbols) : Tail(Pre(d, u)) = u
      BY PreFacts
    <3>2. Tail(Pre(c, t)) = t
      BY <2>1, <3>1
    <3>3. QED
      BY <3>2
  <2>5. QED
    BY <2>2, <2>3, <2>4 DEF Text
<1>4. ASSUME NEW d PROVE Without(s, d) <=> d # c /\ Without(t, d)
  <2>1. Without(one \o t, d) <=> Without(one, d) /\ Without(t, d)
    BY <1>2, WithoutFacts DEF Text
  <2>2. Without(one, d) <=> d # c
    BY <1>1 DEF Without
  <2>3. QED
    BY <1>2, <2>1, <2>2
<1>5. QED
  BY <1>3, <1>4

LEMMA GlueCut ==
  ASSUME NEW S, NEW sym \in S, NEW s \in Seq(S), NEW t \in Seq(S), Without(s, sym),
         NEW text, text = Glue(s, sym, t)
  PROVE  Index(text, sym) = Len(s) + 1 /\ Before(text, sym) = s /\ After(text, sym) = t
<1>1. PICK n, k, one, p : n = Len(s) /\ k = n + 1 /\ one = <<sym>> /\ p = s \o one
  OBVIOUS
<1>2. n \in Nat /\ k \in Nat /\ one \in Seq(S) /\ Len(one) = 1 /\ one[1] = sym /\ Len(t) \in Nat
  BY <1>1, LenProperties
<1>3. p \in Seq(S) /\ Len(p) = k /\ \A i \in 1 .. k : p[i] = IF i <= n THEN s[i] ELSE one[i - n]
  BY <1>1, <1>2, ConcatProperties
<1>4. /\ text \in Seq(S) /\ Len(text) = k + Len(t)
      /\ \A i \in 1 .. k + Len(t) : text[i] = IF i <= k THEN p[i] ELSE t[i - k]
  BY <1>1, <1>3, ConcatProperties DEF Glue
<1>5. \A i \in 1 .. n : text[i] = s[i]
  <2>1. ASSUME NEW i \in 1 .. n PROVE text[i] = s[i]
    <3>1. i \in 1 .. k /\ i \in 1 .. k + Len(t) /\ i <= k /\ i <= n
      BY <1>1, <1>2
    <3>2. text[i] = p[i]
      BY <1>4, <3>1
    <3>3. p[i] = s[i]
      BY <1>3, <3>1
    <3>4. QED
      BY <3>2, <3>3
  <2>2. QED
    BY <2>1
<1>6. text[k] = sym
  <2>1. k \in 1 .. k /\ k \in 1 .. k + Len(t) /\ k <= k /\ ~(k <= n) /\ k - n = 1
    BY <1>1, <1>2
  <2>2. text[k] = p[k]
    BY <1>4, <2>1
  <2>3. p[k] = one[k - n]
    BY <1>3, <2>1
  <2>4. QED
    BY <1>2, <2>1, <2>2, <2>3
<1>7. \A i \in 1 .. Len(t) : text[k + i] = t[i]
  <2>1. ASSUME NEW i \in 1 .. Len(t) PROVE text[k + i] = t[i]
    <3>1. PICK j : j = k + i
      OBVIOUS
    <3>2. j \in 1 .. k + Len(t) /\ ~(j <= k) /\ j - k = i
      BY <1>2, <3>1
    <3>3. text[j] = t[j - k]
      BY <1>4, <3>2
    <3>4. QED
      BY <3>1, <3>2, <3>3
  <2>2. QED
    BY <2>1
<1>8. Index(text, sym) = k
  <2>1. k \in 1 .. Len(text) /\ \A i \in 1 .. k - 1 : text[i] # sym
    BY <1>1, <1>2, <1>4, <1>5 DEF Without
  <2>2. QED
    BY <1>4, <1>6, <2>1, IndexIs
<1>9. Before(text, sym) = s
  <2>1. PICK sub : sub = SubSeq(text, 1, n)
    OBVIOUS
  <2>2. \A i \in 1 .. n : text[i] \in S
    BY <1>1, <1>5, ElementOfSeq
  <2>3. sub \in Seq(S) /\ Len(sub) = n /\ \A i \in 1 .. n : sub[i] = text[i]
    <3>1. /\ sub \in Seq(S) /\ Len(sub) = IF 1 <= n THEN n - 1 + 1 ELSE 0
          /\ \A i \in 1 .. n - 1 + 1 : sub[i] = text[1 + i - 1]
      BY <1>2, <2>1, <2>2, SubSeqProperties
    <3>2. QED
      BY <1>2, <3>1
  <2>4. sub = s
    BY <1>1, <1>5, <2>3, SeqEqual
  <2>5. k - 1 = n
    BY <1>1, <1>2
  <2>6. QED
    BY <1>8, <2>1, <2>4, <2>5 DEF Before
<1>10. After(text, sym) = t
  <2>1. PICK sub, l : sub = SubSeq(text, k + 1, Len(text)) /\ l = Len(t)
    OBVIOUS
  <2>2. \A i \in k + 1 .. Len(text) : text[i] \in S
    <3>1. \A i \in k + 1 .. Len(text) : i \in 1 .. Len(text)
      BY <1>2, <1>4
    <3>2. QED
      BY <1>4, <3>1, ElementOfSeq
  <2>3. sub \in Seq(S) /\ Len(sub) = l /\ \A i \in 1 .. l : sub[i] = text[k + i]
    <3>1. PICK a, z : a = k + 1 /\ z = Len(text)
      OBVIOUS
    <3>2. /\ sub \in Seq(S) /\ Len(sub) = IF a <= z THEN z - a + 1 ELSE 0
          /\ \A i \in 1 .. z - a + 1 : sub[i] = text[a + i - 1]
      BY <1>2, <1>4, <2>1, <2>2, <3>1, SubSeqProperties
    <3>3. z - a + 1 = l /\ \A i \in Nat : a + i - 1 = k + i
      BY <1>2, <1>4, <2>1, <3>1
    <3>4. l \in Nat
      BY <1>2, <2>1
    <3>5. ASSUME NEW i \in 1 .. l PROVE sub[i] = text[k + i]
      <4>1. i \in Nat /\ i \in 1 .. z - a + 1
        BY <3>3, <3>4
      <4>2. sub[i] = text[a + i - 1]
        BY <3>2, <4>1
      <4>3. a + i - 1 = k + i
        BY <3>3, <4>1
      <4>4. QED
        BY <4>2, <4>3
    <3>6. QED
      BY <1>2, <1>4, <2>1, <3>1, <3>2, <3>5
  <2>4. sub = t
    BY <1>7, <2>1, <2>3, SeqEqual
  <2>5. QED
    BY <1>8, <2>1, <2>4 DEF After
<1>11. QED
  BY <1>1, <1>8, <1>9, <1>10

\* Of what it escapes an escaped value has backslashes only.
LEMMA CodedWithout ==
  ASSUME NEW sym \in Escaped, sym # "\\", NEW v \in Text
  PROVE  Without(Coded(Escaped, v), sym)
<1> DEFINE T == {t \in Text : Without(Coded(Escaped, t), sym)}
<1>0. \A c \in Symbols, t \in Text : Without(Pre(c, t), sym) <=> c # sym /\ Without(t, sym)
  BY PreText
<1>1. Empty \in T
  BY CodedFacts DEF Text, Empty, Without
<1>2. ASSUME NEW t \in Text, NEW c \in Symbols, t \in T PROVE Pre(c, t) \in T
  <2>1. PICK w : w = Coded(Escaped, t)
    OBVIOUS
  <2>2. w \in Text /\ Without(w, sym) /\ Coded(Escaped, Pre(c, t)) = CodedPre(Escaped, c, w)
    BY <1>2, <2>1, CodedFacts, CodedOf
  <2>3. Without(CodedPre(Escaped, c, w), sym)
    <3>1. CASE c \in Escaped
      <4>1. PICK slash, l : slash = "\\" /\ l = Letter(c)
        OBVIOUS
      <4>2. slash \in Symbols /\ l \in Symbols /\ l # sym /\ slash # sym
        BY <3>1, <4>1, LetterFacts, SpecialSymbols
      <4>3. Pre(l, w) \in Text /\ Without(Pre(l, w), sym)
        BY <1>0, <2>2, <4>2, PreFacts DEF Text
      <4>4. Without(Pre(slash, Pre(l, w)), sym)
        BY <1>0, <4>2, <4>3
      <4>5. QED
        BY <3>1, <4>1, <4>4 DEF CodedPre
    <3>2. CASE c \notin Escaped
      BY <1>0, <2>2, <3>2 DEF CodedPre
    <3>3. QED
      BY <3>1, <3>2
  <2>4. Pre(c, t) \in Text
    BY PreFacts DEF Text
  <2>5. QED
    BY <2>2, <2>3, <2>4
<1>3. Text \subseteq T
  <2> HIDE DEF T
  <2>1. QED
    BY <1>1, <1>2, PreInduction DEF Text
<1>4. QED
  BY <1>3

\* The names of tags, and a tag as it is written and read.
TagKeys == Seq(Symbols \ (Blanks \cup {Semi, "="})) \ {Empty}

Pair(key, v) == IF v = Empty THEN key ELSE Glue(key, "=", EscapeTagValue(v))
ReadBack(v) == IF v = Empty THEN Empty ELSE UnescapeTagValue(EscapeTagValue(v))

LEMMA PairFacts ==
  ASSUME NEW key \in TagKeys, NEW v \in Text, NEW pair, pair = Pair(key, v)
  PROVE  /\ pair \in Text /\ pair # Empty /\ Without(pair, Semi) /\ Without(pair, Space)
         /\ Key(pair) = key /\ Value(pair) = ReadBack(v)
<1>1. PICK eq, e, semi : eq = "=" /\ e = EscapeTagValue(v) /\ semi = Semi
  OBVIOUS
<1>2. key \in Text /\ key # Empty /\ Without(key, eq) /\ Without(key, semi) /\ Without(key, Space)
  <2>1. PICK X : X = Symbols \ (Blanks \cup {semi, eq})
    OBVIOUS
  <2>2. key \in Seq(X) /\ key # Empty /\ X \subseteq Symbols /\ eq \notin X /\ semi \notin X /\ Space \notin X
    BY <1>1, <2>1 DEF TagKeys, Blanks
  <2>3. key \in Text
    BY <2>2, SeqMonotonic DEF Text
  <2>4. \A i \in 1 .. Len(key) : key[i] \in X
    BY <2>2, ElementOfSeq
  <2>5. QED
    BY <2>2, <2>3, <2>4 DEF Without
<1>3. eq # semi /\ eq # Space /\ eq \in Symbols /\ semi \in Escaped /\ Space \in Escaped /\ semi # "\\" /\ Space # "\\"
  <2>1. eq \in Symbols
    BY <1>1, SpecialSymbols
  <2>2. semi \in Escaped /\ semi # "\\" /\ eq # semi
    BY <1>1 DEF Semi, Escaped
  <2>3. Space \in Escaped /\ Space # "\\" /\ eq # Space
    BY <1>1 DEF Escaped, Space
  <2>4. QED
    BY <2>1, <2>2, <2>3
<1>4. e \in Text /\ Without(e, semi) /\ Without(e, Space)
  BY <1>1, <1>3, EscapeIs, CodedFacts, CodedWithout
<1>5. CASE v = Empty
  <2>1. pair = key
    BY <1>5 DEF Pair
  <2>2. Index(key, eq) = 0
    BY <1>2, IndexFacts DEF Without, Text
  <2>3. Key(pair) = key /\ Value(pair) = Empty
    BY <1>1, <2>1, <2>2 DEF Key, Value
  <2>4. QED
    BY <1>1, <1>2, <1>5, <2>1, <2>3 DEF ReadBack
<1>6. CASE v # Empty
  <2>1. pair = Glue(key, eq, e)
    BY <1>1, <1>6 DEF Pair
  <2>2. pair \in Text /\ (\A c : Without(pair, c) <=> Without(key, c) /\ c # eq /\ Without(e, c))
        /\ pair = Cat(key, Pre(eq, e))
    BY <1>2, <1>3, <1>4, <2>1, GlueFacts DEF Text
  <2>3. Index(pair, eq) = Len(key) + 1 /\ Before(pair, eq) = key /\ After(pair, eq) = e
    BY <1>2, <1>3, <1>4, <2>1, GlueCut DEF Text
  <2>4. Index(pair, eq) # 0 /\ pair # Empty
    <3>1. Len(key) \in Nat
      BY <1>2, LenProperties DEF Text
    <3>2. Len(key) + 1 # 0
      BY <3>1
    <3>3. Index(Empty, eq) = 0
      <4>1. Empty \in Text /\ Without(Empty, eq)
        BY DEF Text, Empty, Without
      <4>2. QED
        BY <4>1, IndexFacts DEF Without, Text
    <3>4. QED
      BY <2>3, <3>2, <3>3
  <2>5. Key(pair) = key /\ Value(pair) = UnescapeTagValue(e)
    BY <1>1, <2>3, <2>4 DEF Key, Value, Before, After
  <2>6. Without(pair, semi) /\ Without(pair, Space)
    BY <1>2, <1>3, <1>4, <2>2
  <2>7. QED
    BY <1>1, <1>6, <2>2, <2>4, <2>5, <2>6 DEF ReadBack
<1>7. QED
  BY <1>5, <1>6

\* The tags of a message as they are written, in the order of keys.
Written(tags, keys) == [i \in DOMAIN keys |-> Pair(keys[i], tags[keys[i]])]

LEMMA KeysFacts ==
  ASSUME NEW m \in Messages, m.tags # Empty, NEW keys \in SetToSeqs(DOMAIN m.tags)
  PROVE  /\ keys \in Seq(TagKeys) /\ keys # <<>> /\ DOMAIN keys = 1 .. Len(keys)
         /\ DOMAIN m.tags \subseteq TagKeys
         /\ \A i \in 1 .. Len(keys) : keys[i] \in DOMAIN m.tags /\ m.tags[keys[i]] \in Text
         /\ \A i \in 1 .. Len(keys), j \in 1 .. Len(keys) : keys[i] = keys[j] => i = j
         /\ \A key \in DOMAIN m.tags : \E i \in 1 .. Len(keys) : keys[i] = key
<1>1. PICK K, n, D : K = DOMAIN m.tags /\ n = Cardinality(K) /\ D = 1 .. n
  OBVIOUS
<1>2. IsFiniteSet(K) /\ K \subseteq TagKeys /\ m.tags \in [K -> Text]
  <2>1. Seq(Symbols \ (Blanks \cup {";", "="})) \ {Empty} = TagKeys
    <3>1. {";", "="} = {Semi, "="}
      BY DEF Semi
    <3>2. QED
      BY <3>1 DEF TagKeys
  <2>2. QED
    BY <1>1, <2>1, SendableFacts
<1>3. n \in Nat
  BY <1>1, <1>2, FS_CardinalityType
<1>4. keys \in [D -> K] /\ \A i \in D, j \in D : i # j => keys[i] # keys[j]
  BY <1>1 DEF SetToSeqs
<1>5. keys \in Seq(TagKeys) /\ Len(keys) = n /\ DOMAIN keys = D
  <2>1. keys \in [1 .. n -> TagKeys]
    BY <1>1, <1>2, <1>4
  <2>2. QED
    BY <1>1, <1>3, <2>1, LenProperties
<1>6. K # {}
  <2>1. ASSUME K = {} PROVE FALSE
    <3>1. m.tags = [x \in {} |-> Empty]
      BY <1>2, <2>1
    <3>2. Empty = [x \in {} |-> Empty]
      BY DEF Empty
    <3>3. QED
      BY <3>1, <3>2
  <2>2. QED
    BY <2>1
<1>7. n # 0
  BY <1>1, <1>2, <1>6, FS_EmptySet
<1>8. \A key \in K : \E i \in D : keys[i] = key
  <2>1. keys \in Injection(D, K)
    BY <1>4 DEF Injection, IsInjective
  <2>2. Cardinality(D) = n
    <3>1. 1 \in Int /\ n \in Int /\ ~(1 > n) /\ n - 1 + 1 = n
      BY <1>3, <1>7
    <3>2. Cardinality(1 .. n) = n
      BY <3>1, FS_Interval
    <3>3. QED
      BY <1>1, <3>2
  <2>3. keys \in Surjection(D, K)
    BY <1>1, <1>2, <2>1, <2>2, FS_Injection
  <2>4. QED
    BY <2>3 DEF Surjection
<1>9. keys # <<>>
  BY <1>3, <1>5, <1>7
<1>10. QED
  BY <1>1, <1>2, <1>4, <1>5, <1>8, <1>9

LEMMA WrittenFacts ==
  ASSUME NEW m \in Messages, m.tags # Empty, NEW keys \in SetToSeqs(DOMAIN m.tags),
         NEW parts, parts = Written(m.tags, keys)
  PROVE  /\ parts \in Seq(Text) /\ parts # <<>> /\ Len(parts) = Len(keys)
         /\ \A i \in 1 .. Len(parts) :
              /\ parts[i] # Empty /\ Without(parts[i], Semi) /\ Without(parts[i], Space)
              /\ Key(parts[i]) = keys[i] /\ Value(parts[i]) = ReadBack(m.tags[keys[i]])
<1>1. PICK n : n = Len(keys)
  OBVIOUS
<1>2. /\ keys \in Seq(TagKeys) /\ keys # <<>> /\ DOMAIN keys = 1 .. n
      /\ \A i \in 1 .. n : keys[i] \in DOMAIN m.tags /\ m.tags[keys[i]] \in Text
  BY <1>1, KeysFacts
<1>3. n \in Nat /\ n # 0
  BY <1>1, <1>2, LenProperties, EmptySeq
<1>4. parts = [i \in 1 .. n |-> Pair(keys[i], m.tags[keys[i]])]
  BY <1>2 DEF Written
<1>5. ASSUME NEW i \in 1 .. n
      PROVE  /\ parts[i] \in Text /\ parts[i] # Empty
             /\ Without(parts[i], Semi) /\ Without(parts[i], Space)
             /\ Key(parts[i]) = keys[i] /\ Value(parts[i]) = ReadBack(m.tags[keys[i]])
  <2>1. PICK key, v, part : key = keys[i] /\ v = m.tags[keys[i]] /\ part = parts[i]
    OBVIOUS
  <2>2. key \in TagKeys /\ v \in Text
    BY <1>1, <1>2, <2>1, ElementOfSeq
  <2>3. part = Pair(key, v)
    BY <1>4, <2>1
  <2>4. /\ part \in Text /\ part # Empty /\ Without(part, Semi) /\ Without(part, Space)
        /\ Key(part) = key /\ Value(part) = ReadBack(v)
    BY <2>2, <2>3, PairFacts
  <2>5. QED
    BY <2>1, <2>4
<1>6. parts \in Seq(Text) /\ Len(parts) = n /\ parts # <<>>
  <2>1. parts \in [1 .. n -> Text]
    BY <1>4, <1>5
  <2>2. QED
    BY <1>3, <2>1, LenProperties
<1>7. QED
  BY <1>1, <1>5, <1>6

LEMMA TagsRead ==
  ASSUME NEW m \in Messages, m.tags # Empty, NEW keys \in SetToSeqs(DOMAIN m.tags),
         NEW text, text = Join(Written(m.tags, keys), <<Semi>>)
  PROVE  /\ text \in Text /\ Without(text, Space) /\ TagsReadable(text)
         /\ ParseTags(text) = [key \in DOMAIN m.tags |-> ReadBack(m.tags[key])]
<1>1. PICK parts, semi, n : parts = Written(m.tags, keys) /\ semi = Semi /\ n = Len(keys)
  OBVIOUS
<1>2. semi \in Symbols /\ semi # Space
  BY <1>1, SpecialSymbols DEF Semi, Space
<1>3. /\ parts \in Seq(Text) /\ parts # <<>> /\ Len(parts) = n
      /\ \A i \in 1 .. n :
           /\ parts[i] # Empty /\ Without(parts[i], semi) /\ Without(parts[i], Space)
           /\ Key(parts[i]) = keys[i] /\ Value(parts[i]) = ReadBack(m.tags[keys[i]])
  BY <1>1, WrittenFacts
<1>4. text \in Text
  <2>1. Joins(Symbols, semi)
    BY <1>2, JoinsWith
  <2>2. QED
    BY <1>1, <1>3, <2>1 DEF Joins, Text
<1>5. Without(text, Space)
  <2>1. Without(Join(parts, <<semi>>), Space)
    BY <1>2, <1>3, JoinWithout DEF Text
  <2>2. QED
    BY <1>1, <2>1
<1>6. Pairs(text) = parts
  <2>1. Split(Join(parts, <<semi>>), semi) = parts
    BY <1>2, <1>3, SplitJoined DEF Text
  <2>2. NonEmpty(parts) = parts
    BY <1>3, NonEmptyWhole
  <2>3. Pairs(text) = NonEmpty(Split(text, semi))
    BY <1>1 DEF Pairs, Semi
  <2>4. QED
    BY <1>1, <2>1, <2>2, <2>3
<1>7. DOMAIN parts = 1 .. n
  BY <1>3
<1>8. TagsReadable(text)
  <2>1. ASSUME NEW i \in 1 .. n PROVE Key(parts[i]) # Empty
    <3>1. keys[i] \in TagKeys
      BY <1>1, KeysFacts, ElementOfSeq
    <3>2. keys[i] # Empty
      BY <3>1 DEF TagKeys
    <3>3. QED
      BY <1>3, <3>2
  <2>2. QED
    BY <1>6, <1>7, <2>1 DEF TagsReadable
<1>9. ParseTags(text) = [key \in DOMAIN m.tags |-> ReadBack(m.tags[key])]
  <2>1. ParseTags(text) =
          [key \in {Key(parts[i]) : i \in 1 .. n} |->
             Value(parts[Max({i \in 1 .. n : Key(parts[i]) = key})])]
    BY <1>6, <1>7 DEF ParseTags
  <2>2. {Key(parts[i]) : i \in 1 .. n} = DOMAIN m.tags
    <3>1. /\ \A i \in 1 .. n : keys[i] \in DOMAIN m.tags
          /\ \A key \in DOMAIN m.tags : \E i \in 1 .. n : keys[i] = key
      <4>1. \A i \in 1 .. n : keys[i] \in DOMAIN m.tags
        BY <1>1, KeysFacts
      <4>2. \A key \in DOMAIN m.tags : \E i \in 1 .. n : keys[i] = key
        BY <1>1, KeysFacts
      <4>3. QED
        BY <4>1, <4>2
    <3>2. \A i \in 1 .. n : Key(parts[i]) = keys[i]
      BY <1>3
    <3>3. {Key(parts[i]) : i \in 1 .. n} = {keys[i] : i \in 1 .. n}
      BY <3>2
    <3>4. {keys[i] : i \in 1 .. n} = DOMAIN m.tags
      BY <3>1
    <3>5. QED
      BY <3>3, <3>4
  <2>3. ASSUME NEW key \in DOMAIN m.tags
        PROVE  Value(parts[Max({i \in 1 .. n : Key(parts[i]) = key})]) = ReadBack(m.tags[key])
    <3>1. /\ \E i \in 1 .. n : keys[i] = key
          /\ \A i \in 1 .. n, j \in 1 .. n : keys[i] = keys[j] => i = j
      BY <1>1, KeysFacts
    <3>2. PICK i \in 1 .. n : keys[i] = key
      BY <3>1
    <3>3. PICK I : I = {j \in 1 .. n : Key(parts[j]) = key}
      OBVIOUS
    <3>4. I = {i}
      BY <1>3, <3>1, <3>2, <3>3
    <3>5. Max({i}) = i
      BY DEF Max
    <3>6. Value(parts[Max(I)]) = Value(parts[i])
      BY <3>4, <3>5
    <3>7. QED
      BY <1>3, <3>2, <3>3, <3>6
  <2>4. QED
    BY <2>1, <2>2, <2>3
<1>10. QED
  BY <1>4, <1>5, <1>8, <1>9
-----------------------------------------------------------------------------
(* Blanks around a line.                                                   *)

OnlyBlanks(text) == \A i \in 1 .. Len(text) : text[i] \in Blanks
EndsWell(text) == text # Empty /\ Last(text) \notin Blanks

LEMMA TrimIs ==
  ASSUME NEW p \in Text, NEW q \in Text, NEW text, text = Cat(p, q),
         EndsWell(p), Head(p) \notin Blanks, OnlyBlanks(q)
  PROVE  TrimSpace(text) = p
<1>1. PICK n, l : n = Len(p) /\ l = Len(q)
  OBVIOUS
<1>2. /\ n \in Nat /\ l \in Nat /\ n >= 1 /\ p[1] = Head(p) /\ p[n] = Last(p)
  <2>1. p # <<>> /\ p \in Seq(Symbols)
    BY DEF EndsWell, Empty, Text
  <2>2. Len(p) \in Nat /\ Len(p) # 0 /\ Len(q) \in Nat
    BY <2>1, LenProperties, EmptySeq DEF Text
  <2>3. p[1] = Head(p)
    BY <2>1, HeadAndTail
  <2>4. QED
    BY <1>1, <2>2, <2>3 DEF Last
<1>3. /\ text \in Seq(Symbols) /\ Len(text) = n + l /\ DOMAIN text = 1 .. n + l
      /\ \A i \in 1 .. n + l : text[i] = IF i <= n THEN p[i] ELSE q[i - n]
  <2>1. /\ text \in Seq(Symbols) /\ Len(text) = n + l
        /\ \A i \in 1 .. n + l : text[i] = IF i <= n THEN p[i] ELSE q[i - n]
    BY <1>1, ConcatProperties DEF Cat, Text
  <2>2. QED
    BY <2>1, LenProperties
<1>4. \A i \in 1 .. n : i \in 1 .. n + l /\ text[i] = p[i]
  <2>1. ASSUME NEW i \in 1 .. n PROVE i \in 1 .. n + l /\ text[i] = p[i]
    <3>1. i \in 1 .. n + l /\ i <= n
      BY <1>2
    <3>2. QED
      BY <1>3, <3>1
  <2>2. QED
    BY <2>1
<1>5. PICK kept : kept = {i \in DOMAIN text : text[i] \notin Blanks}
  OBVIOUS
<1>6. 1 \in kept /\ n \in kept
  <2>1. 1 \in 1 .. n /\ n \in 1 .. n
    BY <1>2
  <2>2. text[1] = Head(p) /\ text[n] = Last(p) /\ 1 \in 1 .. n + l /\ n \in 1 .. n + l
    BY <1>2, <1>4, <2>1
  <2>3. QED
    BY <1>3, <1>5, <2>2 DEF EndsWell
<1>7. \A i \in kept : i \in Nat /\ 1 <= i /\ i <= n
  <2>1. ASSUME NEW i \in kept PROVE i \in Nat /\ 1 <= i /\ i <= n
    <3>1. i \in 1 .. n + l /\ text[i] \notin Blanks
      BY <1>3, <1>5
    <3>2. ASSUME ~(i <= n) PROVE FALSE
      <4>1. PICK j : j = i - n
        OBVIOUS
      <4>2. j \in 1 .. l
        BY <1>2, <3>1, <3>2, <4>1
      <4>3. text[i] = q[j]
        BY <1>3, <3>1, <3>2, <4>1
      <4>4. QED
        BY <1>1, <3>1, <4>2, <4>3 DEF OnlyBlanks
    <3>3. QED
      BY <1>2, <3>1, <3>2
  <2>2. QED
    BY <2>1
<1>8. Min(kept) = 1
  <2>1. \A x \in kept : (\A y \in kept : x <= y) => x = 1
    BY <1>6, <1>7
  <2>2. \A y \in kept : 1 <= y
    BY <1>7
  <2>3. QED
    BY <1>6, <2>1, <2>2 DEF Min
<1>9. Max(kept) = n
  <2>1. \A x \in kept : (\A y \in kept : x >= y) => x = n
    BY <1>2, <1>6, <1>7
  <2>2. \A y \in kept : n >= y
    BY <1>2, <1>7
  <2>3. QED
    BY <1>6, <2>1, <2>2 DEF Max
<1>10. PICK sub : sub = SubSeq(text, 1, n)
  OBVIOUS
<1>11. sub \in Seq(Symbols) /\ Len(sub) = n /\ \A i \in 1 .. n : sub[i] = text[i]
  <2>1. \A i \in 1 .. n : text[i] \in Symbols
    BY <1>3, <1>4, ElementOfSeq
  <2>2. /\ sub \in Seq(Symbols) /\ Len(sub) = IF 1 <= n THEN n - 1 + 1 ELSE 0
        /\ \A i \in 1 .. n - 1 + 1 : sub[i] = text[1 + i - 1]
    BY <1>2, <1>10, <2>1, SubSeqProperties
  <2>3. QED
    BY <1>2, <2>2
<1>12. sub = p
  BY <1>1, <1>4, <1>11, SeqEqual DEF Text
<1>13. TrimSpace(text) = sub
  <2>1. kept # {}
    BY <1>6
  <2>2. TrimSpace(text) = SubSeq(text, Min(kept), Max(kept))
    BY <1>5, <2>1 DEF TrimSpace
  <2>3. QED
    BY <1>8, <1>9, <1>10, <2>2
<1>14. QED
  BY <1>12, <1>13

LEMMA TrimExists ==
  ASSUME NEW text \in Text
  PROVE  \E p \in Text, q \in Text : text = Cat(p, q) /\ OnlyBlanks(q) /\ (p = Empty \/ EndsWell(p))
<1> DEFINE P(t, p, q) == t = Cat(p, q) /\ OnlyBlanks(q) /\ (p = Empty \/ EndsWell(p))
           T == {t \in Text : \E p \in Text, q \in Text : P(t, p, q)}
<1>0. Empty \in Text /\ OnlyBlanks(Empty) /\ \A t \in Text : Cat(t, Empty) = t
  BY CatFacts DEF OnlyBlanks, Text, Empty
<1>1. Empty \in T
  BY <1>0
<1>2. ASSUME NEW t \in Text, NEW c \in Symbols, t \in T PROVE Add(t, c) \in T
  <2>1. PICK p \in Text, q \in Text : P(t, p, q)
    BY <1>2
  <2>2. PICK u, r : u = Add(t, c) /\ r = Add(q, c)
    OBVIOUS
  <2>3. u \in Text /\ r \in Text /\ u = Cat(p, r)
    BY <2>1, <2>2, CatFacts DEF Text
  <2>4. CASE c \in Blanks
    <3>1. Len(r) = Len(q) + 1 /\ r[Len(q) + 1] = c /\ \A i \in 1 .. Len(q) : r[i] = q[i]
      BY <2>2, AppendProperties DEF Add, Text
    <3>2. Len(q) \in Nat
      BY LenProperties DEF Text
    <3>3. ASSUME NEW i \in 1 .. Len(r) PROVE r[i] \in Blanks
      <4>1. i = Len(q) + 1 \/ i \in 1 .. Len(q)
        BY <3>1, <3>2
      <4>2. QED
        BY <2>1, <2>4, <3>1, <4>1 DEF OnlyBlanks
    <3>4. P(u, p, r)
      BY <2>1, <2>3, <3>3 DEF OnlyBlanks
    <3>5. QED
      BY <2>2, <2>3, <3>4
  <2>5. CASE c \notin Blanks
    <3>1. EndsWell(u)
      <4>1. Len(u) = Len(t) + 1 /\ u[Len(t) + 1] = c /\ u # Empty
        BY <2>2, AppendProperties DEF Add, Text, Empty
      <4>2. QED
        BY <2>5, <4>1 DEF EndsWell, Last
    <3>2. P(u, u, Empty)
      BY <1>0, <2>3, <3>1
    <3>3. QED
      BY <1>0, <2>2, <2>3, <3>2
  <2>6. QED
    BY <2>4, <2>5
<1>3. Text \subseteq T
  <2>1. \A t \in Seq(Symbols), c \in Symbols : t \in T => Append(t, c) \in T
    BY <1>2 DEF Add, Text
  <2> HIDE DEF T
  <2>2. QED
    BY <1>1, <2>1, AppendInduction DEF Text, Empty
<1>4. QED
  BY <1>3

LEMMA LastOf ==
  ASSUME NEW a \in Text, NEW b \in Text, b # Empty, NEW u, u = Cat(a, b)
  PROVE  u # Empty /\ Last(u) = Last(b)
<1>1. PICK n, l, k : n = Len(a) /\ l = Len(b) /\ k = n + l
  OBVIOUS
<1>2. b # <<>> /\ b \in Seq(Symbols) /\ a \in Seq(Symbols)
  BY DEF Empty, Text
<1>3. n \in Nat /\ l \in Nat /\ l # 0
  BY <1>1, <1>2, LenProperties, EmptySeq
<1>4. Len(u) = k /\ \A i \in 1 .. k : u[i] = IF i <= n THEN a[i] ELSE b[i - n]
  BY <1>1, <1>2, ConcatProperties DEF Cat
<1>5. k \in 1 .. k /\ ~(k <= n) /\ k - n = l /\ k # 0
  BY <1>1, <1>3
<1>6. u[k] = b[k - n]
  BY <1>4, <1>5
<1>7. u # Empty
  BY <1>4, <1>5 DEF Empty
<1>8. QED
  BY <1>1, <1>4, <1>5, <1>6, <1>7 DEF Last

LEMMA EndsOf ==
  ASSUME NEW s \in Text, NEW c \in Symbols, NEW t \in Text, NEW q \in Text
  PROVE  /\ EndsWell(t) => EndsWell(Cat(s, t)) /\ EndsWell(Glue(s, c, t))
         /\ Cat(Glue(s, c, t), q) = Glue(s, c, Cat(t, q))
         /\ s # Empty => Head(Cat(s, t)) = Head(s) /\ Head(Glue(s, c, t)) = Head(s)
         /\ Cat(s, t) \in Text /\ Glue(s, c, t) \in Text /\ Glue(s, c, t) # Empty
<1>1. ASSUME NEW a \in Text, NEW b \in Text, EndsWell(b) PROVE EndsWell(Cat(a, b))
  BY <1>1, LastOf DEF EndsWell
<1>2. PICK g, r, w : g = Glue(s, c, t) /\ r = Pre(c, t) /\ w = Cat(t, q)
  OBVIOUS
<1>3. r \in Text /\ g \in Text /\ g = Cat(s, r) /\ Cat(s, t) \in Text /\ w \in Text
  BY <1>2, PreFacts, GlueFacts, CatFacts DEF Text
<1>4. ASSUME EndsWell(t) PROVE EndsWell(Cat(s, t)) /\ EndsWell(g)
  <2>1. PICK one : one = <<c>>
    OBVIOUS
  <2>2. r = Cat(one, t) /\ one \in Text
    BY <1>2, <2>1 DEF Pre, Cat, Text
  <2>3. EndsWell(r)
    BY <1>1, <1>4, <2>2
  <2>4. QED
    BY <1>1, <1>3, <1>4, <2>3
<1>5. Cat(g, q) = Glue(s, c, w)
  <2>1. Cat(Cat(s, r), q) = Cat(s, Cat(r, q))
    BY <1>3, CatFacts DEF Text
  <2>2. Cat(r, q) = Pre(c, w)
    BY <1>2, PreFacts DEF Text
  <2>3. Glue(s, c, w) = Cat(s, Pre(c, w))
    BY <1>3, GlueFacts DEF Text
  <2>4. QED
    BY <1>3, <2>1, <2>2, <2>3
<1>6. ASSUME s # Empty, NEW a \in Text PROVE Head(Cat(s, a)) = Head(s)
  <2>1. PICK h, rest : h = Head(s) /\ rest = Tail(s)
    OBVIOUS
  <2>2. h \in Symbols /\ rest \in Text /\ s = Pre(h, rest)
    BY <1>6, <2>1, PreFacts DEF Text
  <2>3. Cat(s, a) = Pre(h, Cat(rest, a)) /\ Cat(rest, a) \in Text
    BY <2>2, PreFacts, CatFacts DEF Text
  <2>4. PICK x : x = Cat(rest, a)
    OBVIOUS
  <2>5. Head(Pre(h, x)) = h
    BY <2>2, <2>3, <2>4, PreText
  <2>6. QED
    BY <2>1, <2>3, <2>4, <2>5
<1>7. g # Empty
  <2>1. Len(s) \in Nat /\ Len(r) \in Nat /\ Len(r) = Len(t) + 1 /\ Len(t) \in Nat
    BY <1>2, <1>3, PreFacts, LenProperties DEF Text
  <2>2. Len(g) = Len(s) + Len(r)
    BY <1>3, ConcatProperties DEF Cat, Text
  <2>3. Len(g) # 0
    BY <2>1, <2>2
  <2>4. QED
    BY <2>3 DEF Empty
<1>8. QED
  BY <1>2, <1>3, <1>4, <1>5, <1>6, <1>7

LEMMA SuffixSame ==
  ASSUME NEW raw \in Text, EndsWell(raw)
  PROVE  TrimSuffix(raw) = raw
<1>1. PICK n : n = Len(raw)
  OBVIOUS
<1>2. ASSUME n >= 2, SubSeq(raw, n - 1, n) = <<"\r", "\n">> PROVE FALSE
  <2>1. PICK sub, lf : sub = SubSeq(raw, n - 1, n) /\ lf = "\n"
    OBVIOUS
  <2>2. n \in Nat /\ \A i \in n - 1 .. n : raw[i] \in Symbols
    <3>1. n \in Nat
      BY <1>1, LenProperties DEF Text
    <3>2. \A i \in n - 1 .. n : i \in 1 .. n
      BY <1>2, <3>1
    <3>3. QED
      BY <1>1, <3>1, <3>2, ElementOfSeq DEF Text
  <2>3. \A i \in 1 .. n - (n - 1) + 1 : sub[i] = raw[n - 1 + i - 1]
    <3>1. n - 1 \in Int /\ n \in Int
      BY <2>2
    <3>2. QED
      BY <2>1, <2>2, <3>1, SubSeqProperties
  <2>4. 2 \in 1 .. n - (n - 1) + 1 /\ n - 1 + 2 - 1 = n
    BY <2>2
  <2>5. sub[2] = raw[n]
    BY <2>3, <2>4
  <2>6. sub[2] = lf
    <3>1. PICK two : two = <<"\r", "\n">>
      OBVIOUS
    <3>2. two[2] = lf
      BY <2>1, <3>1
    <3>3. QED
      BY <1>2, <2>1, <3>1, <3>2
  <2>7. raw[n] \notin Blanks
    BY <1>1 DEF EndsWell, Last
  <2>8. lf \in Blanks
    BY <2>1 DEF Blanks
  <2>9. QED
    BY <2>5, <2>6, <2>7, <2>8
<1>3. QED
  BY <1>1, <1>2 DEF TrimSuffix
-----------------------------------------------------------------------------
(* Lines.                                                                  *)

LEMMA GlueText ==
  ASSUME NEW s \in Text, s # Empty, NEW c \in Symbols, NEW t \in Text, NEW g, g = Glue(s, c, t)
  PROVE  g \in Text /\ g # Empty /\ Head(g) = Head(s) /\ (EndsWell(t) => EndsWell(g))
<1>1. g \in Text /\ g # Empty
  BY EndsOf
<1>2. EndsWell(t) => EndsWell(g)
  BY EndsOf
<1>3. Head(g) = Head(s)
  BY EndsOf
<1>4. QED
  BY <1>1, <1>2, <1>3

\* A line without its tags, and with them; rest is what comes after the source.
SourcedAs(source, rest) == IF source = Empty THEN rest ELSE Glue(Pre(":", source), Space, rest)
TaggedAs(m, tags, text) == IF m.tags = Empty THEN text ELSE Glue(Pre("@", tags), Space, text)

\* What ParseMessage takes for the source of a line without tags, and for the rest.
SourceOf(text) == IF StartsWith(text, ":") THEN Tail(Before(text, Space)) ELSE Empty
RestOf(text) == IF StartsWith(text, ":") THEN After(text, Space) ELSE text

\* What a command starts with.
WordSymbols == Symbols \ (Blanks \cup {":", "@"})

LEMMA SourcedFacts ==
  ASSUME NEW source \in Text, NEW rest \in Text, rest # Empty, Head(rest) \in WordSymbols,
         NEW text, text = SourcedAs(source, rest)
  PROVE  /\ text \in Text /\ text # Empty /\ Head(text) \notin Blanks /\ ~StartsWith(text, "@")
         /\ StartsWith(text, ":") => Index(text, Space) # 0
         /\ RestOf(text) # Empty /\ RestOf(text) \in Text
         /\ Without(source, Space) => SourceOf(text) = source /\ RestOf(text) = rest
         /\ ~Without(source, Space) => SourceOf(text) # source
<1>1. PICK colon, at : colon = ":" /\ at = "@"
  OBVIOUS
<1>2. colon \in Symbols /\ Space \in Symbols /\ colon # Space /\ colon # at /\ colon \notin Blanks
      /\ Head(rest) \notin Blanks /\ Head(rest) # colon /\ Head(rest) # at
  <2>1. colon \in Symbols /\ Space \in Symbols
    BY <1>1, SpecialSymbols
  <2>2. colon # Space /\ colon # at /\ colon \notin Blanks
    BY <1>1 DEF Blanks, Space
  <2>3. QED
    BY <1>1, <2>1, <2>2 DEF WordSymbols
<1>3. CASE source = Empty
  <2>1. text = rest
    BY <1>3 DEF SourcedAs
  <2>2. ~StartsWith(text, colon) /\ ~StartsWith(text, at)
    BY <1>2, <2>1 DEF StartsWith
  <2>3. SourceOf(text) = Empty /\ RestOf(text) = rest
    BY <1>1, <2>1, <2>2 DEF SourceOf, RestOf
  <2>4. Without(source, Space)
    BY <1>3 DEF Without, Empty
  <2>5. QED
    BY <1>1, <1>2, <1>3, <2>1, <2>2, <2>3, <2>4
<1>4. CASE source # Empty
  <2>1. PICK s : s = Pre(colon, source)
    OBVIOUS
  <2>2. s \in Text /\ s # Empty /\ Head(s) = colon /\ Tail(s) = source
    BY <1>2, <2>1, PreText
  <2>3. text = Glue(s, Space, rest)
    BY <1>1, <1>4, <2>1 DEF SourcedAs
  <2>4. text \in Text /\ text # Empty /\ Head(text) = colon
    BY <1>2, <2>2, <2>3, GlueText
  <2>5. StartsWith(text, colon) /\ ~StartsWith(text, at)
    BY <1>2, <2>4 DEF StartsWith
  <2>6. SourceOf(text) = Tail(Before(text, Space)) /\ RestOf(text) = After(text, Space)
    BY <1>1, <2>5 DEF SourceOf, RestOf
  <2>7. Without(s, Space) <=> Without(source, Space)
    BY <1>2, <2>1, PreText
  <2>8. CASE Without(source, Space)
    <3>1. Index(text, Space) = Len(s) + 1 /\ Before(text, Space) = s /\ After(text, Space) = rest
      BY <1>2, <2>2, <2>3, <2>7, <2>8, GlueCut DEF Text
    <3>2. Len(s) \in Nat
      BY <2>2, LenProperties DEF Text
    <3>3. Index(text, Space) # 0
      BY <3>1, <3>2
    <3>4. QED
      BY <1>1, <1>2, <2>2, <2>4, <2>5, <2>6, <2>8, <3>1, <3>3
  <2>9. CASE ~Without(source, Space)
    <3>1. IsCut(s, Space, Symbols)
      BY <1>2, <2>2, SplitCut DEF Text
    <3>2. Index(s, Space) # 0
      BY <2>7, <2>9, <3>1 DEF IsCut
    <3>3. PICK b, a : b = Before(s, Space) /\ a = After(s, Space)
      OBVIOUS
    <3>4. b \in Text /\ a \in Text /\ Without(b, Space) /\ s = Glue(b, Space, a)
      BY <3>1, <3>2, <3>3 DEF IsCut, Text, Glue
    <3>5. PICK r : r = Glue(a, Space, rest)
      OBVIOUS
    <3>6. r \in Text /\ r # Empty
      BY <1>2, <3>4, <3>5, EndsOf
    <3>7. text = Glue(b, Space, r)
      <4>1. PICK q : q = Pre(Space, rest)
        OBVIOUS
      <4>2. q \in Text
        BY <1>2, <4>1, PreFacts DEF Text
      <4>3. text = Cat(s, q) /\ r = Cat(a, q)
        BY <1>2, <2>2, <2>3, <3>4, <3>5, <4>1, GlueFacts DEF Text
      <4>4. Cat(Glue(b, Space, a), q) = Glue(b, Space, Cat(a, q))
        BY <1>2, <3>4, <4>2, EndsOf
      <4>5. QED
        BY <3>4, <4>3, <4>4
    <3>8. Index(text, Space) = Len(b) + 1 /\ Before(text, Space) = b /\ After(text, Space) = r
      BY <1>2, <3>4, <3>6, <3>7, GlueCut DEF Text
    <3>9. Index(text, Space) # 0
      <4>1. Len(b) \in Nat
        BY <3>4, LenProperties DEF Text
      <4>2. QED
        BY <3>8, <4>1
    <3>10. b # Empty => Without(Tail(b), Space)
      <4>1. ASSUME b # Empty PROVE Without(Tail(b), Space)
        <5>1. PICK h, u : h = Head(b) /\ u = Tail(b)
          OBVIOUS
        <5>2. h \in Symbols /\ u \in Text /\ b = Pre(h, u)
          BY <3>4, <4>1, <5>1, PreFacts DEF Text
        <5>3. Without(u, Space)
          BY <3>4, <5>2, PreText
        <5>4. QED
          BY <5>1, <5>3
      <4>2. QED
        BY <4>1
    <3>11. b # Empty
      <4>1. ASSUME b = Empty PROVE FALSE
        <5>1. PICK q : q = Pre(Space, a)
          OBVIOUS
        <5>2. q \in Text /\ Head(q) = Space
          BY <1>2, <3>4, <5>1, PreText
        <5>3. s = Cat(b, q)
          BY <1>2, <3>4, <5>1, GlueFacts DEF Text
        <5>4. Cat(<<>>, q) = q
          BY <5>2, CatFacts DEF Text
        <5>5. s = q
          BY <4>1, <5>3, <5>4 DEF Empty
        <5>6. QED
          BY <1>2, <2>2, <5>2, <5>5
      <4>2. QED
        BY <4>1
    <3>12. SourceOf(text) # source
      BY <2>6, <2>9, <3>8, <3>10, <3>11
    <3>13. QED
      BY <1>1, <1>2, <2>4, <2>5, <2>6, <2>9, <3>6, <3>8, <3>9, <3>12
  <2>10. QED
    BY <2>8, <2>9
<1>5. QED
  BY <1>3, <1>4

\* What ParseMessage makes of a line whose parts are these.
ParsedAs(m, tags, text) ==
  [tags |-> IF m.tags = Empty THEN Empty ELSE ParseTags(tags),
   source |-> SourceOf(text),
   command |-> ToUpper(Head(Split(RestOf(text), Space))),
   params |-> ParamsOf(Tail(Split(RestOf(text), Space)))]

LEMMA LineParsed ==
  ASSUME NEW m \in Messages, NEW tags \in Text, Without(tags, Space),
         m.tags = Empty \/ TagsReadable(tags),
         NEW text \in Text, text # Empty, ~StartsWith(text, "@"), EndsWell(text),
         StartsWith(text, ":") => Index(text, Space) # 0, RestOf(text) # Empty,
         NEW raw, raw = TaggedAs(m, tags, text)
  PROVE  ParseMessage(raw) = ParsedAs(m, tags, text)
<1>1. PICK colon, at : colon = ":" /\ at = "@"
  OBVIOUS
<1>2. Space \in Symbols /\ at \in Symbols /\ at # Space /\ CodecAssumption
  <2>1. at \in Special
    BY <1>1 DEF Special
  <2>2. at # Space
    BY <1>1 DEF Space
  <2>3. QED
    BY <2>1, <2>2, CodecAssumption, SpecialSymbols DEF CodecAssumption
<1>3. CASE m.tags = Empty
  <2>1. raw = text
    BY <1>3 DEF TaggedAs
  <2>2. TrimSuffix(raw) = text
    BY <2>1, SuffixSame
  <2>3. ParseMessage(raw) = ParsedAs(m, tags, text)
    BY <1>3, <2>2 DEF ParseMessage, ParsedAs, SourceOf, RestOf, Cut, Before, After
  <2>4. QED
    BY <2>3
<1>4. CASE m.tags # Empty
  <2>1. PICK s : s = Pre(at, tags)
    OBVIOUS
  <2>2. s \in Text /\ s # Empty /\ Head(s) = at /\ Tail(s) = tags
    BY <1>2, <2>1, PreText
  <2>3. raw = Glue(s, Space, text)
    BY <1>1, <1>4, <2>1 DEF TaggedAs
  <2>4. raw \in Text /\ raw # Empty /\ Head(raw) = at /\ EndsWell(raw)
    BY <1>2, <2>2, <2>3, GlueText
  <2>5. TrimSuffix(raw) = raw /\ StartsWith(raw, at)
    BY <2>4, SuffixSame DEF StartsWith
  <2>6. Without(s, Space)
    BY <1>2, <2>1, PreText
  <2>7. Index(raw, Space) = Len(s) + 1 /\ Before(raw, Space) = s /\ After(raw, Space) = text
    BY <1>2, <2>2, <2>3, <2>6, GlueCut DEF Text
  <2>8. Index(raw, Space) # 0
    <3>1. Len(s) \in Nat
      BY <2>2, LenProperties DEF Text
    <3>2. QED
      BY <2>7, <3>1
  <2>9. Cut(raw)[1] = s /\ Cut(raw)[2] = text
    BY <2>7 DEF Cut, Before, After
  <2>10. Cut(text)[1] = Before(text, Space) /\ Cut(text)[2] = After(text, Space)
    BY DEF Cut, Before, After
  <2>11. ParseMessage(raw) = ParsedAs(m, tags, text)
    BY <1>1, <1>4, <2>2, <2>5, <2>8, <2>9, <2>10 DEF ParseMessage, ParsedAs, SourceOf, RestOf
  <2>12. QED
    BY <2>11
<1>5. QED
  BY <1>3, <1>4

\* The parameters as String writes them, and the command with them.
Quoted(m) == [i \in DOMAIN m.params |->
                IF i = Len(m.params) /\ Trailing(m.params[i])
                THEN Pre(":", m.params[i]) ELSE m.params[i]]
Body(m) == Join(Pre(m.command, Quoted(m)), <<Space>>)

LEMMA MessageText ==
  ASSUME NEW m \in Messages
  PROVE  /\ m.source \in Text /\ m.params \in Seq(Text) /\ m.command \in Text
         /\ \E word \in WordSymbols : m.command = <<word>>
         /\ \A i \in 1 .. Len(m.params) : m.params[i] \in Text
<1>1. m.source \in Text /\ m.params \in Seq(Text)
  BY SendableFacts, TextFacts
<1>2. PICK word \in WordSymbols : m.command = <<word>>
  BY SendableFacts DEF WordSymbols
<1>3. m.command \in Text
  BY <1>2 DEF Text, WordSymbols
<1>4. QED
  BY <1>1, <1>2, <1>3, ElementOfSeq

LEMMA QuotedFacts ==
  ASSUME NEW m \in Messages
  PROVE  /\ Quoted(m) \in Seq(Text) /\ Len(Quoted(m)) = Len(m.params)
         /\ \A i \in 1 .. Len(m.params) :
              Quoted(m)[i] = IF i = Len(m.params) /\ Trailing(m.params[i])
                             THEN Pre(":", m.params[i]) ELSE m.params[i]
<1>1. PICK n, colon : n = Len(m.params) /\ colon = ":"
  OBVIOUS
<1>2. n \in Nat /\ DOMAIN m.params = 1 .. n /\ colon \in Symbols
  <2>1. m.params \in Seq(Text) /\ colon \in Symbols
    BY <1>1, MessageText, SpecialSymbols
  <2>2. QED
    BY <1>1, <2>1, LenProperties
<1>3. Quoted(m) = [i \in 1 .. n |-> IF i = n /\ Trailing(m.params[i])
                                    THEN Pre(colon, m.params[i]) ELSE m.params[i]]
  BY <1>1, <1>2 DEF Quoted
<1>4. \A i \in 1 .. n : m.params[i] \in Text /\ Pre(colon, m.params[i]) \in Text
  BY <1>1, <1>2, MessageText, PreFacts DEF Text
<1>5. Quoted(m) \in [1 .. n -> Text]
  BY <1>3, <1>4
<1>6. QED
  BY <1>1, <1>2, <1>3, <1>5, LenProperties

LEMMA BodyFacts ==
  ASSUME NEW m \in Messages, NEW body, body = Body(m)
  PROVE  /\ body \in Text /\ body # Empty /\ Head(body) \in WordSymbols
         /\ m.command = <<Head(body)>>
         /\ body = IF m.params = <<>> THEN m.command
                   ELSE Glue(m.command, Space, Join(Quoted(m), <<Space>>))
<1>1. PICK word \in WordSymbols : m.command = <<word>>
  BY MessageText
<1>2. PICK q, one, V : q = Quoted(m) /\ one = <<m.command>> /\ V = Seq(Symbols)
  OBVIOUS
<1>3. /\ q \in Seq(V) /\ one \in Seq(V) /\ one # <<>> /\ m.command \in V /\ Space \in Symbols
      /\ m.command # Empty /\ Head(m.command) = word /\ V = Text
      /\ (q = <<>> <=> m.params = <<>>)
  <2>1. q \in Seq(Text) /\ Len(q) = Len(m.params) /\ m.params \in Seq(Text) /\ m.command \in Text
    BY <1>2, QuotedFacts, MessageText
  <2>2. q = <<>> <=> m.params = <<>>
    BY <2>1, EmptySeq
  <2>3. m.command # Empty /\ Head(m.command) = word
    BY <1>1 DEF Empty
  <2>4. V = Text /\ Space \in Symbols
    BY <1>2, SpecialSymbols DEF Text
  <2>5. one \in Seq(Text) /\ one # <<>>
    BY <1>2, <2>1
  <2>6. QED
    BY <1>2, <2>1, <2>2, <2>3, <2>4, <2>5
<1>4. Joins(Symbols, Space)
  BY <1>3, JoinsWith
<1>5. body = Join(Cat(one, q), <<Space>>) /\ Join(one, <<Space>>) = m.command
  <2>1. body = Join(Cat(one, q), <<Space>>)
    BY <1>2 DEF Body, Pre, Cat
  <2>2. Join(one, <<Space>>) = m.command
    BY <1>2, <1>3, <1>4 DEF Joins
  <2>3. QED
    BY <2>1, <2>2
<1>6. CASE q = <<>>
  <2>1. Cat(one, <<>>) = one
    BY <1>3, CatFacts
  <2>2. body = m.command
    BY <1>5, <1>6, <2>1
  <2>3. QED
    BY <1>1, <1>3, <1>6, <2>2
<1>7. CASE q # <<>>
  <2>1. PICK j : j = Join(q, <<Space>>)
    OBVIOUS
  <2>2. j \in V
    BY <1>2, <1>3, <1>4, <2>1 DEF Joins
  <2>3. body = Glue(m.command, Space, j)
    <3>1. Join(Cat(one, q), <<Space>>) = Glue(Join(one, <<Space>>), Space, Join(q, <<Space>>))
      <4>1. \A a \in Seq(V), b \in Seq(V) : a # <<>> /\ b # <<>> =>
              Join(Cat(a, b), <<Space>>) = Glue(Join(a, <<Space>>), Space, Join(b, <<Space>>))
        BY <1>2, <1>4 DEF Joins
      <4>2. QED
        BY <1>3, <1>7, <4>1
    <3>2. QED
      BY <1>5, <2>1, <3>1
  <2>4. body \in Text /\ body # Empty /\ Head(body) = word
    BY <1>3, <2>2, <2>3, GlueText
  <2>5. QED
    BY <1>1, <1>2, <1>3, <1>7, <2>1, <2>3, <2>4
<1>8. QED
  BY <1>6, <1>7

LEMMA FormattedIs ==
  ASSUME NEW tags, NEW keys
  PROVE  FormattedTags(tags, keys) = Pre("@", Join(Written(tags, keys), <<Semi>>))
  BY Zenon DEF FormattedTags, Pre, Written, Pair, Glue, Semi

\* The parts of a line without its tags.
LineParts(m) == Cat(Cat(IF m.source = Empty THEN <<>> ELSE <<Pre(":", m.source)>>, <<m.command>>),
                    Quoted(m))

LEMMA StringOf ==
  ASSUME NEW m
  PROVE  String(m) = IF m.tags = Empty THEN {Join(LineParts(m), <<Space>>)}
                     ELSE {Join(Cat(<<FormattedTags(m.tags, keys)>>, LineParts(m)), <<Space>>) :
                             keys \in SetToSeqs(DOMAIN m.tags)}
  BY Zenon DEF String, LineParts, Cat, Pre, Quoted

LEMMA LinePartsFacts ==
  ASSUME NEW m \in Messages, NEW parts, parts = LineParts(m)
  PROVE  /\ parts \in Seq(Text) /\ parts # <<>>
         /\ Join(parts, <<Space>>) = SourcedAs(m.source, Body(m))
<1>1. PICK q, one, s, V, colon :
        /\ q = Quoted(m) /\ one = <<m.command>> /\ s = Pre(colon, m.source)
        /\ V = Seq(Symbols) /\ colon = ":"
  OBVIOUS
<1>2. /\ q \in Seq(V) /\ one \in Seq(V) /\ V = Text /\ Space \in Symbols /\ colon \in Symbols
      /\ m.source \in V
  <2>1. one \in Seq(Text) /\ m.source \in Text
    <3>1. m.command \in Text /\ m.source \in Text
      BY MessageText
    <3>2. QED
      BY <1>1, <3>1
  <2>2. q \in Seq(Text)
    BY <1>1, QuotedFacts
  <2>3. QED
    BY <1>1, <2>1, <2>2, SpecialSymbols DEF Text
<1>3. PICK b : b = Cat(one, q)
  OBVIOUS
<1>4. b \in Seq(V) /\ b # <<>> /\ Join(b, <<Space>>) = Body(m)
  <2>1. b \in Seq(V)
    BY <1>2, <1>3, CatFacts
  <2>2. Len(b) = Len(one) + Len(q) /\ Len(one) = 1 /\ Len(q) \in Nat
    BY <1>1, <1>2, <1>3, ConcatProperties, LenProperties DEF Cat
  <2>3. Len(b) # 0
    BY <2>2
  <2>4. QED
    BY <1>1, <1>3, <2>1, <2>3 DEF Body, Pre, Cat
<1>5. CASE m.source = Empty
  <2>1. parts = Cat(Cat(<<>>, one), q)
    BY <1>1, <1>5 DEF LineParts
  <2>2. Cat(<<>>, one) = one
    BY <1>2, CatFacts
  <2>3. QED
    BY <1>2, <1>3, <1>4, <1>5, <2>1, <2>2 DEF SourcedAs
<1>6. CASE m.source # Empty
  <2>1. PICK two : two = <<s>>
    OBVIOUS
  <2>2. parts = Cat(Cat(two, one), q)
    BY <1>1, <1>6, <2>1 DEF LineParts
  <2>3. s \in V
    BY <1>1, <1>2, PreFacts
  <2>4. two \in Seq(V) /\ two # <<>>
    BY <2>1, <2>3
  <2>5. parts = Cat(two, b)
    BY <1>2, <1>3, <2>2, <2>4, CatFacts
  <2>6. Joins(Symbols, Space)
    BY <1>2, JoinsWith
  <2>7. Join(two, <<Space>>) = s
    BY <1>1, <2>1, <2>3, <2>6 DEF Joins
  <2>8. Join(parts, <<Space>>) = Glue(s, Space, Body(m))
    <3>1. \A a \in Seq(V), c \in Seq(V) : a # <<>> /\ c # <<>> =>
            Join(Cat(a, c), <<Space>>) = Glue(Join(a, <<Space>>), Space, Join(c, <<Space>>))
      BY <1>1, <2>6 DEF Joins
    <3>2. Join(Cat(two, b), <<Space>>) = Glue(Join(two, <<Space>>), Space, Join(b, <<Space>>))
      BY <1>4, <2>4, <3>1
    <3>3. QED
      BY <1>4, <2>5, <2>7, <3>2
  <2>9. parts \in Seq(V)
    BY <1>4, <2>4, <2>5, CatFacts
  <2>10. parts # <<>>
    <3>1. Len(parts) = Len(two) + Len(b) /\ Len(two) = 1 /\ Len(b) \in Nat
      BY <1>4, <2>1, <2>4, <2>5, ConcatProperties, LenProperties DEF Cat
    <3>2. Len(parts) # 0
      BY <3>1
    <3>3. QED
      BY <3>2
  <2>11. QED
    BY <1>1, <1>2, <1>6, <2>8, <2>9, <2>10 DEF SourcedAs
<1>7. QED
  BY <1>5, <1>6

\* What comes back of a message's tags.
TagsBack(m) == IF m.tags = Empty THEN Empty ELSE [key \in DOMAIN m.tags |-> ReadBack(m.tags[key])]

LEMMA StringIs ==
  ASSUME NEW m \in Messages, NEW text \in String(m)
  PROVE  \E tags \in Text :
           /\ text = TaggedAs(m, tags, SourcedAs(m.source, Body(m)))
           /\ Without(tags, Space)
           /\ m.tags # Empty => TagsReadable(tags) /\ ParseTags(tags) = TagsBack(m)
<1>1. PICK parts : parts = LineParts(m)
  OBVIOUS
<1>2. parts \in Seq(Text) /\ parts # <<>> /\ Join(parts, <<Space>>) = SourcedAs(m.source, Body(m))
  BY <1>1, LinePartsFacts
<1>3. CASE m.tags = Empty
  <2>1. text = Join(parts, <<Space>>)
    BY <1>1, <1>3, StringOf
  <2>2. Empty \in Text /\ Without(Empty, Space)
    BY DEF Text, Empty, Without
  <2>3. QED
    BY <1>2, <1>3, <2>1, <2>2 DEF TaggedAs
<1>4. CASE m.tags # Empty
  <2>1. PICK keys \in SetToSeqs(DOMAIN m.tags) :
          text = Join(Cat(<<FormattedTags(m.tags, keys)>>, parts), <<Space>>)
    BY <1>1, <1>4, StringOf
  <2>2. PICK tags, f, one, V :
          /\ tags = Join(Written(m.tags, keys), <<Semi>>) /\ f = FormattedTags(m.tags, keys)
          /\ one = <<f>> /\ V = Seq(Symbols)
    OBVIOUS
  <2>3. /\ tags \in Text /\ Without(tags, Space) /\ TagsReadable(tags)
        /\ ParseTags(tags) = [key \in DOMAIN m.tags |-> ReadBack(m.tags[key])]
    BY <1>4, <2>2, TagsRead
  <2>4. f = Pre("@", tags)
    BY <2>2, FormattedIs
  <2>5. f \in V /\ Space \in Symbols /\ parts \in Seq(V)
    <3>1. "@" \in Symbols
      BY CodecAssumption DEF CodecAssumption, Special
    <3>2. f \in Text
      BY <2>3, <2>4, <3>1, PreText
    <3>3. QED
      BY <1>2, <2>2, <3>2, SpecialSymbols DEF Text
  <2>6. one \in Seq(V) /\ one # <<>>
    BY <2>2, <2>5
  <2>7. Joins(Symbols, Space)
    BY <2>5, JoinsWith
  <2>8. Join(one, <<Space>>) = f
    BY <2>2, <2>5, <2>7 DEF Joins
  <2>9. text = Glue(f, Space, Join(parts, <<Space>>))
    <3>1. \A a \in Seq(V), c \in Seq(V) : a # <<>> /\ c # <<>> =>
            Join(Cat(a, c), <<Space>>) = Glue(Join(a, <<Space>>), Space, Join(c, <<Space>>))
      BY <2>2, <2>7 DEF Joins
    <3>2. Join(Cat(one, parts), <<Space>>) = Glue(Join(one, <<Space>>), Space, Join(parts, <<Space>>))
      BY <1>2, <2>5, <2>6, <3>1
    <3>3. QED
      BY <2>1, <2>2, <2>8, <3>2
  <2>10. QED
    BY <1>2, <1>4, <2>3, <2>4, <2>9 DEF TaggedAs, TagsBack
<1>5. QED
  BY <1>3, <1>4

\* p is text but for blanks at its end.
Trimmed(text, p) == p \in Text /\ EndsWell(p) /\ \E q \in Text : text = Cat(p, q) /\ OnlyBlanks(q)

\* What a message is read as.
Reads(m, g, p, source, rest) ==
  /\ g = [tags |-> TagsBack(m), source |-> source,
          command |-> ToUpper(Head(Split(rest, Space))),
          params |-> ParamsOf(Tail(Split(rest, Space)))]
  /\ Trimmed(Body(m), p) /\ Head(p) \in WordSymbols /\ m.command = <<Head(p)>>
  /\ Without(m.source, Space) => source = m.source /\ rest = p
  /\ ~Without(m.source, Space) => source # m.source

LEMMA MessageRead ==
  ASSUME NEW m \in Messages, NEW text \in String(m), NEW g, g = ParseMessage(TrimSpace(text))
  PROVE  \E p, source, rest : Reads(m, g, p, source, rest)
<1>1. PICK body : body = Body(m)
  OBVIOUS
<1>2. body \in Text /\ body # Empty /\ Head(body) \in WordSymbols /\ m.command = <<Head(body)>>
  BY <1>1, BodyFacts
<1>3. PICK p \in Text, q \in Text : body = Cat(p, q) /\ OnlyBlanks(q) /\ (p = Empty \/ EndsWell(p))
  BY <1>2, TrimExists
<1>4. p # Empty /\ EndsWell(p)
  <2>1. ASSUME p = Empty PROVE FALSE
    <3>1. Cat(<<>>, q) = q
      BY CatFacts DEF Text
    <3>2. body = q
      BY <1>3, <2>1, <3>1 DEF Empty
    <3>3. body # <<>> /\ body \in Seq(Symbols)
      BY <1>2 DEF Empty, Text
    <3>4. Head(body) = body[1] /\ 1 \in 1 .. Len(body)
      <4>1. Head(body) = body[1]
        BY <3>3, HeadAndTail
      <4>2. Len(body) \in Nat /\ Len(body) # 0
        BY <3>3, LenProperties, EmptySeq
      <4>3. QED
        BY <4>1, <4>2
    <3>5. Head(body) \in Blanks
      BY <1>3, <3>2, <3>4 DEF OnlyBlanks
    <3>6. QED
      BY <1>2, <3>5 DEF WordSymbols
  <2>2. QED
    BY <1>3, <2>1
<1>5. Space \in Symbols /\ Head(body) \in Symbols
  BY <1>2, SpecialSymbols DEF WordSymbols
<1>6. Head(p) = Head(body)
  BY <1>3, <1>4, <1>5, EndsOf
<1>7. PICK tags \in Text :
        /\ text = TaggedAs(m, tags, SourcedAs(m.source, body))
        /\ Without(tags, Space)
        /\ m.tags # Empty => TagsReadable(tags) /\ ParseTags(tags) = TagsBack(m)
  BY <1>1, StringIs
<1>8. PICK s, w : s = SourcedAs(m.source, p) /\ w = TaggedAs(m, tags, s)
  OBVIOUS
<1>9. m.source \in Text
  BY MessageText
<1>10. /\ s \in Text /\ s # Empty /\ Head(s) \notin Blanks /\ ~StartsWith(s, "@")
       /\ StartsWith(s, ":") => Index(s, Space) # 0
       /\ RestOf(s) # Empty /\ RestOf(s) \in Text
       /\ Without(m.source, Space) => SourceOf(s) = m.source /\ RestOf(s) = p
       /\ ~Without(m.source, Space) => SourceOf(s) # m.source
  BY <1>2, <1>4, <1>6, <1>8, <1>9, SourcedFacts
<1>11. EndsWell(s) /\ SourcedAs(m.source, body) = Cat(s, q)
  <2>1. CASE m.source = Empty
    BY <1>3, <1>4, <1>8, <2>1 DEF SourcedAs
  <2>2. CASE m.source # Empty
    <3>1. PICK r, colon : r = Pre(colon, m.source) /\ colon = ":"
      OBVIOUS
    <3>2. r \in Text
      <4>1. colon \in Symbols
        BY <3>1, SpecialSymbols
      <4>2. QED
        BY <1>9, <3>1, <4>1, PreText
    <3>3. s = Glue(r, Space, p) /\ SourcedAs(m.source, body) = Glue(r, Space, body)
      BY <1>8, <2>2, <3>1 DEF SourcedAs
    <3>4. EndsWell(Glue(r, Space, p)) /\ Cat(Glue(r, Space, p), q) = Glue(r, Space, Cat(p, q))
      BY <1>4, <1>5, <3>2, EndsOf
    <3>5. QED
      BY <1>3, <3>3, <3>4
  <2>3. QED
    BY <2>1, <2>2
<1>12. w \in Text /\ EndsWell(w) /\ Head(w) \notin Blanks /\ text = Cat(w, q)
  <2>1. CASE m.tags = Empty
    BY <1>7, <1>8, <1>10, <1>11, <2>1 DEF TaggedAs
  <2>2. CASE m.tags # Empty
    <3>1. PICK r, at : r = Pre(at, tags) /\ at = "@"
      OBVIOUS
    <3>2. r \in Text /\ r # Empty /\ Head(r) = at /\ at \notin Blanks
      <4>1. at \in Symbols
        BY <3>1, CodecAssumption DEF CodecAssumption, Special
      <4>2. r \in Text /\ r # Empty /\ Head(r) = at
        BY <3>1, <4>1, PreText
      <4>3. at \notin Blanks
        BY <3>1 DEF Blanks, Space
      <4>4. QED
        BY <4>2, <4>3
    <3>3. w = Glue(r, Space, s) /\ text = Glue(r, Space, Cat(s, q))
      BY <1>7, <1>8, <1>11, <2>2, <3>1 DEF TaggedAs
    <3>4. w \in Text /\ Head(w) = at /\ EndsWell(w)
      BY <1>5, <1>10, <1>11, <3>2, <3>3, GlueText
    <3>5. Cat(Glue(r, Space, s), q) = Glue(r, Space, Cat(s, q))
      BY <1>5, <1>10, <3>2, EndsOf
    <3>6. QED
      BY <3>2, <3>3, <3>4, <3>5
  <2>3. QED
    BY <2>1, <2>2
<1>13. TrimSpace(text) = w
  BY <1>3, <1>12, TrimIs
<1>14. g = ParsedAs(m, tags, s)
  BY <1>7, <1>8, <1>10, <1>11, <1>13, LineParsed
<1>15. PICK source, rest : source = SourceOf(s) /\ rest = RestOf(s)
  OBVIOUS
<1>16. g = [tags |-> TagsBack(m), source |-> source,
            command |-> ToUpper(Head(Split(rest, Space))),
            params |-> ParamsOf(Tail(Split(rest, Space)))]
  <2>1. (IF m.tags = Empty THEN Empty ELSE ParseTags(tags)) = TagsBack(m)
    BY <1>7 DEF TagsBack
  <2>2. QED
    BY <1>14, <1>15, <2>1 DEF ParsedAs
<1>17. Trimmed(Body(m), p)
  BY <1>1, <1>3, <1>4 DEF Trimmed
<1>18. Reads(m, g, p, source, rest)
  BY <1>2, <1>6, <1>10, <1>15, <1>16, <1>17 DEF Reads
<1>19. QED
  BY <1>18
-----------------------------------------------------------------------------
(* Parameters.                                                             *)

\* The first part that starts with ":", the parts before it and those from it on.
FirstColon(parts) == SelectInSeq(parts, LAMBDA part : StartsWith(part, ":"))
UpToPart(parts, k) == SubSeq(parts, 1, k - 1)
FromPart(parts, k) == SubSeq(parts, k, Len(parts))

LEMMA ParamsIs ==
  ASSUME NEW parts, NEW k, k = FirstColon(parts)
  PROVE  /\ k = 0 => ParamsOf(parts) = Cat(NonEmpty(parts), <<>>)
         /\ k # 0 => ParamsOf(parts) =
              Cat(NonEmpty(UpToPart(parts, k)), <<Tail(Join(FromPart(parts, k), <<Space>>))>>)
  BY DEF ParamsOf, FirstColon, UpToPart, FromPart, Cat

LEMMA FirstColonFacts ==
  ASSUME NEW S, NEW parts \in Seq(S), NEW k, k = FirstColon(parts)
  PROVE  /\ k \in 0 .. Len(parts)
         /\ k = 0 => \A i \in 1 .. Len(parts) : ~StartsWith(parts[i], ":")
         /\ k # 0 => StartsWith(parts[k], ":")
         /\ \A i \in 1 .. k - 1 : ~StartsWith(parts[i], ":")
<1>1. PICK I : I = {i \in 1 .. Len(parts) : StartsWith(parts[i], ":")}
  OBVIOUS
<1>2. Len(parts) \in Nat /\ k = IF I # {} THEN Min(I) ELSE 0
  BY <1>1, LenProperties DEF FirstColon, SelectInSeq
<1>3. I \subseteq Nat
  BY <1>1
<1>4. CASE I = {}
  BY <1>1, <1>2, <1>4
<1>5. CASE I # {}
  <2>1. k \in I /\ \A j \in I : k <= j
    BY <1>2, <1>3, <1>5, Least
  <2>2. k \in 1 .. Len(parts) /\ StartsWith(parts[k], ":")
    BY <1>1, <2>1
  <2>3. ASSUME NEW i \in 1 .. k - 1 PROVE ~StartsWith(parts[i], ":")
    <3>1. i \in 1 .. Len(parts) /\ ~(k <= i)
      BY <1>2, <2>2
    <3>2. QED
      BY <1>1, <2>1, <3>1
  <2>4. k \in 0 .. Len(parts) /\ k # 0
    BY <1>2, <2>2
  <2>5. QED
    BY <2>2, <2>3, <2>4
<1>6. QED
  BY <1>4, <1>5

LEMMA FirstColonIs ==
  ASSUME NEW S, NEW parts \in Seq(S), NEW k \in 1 .. Len(parts), StartsWith(parts[k], ":"),
         \A i \in 1 .. k - 1 : ~StartsWith(parts[i], ":")
  PROVE  FirstColon(parts) = k
<1>1. PICK i : i = FirstColon(parts)
  OBVIOUS
<1>2. /\ i \in 0 .. Len(parts)
      /\ i = 0 => \A j \in 1 .. Len(parts) : ~StartsWith(parts[j], ":")
      /\ i # 0 => StartsWith(parts[i], ":")
      /\ \A j \in 1 .. i - 1 : ~StartsWith(parts[j], ":")
  BY <1>1, FirstColonFacts
<1>3. Len(parts) \in Nat
  BY LenProperties
<1>4. i # 0 /\ i \in Nat
  BY <1>2, <1>3
<1>5. ~(i < k)
  <2>1. i < k => i \in 1 .. k - 1
    BY <1>3, <1>4
  <2>2. QED
    BY <1>2, <1>4, <2>1
<1>6. ~(k < i)
  <2>1. k < i => k \in 1 .. i - 1
    BY <1>3, <1>4
  <2>2. QED
    BY <1>2, <2>1
<1>7. QED
  BY <1>1, <1>3, <1>4, <1>5, <1>6

\* a and b are the parts before the k-th and those from it on.
CutsInto(parts, k, a, b) ==
  /\ b # <<>> /\ Cat(a, b) = parts /\ b[1] = parts[k]
  /\ Len(a) = k - 1 /\ \A i \in 1 .. k - 1 : a[i] = parts[i]

LEMMA PartsCut ==
  ASSUME NEW S, NEW parts \in Seq(S), NEW k \in 1 .. Len(parts),
         NEW a, a = UpToPart(parts, k), NEW b, b = FromPart(parts, k)
  PROVE  a \in Seq(S) /\ b \in Seq(S) /\ CutsInto(parts, k, a, b)
<1>1. PICK n, l : n = Len(parts) /\ l = k - 1
  OBVIOUS
<1>2. n \in Nat /\ l \in 0 .. n /\ k \in 1 .. n /\ l + 1 = k
  BY <1>1, LenProperties
<1>3. Cat(a, b) = parts
  <2>1. 1 \in 1 .. n + 1 /\ l \in 1 - 1 .. n /\ n \in l .. n
    BY <1>2
  <2>2. SubSeq(parts, 1, l) \o SubSeq(parts, l + 1, n) = SubSeq(parts, 1, n)
    BY <1>1, <2>1, ConcatAdjacentSubSeq
  <2>3. SubSeq(parts, 1, n) = parts
    BY <1>1, SubSeqFull
  <2>4. QED
    BY <1>1, <1>2, <2>2, <2>3 DEF UpToPart, FromPart, Cat
<1>4. /\ a \in Seq(S) /\ Len(a) = l /\ \A i \in 1 .. l : a[i] = parts[i]
  <2>1. \A i \in 1 .. l : parts[i] \in S
    <3>1. \A i \in 1 .. l : i \in 1 .. Len(parts)
      BY <1>1, <1>2
    <3>2. QED
      BY <3>1, ElementOfSeq
  <2>2. a = SubSeq(parts, 1, l)
    BY <1>1 DEF UpToPart
  <2>3. /\ a \in Seq(S) /\ Len(a) = IF 1 <= l THEN l - 1 + 1 ELSE 0
        /\ \A i \in 1 .. l - 1 + 1 : a[i] = parts[1 + i - 1]
    BY <1>2, <2>1, <2>2, SubSeqProperties
  <2>4. QED
    BY <1>2, <2>3
<1>5. b \in Seq(S) /\ Len(b) = n - k + 1 /\ b[1] = parts[k]
  <2>1. \A i \in k .. n : parts[i] \in S
    <3>1. \A i \in k .. n : i \in 1 .. Len(parts)
      BY <1>1, <1>2
    <3>2. QED
      BY <3>1, ElementOfSeq
  <2>2. b = SubSeq(parts, k, n)
    BY <1>1 DEF FromPart
  <2>3. /\ b \in Seq(S) /\ Len(b) = IF k <= n THEN n - k + 1 ELSE 0
        /\ \A i \in 1 .. n - k + 1 : b[i] = parts[k + i - 1]
    BY <1>2, <2>1, <2>2, SubSeqProperties
  <2>4. 1 \in 1 .. n - k + 1 /\ k + 1 - 1 = k /\ k <= n
    BY <1>2
  <2>5. QED
    BY <2>3, <2>4
<1>6. b # <<>>
  <2>1. Len(b) # 0
    BY <1>2, <1>5
  <2>2. QED
    BY <2>1
<1>7. QED
  BY <1>1, <1>3, <1>4, <1>5, <1>6 DEF CutsInto

LEMMA PartsJoined ==
  ASSUME NEW S, NEW a \in Seq(S), NEW b \in Seq(S), b # <<>>, NEW parts, parts = Cat(a, b),
         NEW k \in Nat, Len(a) = k - 1
  PROVE  /\ UpToPart(parts, k) = a /\ FromPart(parts, k) = b /\ k \in 1 .. Len(parts)
         /\ parts \in Seq(S) /\ CutsInto(parts, k, a, b)
<1>1. PICK n, l : n = Len(a) /\ l = Len(b)
  OBVIOUS
<1>2. n \in Nat /\ l \in Nat /\ l # 0 /\ k = n + 1 /\ k - 1 = n
  BY <1>1, LenProperties, EmptySeq
<1>3. /\ parts \in Seq(S) /\ Len(parts) = n + l
      /\ \A i \in 1 .. n + l : parts[i] = IF i <= n THEN a[i] ELSE b[i - n]
  BY <1>1, ConcatProperties DEF Cat
<1>4. k \in 1 .. n + l /\ ~(k <= n) /\ k - n = 1
  BY <1>2
<1>5. parts[k] = b[1]
  BY <1>3, <1>4
<1>6. \A i \in 1 .. n : parts[i] = a[i]
  <2>1. \A i \in 1 .. n : i \in 1 .. n + l /\ i <= n
    BY <1>2
  <2>2. QED
    BY <1>3, <2>1
<1>7. PICK c, d : c = UpToPart(parts, k) /\ d = FromPart(parts, k)
  OBVIOUS
<1>8. /\ c \in Seq(S) /\ d \in Seq(S) /\ Cat(c, d) = parts
      /\ Len(c) = k - 1 /\ \A i \in 1 .. k - 1 : c[i] = parts[i]
  <2>1. PICK z : z = k
    OBVIOUS
  <2>2. z \in 1 .. Len(parts) /\ parts \in Seq(S) /\ c = UpToPart(parts, z) /\ d = FromPart(parts, z)
    BY <1>3, <1>4, <1>7, <2>1
  <2>3. c \in Seq(S) /\ d \in Seq(S) /\ CutsInto(parts, z, c, d)
    BY <2>2, PartsCut
  <2>4. QED
    BY <2>1, <2>3 DEF CutsInto
<1>9. c = a
  BY <1>1, <1>2, <1>6, <1>8, SeqEqual
<1>10. d = b
  <2>1. a \o d = a \o b
    BY <1>8, <1>9 DEF Cat
  <2>2. QED
    BY <1>8, <2>1, ConcatSimplifications
<1>11. QED
  <2>1. CutsInto(parts, k, a, b)
    BY <1>2, <1>5, <1>6 DEF CutsInto
  <2>2. QED
    BY <1>2, <1>3, <1>4, <1>7, <1>9, <1>10, <2>1

\* Parameters that come back: all but the last are words, and the last does not end in a space.
Returns(params) == /\ \A i \in 1 .. Len(params) - 1 : Plain(params[i])
                   /\ params # <<>> => ~EndsWith(Last(params), Space)

LEMMA NonEmptyOf ==
  ASSUME NEW V, NEW parts \in Seq(V)
  PROVE  NonEmpty(parts) \in Seq(V \ {Empty})
<1>1. PICK W : W = V \ {Empty}
  OBVIOUS
<1> DEFINE T == {p \in Seq(V) : NonEmpty(p) \in Seq(W)}
<1>2. <<>> \in T
  <2>1. NonEmpty(<<>>) = <<>>
    BY NonEmptyFacts
  <2>2. <<>> \in Seq(V) /\ <<>> \in Seq(W)
    OBVIOUS
  <2>3. QED
    BY <2>1, <2>2
<1>3. ASSUME NEW p \in Seq(V), NEW v \in V, p \in T PROVE Append(p, v) \in T
  <2>1. PICK r : r = NonEmpty(p)
    OBVIOUS
  <2>2. NonEmpty(Append(p, v)) = KeepOn(r, v) /\ r \in Seq(W)
    BY <1>3, <2>1, NonEmptyFacts
  <2>3. KeepOn(r, v) \in Seq(W)
    BY <1>1, <2>2 DEF KeepOn
  <2>4. Append(p, v) \in Seq(V)
    OBVIOUS
  <2>5. QED
    BY <2>2, <2>3, <2>4
<1>4. Seq(V) \subseteq T
  <2> HIDE DEF T
  <2>1. QED
    BY <1>2, <1>3, AppendInduction
<1>5. QED
  BY <1>1, <1>4

LEMMA WithoutEnd ==
  ASSUME NEW t \in Text, NEW c, Without(t, c)
  PROVE  ~EndsWith(t, c)
<1>1. ASSUME t # Empty PROVE Last(t) # c
  <2>1. Len(t) \in Nat /\ Len(t) # 0
    BY <1>1, LenProperties, EmptySeq DEF Text, Empty
  <2>2. Len(t) \in 1 .. Len(t)
    BY <2>1
  <2>3. QED
    BY <2>2 DEF Without, Last
<1>2. QED
  BY <1>1 DEF EndsWith

\* Whatever is read, the parameters of a line that does not end in a blank are such.
LEMMA ParamsReturn ==
  ASSUME NEW text \in Text, EndsWell(text), NEW parts, parts = Split(text, Space)
  PROVE  Returns(ParamsOf(parts))
<1>1. PICK k, colon, sep : k = FirstColon(parts) /\ colon = ":" /\ sep = <<Space>>
  OBVIOUS
<1>2. Space \in Symbols /\ colon \in Symbols /\ Space \in Blanks
  BY <1>1, SpecialSymbols DEF Blanks
<1>3. /\ parts \in Seq(Text) /\ parts # <<>> /\ Join(parts, sep) = text
      /\ \A i \in 1 .. Len(parts) : Without(parts[i], Space)
  <2>1. parts \in Seq(Text) /\ parts # <<>>
    BY SplitFacts DEF Text
  <2>2. Join(parts, sep) = text /\ \A i \in 1 .. Len(parts) : Without(parts[i], Space)
    BY <1>1, <1>2, SplitJoin DEF Text
  <2>3. QED
    BY <2>1, <2>2
<1>4. /\ k \in 0 .. Len(parts)
      /\ k = 0 => \A i \in 1 .. Len(parts) : ~StartsWith(parts[i], colon)
      /\ k # 0 => StartsWith(parts[k], colon)
      /\ \A i \in 1 .. k - 1 : ~StartsWith(parts[i], colon)
  BY <1>1, <1>3, FirstColonFacts
<1>5. PICK V, W : V = {t \in Text : Without(t, Space) /\ ~StartsWith(t, colon)} /\ W = V \ {Empty}
  OBVIOUS
<1>6. \A t \in W : t \in Text /\ Without(t, Space) /\ Plain(t)
  <2>1. ASSUME NEW t \in W PROVE t \in Text /\ Without(t, Space) /\ Plain(t)
    <3>1. t \in Text /\ Without(t, Space) /\ ~StartsWith(t, colon) /\ t # Empty
      BY <1>5
    <3>2. Index(t, Space) = 0
      BY <3>1, IndexFacts DEF Without, Text
    <3>3. QED
      BY <1>1, <3>1, <3>2 DEF Plain
  <2>2. QED
    BY <2>1
<1>7. PICK params : params = ParamsOf(parts)
  OBVIOUS
<1>8. CASE k = 0
  <2>1. parts \in Seq(V)
    <3>1. \A i \in 1 .. Len(parts) : parts[i] \in V
      BY <1>3, <1>4, <1>5, <1>8, ElementOfSeq
    <3>2. QED
      BY <1>3, <3>1, PartsIn
  <2>2. PICK r : r = NonEmpty(parts)
    OBVIOUS
  <2>3. r \in Seq(W)
    BY <1>5, <2>1, <2>2, NonEmptyOf
  <2>4. params = Cat(r, <<>>) /\ Cat(r, <<>>) = r
    BY <1>1, <1>7, <1>8, <2>2, <2>3, ParamsIs, CatFacts
  <2>5. params \in Seq(W) /\ Len(params) \in Nat /\ \A i \in 1 .. Len(params) : params[i] \in W
    BY <2>3, <2>4, LenProperties, ElementOfSeq
  <2>6. \A i \in 1 .. Len(params) - 1 : Plain(params[i])
    <3>1. \A i \in 1 .. Len(params) - 1 : i \in 1 .. Len(params)
      BY <2>5
    <3>2. QED
      BY <1>6, <2>5, <3>1
  <2>7. ASSUME params # <<>> PROVE ~EndsWith(Last(params), Space)
    <3>1. Len(params) # 0
      BY <2>5, <2>7, EmptySeq
    <3>2. Len(params) \in 1 .. Len(params)
      BY <2>5, <3>1
    <3>3. Last(params) \in W
      BY <2>5, <3>2 DEF Last
    <3>4. QED
      BY <1>6, <3>3, WithoutEnd
  <2>8. QED
    BY <1>7, <2>6, <2>7 DEF Returns
<1>9. CASE k # 0
  <2>1. PICK a, b, u, v, r :
          /\ a = UpToPart(parts, k) /\ b = FromPart(parts, k) /\ u = Join(b, sep) /\ v = Tail(u)
          /\ r = NonEmpty(a)
    OBVIOUS
  <2>2. k \in 1 .. Len(parts) /\ Len(parts) \in Nat
    BY <1>3, <1>4, <1>9, LenProperties
  <2>3. /\ a \in Seq(Text) /\ b \in Seq(Text) /\ b # <<>> /\ Cat(a, b) = parts
        /\ Len(a) = k - 1 /\ \A i \in 1 .. k - 1 : a[i] = parts[i]
    <3>1. a \in Seq(Text) /\ b \in Seq(Text) /\ CutsInto(parts, k, a, b)
      BY <1>3, <2>1, <2>2, PartsCut
    <3>2. QED
      BY <3>1 DEF CutsInto
  <2>4. a \in Seq(V)
    <3>1. ASSUME NEW i \in 1 .. Len(a) PROVE a[i] \in V
      <4>1. i \in 1 .. k - 1 /\ i \in 1 .. Len(parts)
        BY <2>2, <2>3
      <4>2. a[i] \in Text /\ a[i] = parts[i]
        BY <2>3, <4>1, ElementOfSeq
      <4>3. QED
        BY <1>3, <1>4, <1>5, <4>1, <4>2
    <3>2. QED
      BY <2>3, <3>1, PartsIn
  <2>5. r \in Seq(W)
    BY <1>5, <2>1, <2>4, NonEmptyOf
  <2>6. params = Cat(r, <<v>>)
    BY <1>1, <1>7, <1>9, <2>1, ParamsIs
  <2>7. Joins(Symbols, Space)
    BY <1>2, JoinsWith
  <2>8. u \in Text
    BY <1>1, <2>1, <2>3, <2>7 DEF Joins, Text
  <2>9. u # Empty /\ Last(u) = Last(text)
    <3>1. CASE a = <<>>
      <4>1. Cat(<<>>, b) = b
        BY <2>3, CatFacts
      <4>2. u = text
        BY <1>3, <2>1, <2>3, <3>1, <4>1
      <4>3. QED
        BY <4>2 DEF EndsWell
    <3>2. CASE a # <<>>
      <4>1. PICK s, q : s = Join(a, sep) /\ q = Pre(Space, u)
        OBVIOUS
      <4>2. s \in Text
        BY <1>1, <2>3, <2>7, <4>1 DEF Joins, Text
      <4>3. text = Glue(s, Space, u)
        <5>1. \A c \in Seq(Text), d \in Seq(Text) : c # <<>> /\ d # <<>> =>
                Join(Cat(c, d), sep) = Glue(Join(c, sep), Space, Join(d, sep))
          BY <1>1, <2>7 DEF Joins, Text
        <5>2. Join(Cat(a, b), sep) = Glue(Join(a, sep), Space, Join(b, sep))
          BY <2>3, <3>2, <5>1
        <5>3. QED
          BY <1>3, <2>1, <2>3, <4>1, <5>2
      <4>4. q \in Text /\ q # Empty
        BY <1>2, <2>8, <4>1, PreText
      <4>5. text = Cat(s, q)
        BY <1>2, <2>8, <4>1, <4>2, <4>3, GlueFacts DEF Text
      <4>6. Last(text) = Last(q)
        BY <4>2, <4>4, <4>5, LastOf
      <4>7. PICK one : one = <<Space>>
        OBVIOUS
      <4>8. one \in Text /\ q = Cat(one, u)
        BY <1>2, <4>1, <4>7 DEF Text, Pre, Cat
      <4>9. u # Empty
        <5>1. ASSUME u = Empty PROVE FALSE
          <6>1. Cat(one, <<>>) = one
            BY <4>8, CatFacts DEF Text
          <6>2. q = one
            BY <4>8, <5>1, <6>1 DEF Empty
          <6>3. Last(one) = Space
            BY <4>7 DEF Last
          <6>4. QED
            BY <1>2, <4>6, <6>2, <6>3 DEF EndsWell
        <5>2. QED
          BY <5>1
      <4>10. Last(q) = Last(u)
        BY <2>8, <4>8, <4>9, LastOf
      <4>11. QED
        BY <4>6, <4>9, <4>10
    <3>3. QED
      BY <3>1, <3>2
  <2>10. v \in Text /\ ~EndsWith(v, Space)
    <3>1. PICK h, one : h = Head(u) /\ one = <<h>>
      OBVIOUS
    <3>2. h \in Symbols /\ v \in Text /\ u = Pre(h, v)
      BY <2>1, <2>8, <2>9, <3>1, PreFacts DEF Text
    <3>3. one \in Text /\ u = Cat(one, v)
      BY <3>1, <3>2 DEF Text, Pre, Cat
    <3>4. v # Empty => Last(v) = Last(u)
      BY <3>2, <3>3, LastOf
    <3>5. QED
      BY <1>2, <2>9, <3>2, <3>4 DEF EndsWith, EndsWell
  <2>11. PICK n, last : n = Len(r) /\ last = <<v>>
    OBVIOUS
  <2>12. r \in Seq(Text) /\ n \in Nat /\ last \in Seq(Text) /\ Len(last) = 1 /\ last[1] = v
    <3>1. W \subseteq Text
      BY <1>6
    <3>2. r \in Seq(Text)
      BY <2>5, <3>1, SeqMonotonic
    <3>3. QED
      BY <2>10, <2>11, <3>2, LenProperties
  <2>13. /\ Len(params) = n + 1
         /\ \A i \in 1 .. n + 1 : params[i] = IF i <= n THEN r[i] ELSE last[i - n]
    BY <2>6, <2>11, <2>12, ConcatProperties DEF Cat
  <2>14. ASSUME NEW i \in 1 .. Len(params) - 1 PROVE Plain(params[i])
    <3>1. i \in 1 .. n /\ i \in 1 .. n + 1 /\ i <= n
      BY <2>12, <2>13
    <3>2. params[i] = r[i]
      BY <2>13, <3>1
    <3>3. r[i] \in W
      BY <2>5, <2>11, <3>1, ElementOfSeq
    <3>4. QED
      BY <1>6, <3>2, <3>3
  <2>15. Last(params) = v
    <3>1. PICK z : z = n + 1
      OBVIOUS
    <3>2. z \in 1 .. n + 1 /\ ~(z <= n) /\ z - n = 1
      BY <2>12, <3>1
    <3>3. params[z] = last[z - n]
      BY <2>13, <3>2
    <3>4. QED
      BY <2>12, <2>13, <3>1, <3>2, <3>3 DEF Last
  <2>16. QED
    BY <1>7, <2>10, <2>14, <2>15 DEF Returns
<1>10. QED
  BY <1>8, <1>9

LEMMA LastQuoted ==
  ASSUME NEW l \in Seq(Symbols \ {"\r", "\n"}), ~EndsWith(l, Space),
         NEW q, q = IF Trailing(l) THEN Pre(":", l) ELSE l
  PROVE  /\ q \in Text /\ l \in Text /\ q # Empty /\ EndsWell(q)
         /\ ~Trailing(l) => Without(l, Space) /\ l # Empty /\ ~StartsWith(l, ":")
<1>1. PICK colon, X : colon = ":" /\ X = Symbols \ {"\r", "\n"}
  OBVIOUS
<1>2. colon \in Symbols /\ colon \notin Blanks
  <2>1. colon \in Symbols
    BY <1>1, SpecialSymbols
  <2>2. QED
    BY <1>1, <2>1 DEF Blanks, Space
<1>3. l \in Text /\ l \in Seq(X) /\ \A i \in 1 .. Len(l) : l[i] \in X
  <2>1. l \in Seq(X) /\ X \subseteq Symbols
    BY <1>1
  <2>2. QED
    BY <2>1, SeqMonotonic, ElementOfSeq DEF Text
<1>4. l # Empty => EndsWell(l)
  <2>1. ASSUME l # Empty PROVE EndsWell(l)
    <3>1. Len(l) \in Nat /\ Len(l) # 0
      BY <1>3, <2>1, LenProperties, EmptySeq DEF Empty
    <3>2. Last(l) \in X
      BY <1>3, <3>1 DEF Last
    <3>3. Last(l) # Space
      BY <2>1 DEF EndsWith
    <3>4. Last(l) \notin Blanks
      BY <1>1, <3>2, <3>3 DEF Blanks
    <3>5. QED
      BY <2>1, <3>4 DEF EndsWell
  <2>2. QED
    BY <2>1
<1>5. CASE Trailing(l)
  <2>1. q = Pre(colon, l)
    BY <1>1, <1>5
  <2>2. q \in Text /\ q # Empty
    BY <1>2, <1>3, <2>1, PreText
  <2>3. PICK one : one = <<colon>>
    OBVIOUS
  <2>4. one \in Text /\ q = Cat(one, l)
    BY <1>2, <2>1, <2>3 DEF Text, Pre, Cat
  <2>5. CASE l = Empty
    <3>1. Cat(one, <<>>) = one
      BY <2>4, CatFacts DEF Text
    <3>2. q = one
      BY <2>4, <2>5, <3>1 DEF Empty
    <3>3. Last(one) = colon
      BY <2>3 DEF Last
    <3>4. QED
      BY <1>2, <1>3, <1>5, <2>2, <3>2, <3>3 DEF EndsWell
  <2>6. CASE l # Empty
    <3>1. Last(q) = Last(l)
      BY <1>3, <2>4, <2>6, LastOf
    <3>2. QED
      BY <1>3, <1>4, <1>5, <2>2, <2>6, <3>1 DEF EndsWell
  <2>7. QED
    BY <2>5, <2>6
<1>6. CASE ~Trailing(l)
  <2>1. Index(l, Space) \in Nat
    <3>1. Index(l, Space) \in 0 .. Len(l)
      BY <1>3, IndexFacts
    <3>2. QED
      BY <3>1
  <2>2. ~(Index(l, Space) > 0) /\ l # Empty /\ ~StartsWith(l, ":")
    BY <1>6 DEF Trailing
  <2>3. Index(l, Space) = 0
    BY <2>1, <2>2
  <2>4. Without(l, Space)
    BY <1>3, <2>3, IndexFacts DEF Without
  <2>5. QED
    BY <1>3, <1>4, <1>6, <2>2, <2>4
<1>7. QED
  BY <1>5, <1>6

\* Parameters that come back: the line does not end in a blank, and they are read as they were.
LEMMA QuotedReturn ==
  ASSUME NEW m \in Messages, m.params # <<>>, Returns(m.params),
         NEW text, text = Join(Quoted(m), <<Space>>)
  PROVE  text \in Text /\ EndsWell(text) /\ ParamsOf(Split(text, Space)) = m.params
<1>1. PICK n, colon, sep, P, l, q :
        /\ n = Len(m.params) /\ colon = ":" /\ sep = <<Space>>
        /\ P = Front(m.params) /\ l = Last(m.params)
        /\ q = IF Trailing(l) THEN Pre(colon, l) ELSE l
  OBVIOUS
<1>2. Space \in Symbols /\ colon \in Symbols /\ colon # Space
  <2>1. colon # Space
    BY <1>1 DEF Space
  <2>2. QED
    BY <1>1, <2>1, SpecialSymbols
<1>3. m.params \in Seq(Text) /\ n \in Nat /\ n # 0 /\ n \in 1 .. n /\ l = m.params[n]
  <2>1. m.params \in Seq(Text)
    BY MessageText
  <2>2. n \in Nat /\ n # 0
    BY <1>1, <2>1, LenProperties, EmptySeq
  <2>3. QED
    BY <1>1, <2>1, <2>2 DEF Last
<1>4. /\ P \in Seq(Text) /\ Len(P) = n - 1 /\ \A i \in 1 .. n - 1 : P[i] = m.params[i]
      /\ m.params = Add(P, l)
  BY <1>1, <1>3, FrontLast DEF Add
<1>5. l \in Seq(Symbols \ {"\r", "\n"}) /\ ~EndsWith(l, Space)
  <2>1. m.params \in Seq(Seq(Symbols \ {"\r", "\n"}))
    BY SendableFacts
  <2>2. l \in Seq(Symbols \ {"\r", "\n"})
    BY <1>1, <1>3, <2>1, ElementOfSeq
  <2>3. QED
    BY <1>1, <2>2 DEF Returns
<1>6. /\ q \in Text /\ l \in Text /\ q # Empty /\ EndsWell(q)
      /\ ~Trailing(l) => Without(l, Space) /\ l # Empty /\ ~StartsWith(l, colon)
  BY <1>1, <1>5, LastQuoted
<1>7. \A i \in 1 .. n - 1 :
        P[i] \in Text /\ Without(P[i], Space) /\ P[i] # Empty /\ ~StartsWith(P[i], colon)
  <2>1. ASSUME NEW i \in 1 .. n - 1
        PROVE  P[i] \in Text /\ Without(P[i], Space) /\ P[i] # Empty /\ ~StartsWith(P[i], colon)
    <3>1. PICK t : t = P[i]
      OBVIOUS
    <3>2. t \in Text
      BY <1>4, <3>1, ElementOfSeq
    <3>3. Plain(t)
      BY <1>1, <1>4, <3>1 DEF Returns
    <3>4. t # Empty /\ Index(t, Space) = 0 /\ ~StartsWith(t, colon)
      BY <1>1, <3>3 DEF Plain
    <3>5. Without(t, Space)
      BY <3>2, <3>4, IndexFacts DEF Without, Text
    <3>6. QED
      BY <3>1, <3>2, <3>4, <3>5
  <2>2. QED
    BY <2>1
<1>8. Quoted(m) = Add(P, q)
  <2>1. PICK a, b : a = Quoted(m) /\ b = Add(P, q)
    OBVIOUS
  <2>2. a \in Seq(Text) /\ Len(a) = n
        /\ \A i \in 1 .. n : a[i] = IF i = n /\ Trailing(m.params[i])
                                    THEN Pre(colon, m.params[i]) ELSE m.params[i]
    BY <1>1, <2>1, QuotedFacts
  <2>3. b \in Seq(Text) /\ Len(b) = n /\ b[n] = q /\ \A i \in 1 .. n - 1 : b[i] = P[i]
    <3>1. /\ b \in Seq(Text) /\ Len(b) = Len(P) + 1 /\ b[Len(P) + 1] = q
          /\ \A i \in 1 .. Len(P) : b[i] = P[i]
      BY <1>4, <1>6, <2>1, AppendProperties DEF Add
    <3>2. Len(P) + 1 = n
      BY <1>3, <1>4
    <3>3. QED
      BY <1>4, <3>1, <3>2
  <2>4. ASSUME NEW i \in 1 .. n PROVE a[i] = b[i]
    <3>1. CASE i = n
      BY <1>1, <1>3, <2>2, <2>3, <3>1
    <3>2. CASE i # n
      <4>1. i \in 1 .. n - 1
        BY <1>3, <3>2
      <4>2. QED
        BY <1>4, <2>2, <2>3, <3>2, <4>1
    <3>3. QED
      BY <3>1, <3>2
  <2>5. QED
    BY <2>1, <2>2, <2>3, <2>4, SeqEqual
<1>9. PICK R, parts : R = Split(q, Space) /\ parts = Split(text, Space)
  OBVIOUS
<1>10. R \in Seq(Text) /\ R # <<>>
  BY <1>6, <1>9, SplitFacts DEF Text
<1>11. text \in Text /\ EndsWell(text) /\ parts = Cat(P, R)
  <2>1. Joins(Symbols, Space)
    BY <1>2, JoinsWith
  <2>2. CASE P = <<>>
    <3>1. Quoted(m) = <<q>>
      BY <1>8, <2>2 DEF Add
    <3>2. text = q
      BY <1>6, <2>1, <3>1 DEF Joins, Text
    <3>3. Cat(<<>>, R) = R
      BY <1>10, CatFacts
    <3>4. QED
      BY <1>6, <1>9, <2>2, <3>2, <3>3
  <2>3. CASE P # <<>>
    <3>1. PICK s : s = Join(P, sep)
      OBVIOUS
    <3>2. s \in Text
      BY <1>1, <1>4, <2>1, <3>1 DEF Joins, Text
    <3>3. text = Glue(s, Space, q)
      <4>1. \A c \in Seq(Text), part \in Text : c # <<>> =>
              Join(Add(c, part), sep) = Glue(Join(c, sep), Space, part)
        BY <1>1, <2>1 DEF Joins, Text
      <4>2. Join(Add(P, q), sep) = Glue(Join(P, sep), Space, q)
        BY <1>4, <1>6, <2>3, <4>1
      <4>3. QED
        BY <1>1, <1>8, <3>1, <4>2
    <3>4. text \in Text /\ EndsWell(text)
      BY <1>2, <1>6, <3>2, <3>3, EndsOf
    <3>5. Split(text, Space) = Cat(Split(s, Space), R)
      BY <1>2, <1>6, <1>9, <3>2, <3>3, GlueFacts DEF Text
    <3>6. Split(s, Space) = P
      <4>1. \A i \in 1 .. Len(P) : Without(P[i], Space)
        BY <1>4, <1>7
      <4>2. Split(Join(P, <<Space>>), Space) = P
        BY <1>2, <1>4, <2>3, <4>1, SplitJoined DEF Text
      <4>3. QED
        BY <1>1, <3>1, <4>2
    <3>7. QED
      BY <1>9, <3>4, <3>5, <3>6
  <2>4. QED
    BY <2>2, <2>3
<1>12. NonEmpty(P) = P
  BY <1>4, <1>7, NonEmptyWhole
<1>13. m.params = Cat(P, <<l>>)
  BY <1>4, <1>6, AppendIsConcat DEF Add, Cat
<1>14. CASE Trailing(l)
  <2>1. q = Pre(colon, l)
    BY <1>1, <1>14
  <2>2. Head(q) = colon /\ Tail(q) = l
    BY <1>2, <1>6, <2>1, PreText
  <2>3. PICK h : h = Head(R)
    OBVIOUS
  <2>4. StartsWith(R[1], colon)
    <3>1. ~StartsWith(q, Space) /\ q # Empty
      BY <1>2, <1>6, <2>2 DEF StartsWith
    <3>2. h \in Text /\ h # Empty /\ h[1] = q[1]
      BY <1>2, <1>6, <1>9, <2>3, <3>1, HeadOfSplit DEF Text
    <3>3. q[1] = Head(q) /\ h[1] = Head(h) /\ R[1] = h
      BY <1>6, <1>10, <2>3, <3>2, HeadAndTail DEF Text, Empty
    <3>4. QED
      BY <2>2, <3>2, <3>3 DEF StartsWith
  <2>5. /\ UpToPart(parts, n) = P /\ FromPart(parts, n) = R /\ n \in 1 .. Len(parts)
        /\ parts \in Seq(Text) /\ parts[n] = R[1] /\ \A i \in 1 .. n - 1 : parts[i] = P[i]
    <3>1. Len(P) = n - 1 /\ n \in Nat /\ P \in Seq(Text) /\ parts = Cat(P, R)
      BY <1>3, <1>4, <1>11
    <3>2. /\ UpToPart(parts, n) = P /\ FromPart(parts, n) = R /\ n \in 1 .. Len(parts)
          /\ parts \in Seq(Text) /\ CutsInto(parts, n, P, R)
      BY <1>10, <3>1, PartsJoined
    <3>3. QED
      BY <3>2 DEF CutsInto
  <2>6. FirstColon(parts) = n
    <3>1. StartsWith(parts[n], ":") /\ \A i \in 1 .. n - 1 : ~StartsWith(parts[i], ":")
      BY <1>1, <1>7, <2>4, <2>5
    <3>2. QED
      BY <2>5, <3>1, FirstColonIs
  <2>7. Tail(Join(R, <<Space>>)) = l
    <3>1. Join(R, <<Space>>) = q
      BY <1>2, <1>6, <1>9, SplitJoin DEF Text
    <3>2. QED
      BY <2>2, <3>1
  <2>8. ParamsOf(parts) = Cat(P, <<l>>)
    <3>1. n = FirstColon(parts) /\ n # 0
      BY <1>3, <2>6
    <3>2. ParamsOf(parts) =
            Cat(NonEmpty(UpToPart(parts, n)), <<Tail(Join(FromPart(parts, n), <<Space>>))>>)
      BY <3>1, ParamsIs
    <3>3. QED
      BY <1>12, <2>5, <2>7, <3>2
  <2>9. QED
    BY <1>9, <1>11, <1>13, <2>8
<1>15. CASE ~Trailing(l)
  <2>1. q = l /\ R = <<l>>
    BY <1>1, <1>6, <1>9, <1>15, SplitWhole DEF Text
  <2>2. parts = m.params
    BY <1>11, <1>13, <2>1
  <2>3. ASSUME NEW i \in 1 .. n PROVE m.params[i] # Empty /\ ~StartsWith(m.params[i], colon)
    <3>1. i = n \/ i \in 1 .. n - 1
      BY <1>3
    <3>2. QED
      BY <1>3, <1>4, <1>6, <1>7, <1>15, <3>1
  <2>4. FirstColon(parts) = 0
    <3>1. PICK k : k = FirstColon(parts)
      OBVIOUS
    <3>2. k \in 0 .. n /\ (k # 0 => StartsWith(parts[k], colon))
      BY <1>1, <1>3, <2>2, <3>1, FirstColonFacts
    <3>3. k # 0 => k \in 1 .. n
      BY <1>3, <3>2
    <3>4. QED
      BY <2>2, <2>3, <3>1, <3>2, <3>3
  <2>5. NonEmpty(m.params) = m.params
    BY <1>1, <1>3, <2>3, NonEmptyWhole
  <2>6. Cat(m.params, <<>>) = m.params
    BY <1>3, CatFacts
  <2>7. ParamsOf(parts) = m.params
    BY <2>2, <2>4, <2>5, <2>6, ParamsIs
  <2>8. QED
    BY <1>9, <1>11, <2>7
<1>16. QED
  BY <1>14, <1>15

LEMMA TrimmedIs ==
  ASSUME NEW text, NEW p, NEW r, Trimmed(text, p), Trimmed(text, r),
         Head(p) \notin Blanks, Head(r) \notin Blanks
  PROVE  p = r
<1>1. TrimSpace(text) = p
  <2>1. PICK q \in Text : text = Cat(p, q) /\ OnlyBlanks(q)
    BY DEF Trimmed
  <2>2. QED
    BY <2>1, TrimIs DEF Trimmed
<1>2. TrimSpace(text) = r
  <2>1. PICK q \in Text : text = Cat(r, q) /\ OnlyBlanks(q)
    BY DEF Trimmed
  <2>2. QED
    BY <2>1, TrimIs DEF Trimmed
<1>3. QED
  BY <1>1, <1>2

LEMMA NoParams == ParamsOf(<<>>) = <<>> /\ Returns(<<>>)
<1>1. PICK k, none : k = FirstColon(none) /\ none = <<>>
  OBVIOUS
<1>2. none \in Seq(Text) /\ Len(none) = 0
  BY <1>1
<1>3. k = 0
  <2>1. k \in 0 .. Len(none)
    BY <1>1, <1>2, FirstColonFacts
  <2>2. QED
    BY <1>2, <2>1
<1>4. NonEmpty(none) = none
  BY <1>1, NonEmptyFacts
<1>5. Cat(none, <<>>) = none
  BY <1>2, CatFacts
<1>6. ParamsOf(none) = none
  BY <1>1, <1>3, <1>4, <1>5, ParamsIs
<1>7. Returns(none)
  BY <1>1, <1>2 DEF Returns
<1>8. QED
  BY <1>1, <1>6, <1>7

\* A line without its tags and its source is read as the command and what stands for the parameters.
ReadAs(m, p, parts) ==
  /\ Split(p, Space) = Pre(m.command, parts) /\ Returns(ParamsOf(parts))
  /\ Returns(m.params) => ParamsOf(parts) = m.params

LEMMA PartsRead ==
  ASSUME NEW m \in Messages, NEW p, Trimmed(Body(m), p), Head(p) \in WordSymbols
  PROVE  \E parts \in Seq(Text) : ReadAs(m, p, parts)
<1>1. PICK body, c : body = Body(m) /\ c = m.command
  OBVIOUS
<1>2. PICK word \in WordSymbols : c = <<word>>
  BY <1>1, MessageText
<1>3. /\ word \notin Blanks /\ word \in Symbols /\ Space \in Symbols /\ Space \in Blanks
      /\ Head(p) \notin Blanks
  BY <1>2, SpecialSymbols DEF WordSymbols, Blanks
<1>4. /\ c \in Text /\ c # Empty /\ Head(c) = word /\ EndsWell(c) /\ Without(c, Space)
  <2>1. c \in Text /\ c # Empty /\ Head(c) = word /\ Last(c) = word
    BY <1>2, <1>3 DEF Text, Empty, Last
  <2>2. Without(c, Space)
    BY <1>2, <1>3 DEF Without
  <2>3. QED
    BY <1>3, <2>1, <2>2 DEF EndsWell
<1>5. Split(c, Space) = <<c>>
  BY <1>4, SplitWhole DEF Text
<1>6. PICK none : none = <<>>
  OBVIOUS
<1>7. none \in Seq(Text) /\ Pre(c, none) = <<c>> /\ ParamsOf(none) = none /\ Returns(none)
  <2>1. Pre(c, Empty) = <<c>>
    BY <1>4, PreFacts
  <2>2. QED
    BY <1>6, <2>1, NoParams DEF Empty
<1>8. Empty \in Text /\ OnlyBlanks(Empty) /\ \A t \in Text : Cat(t, Empty) = t
  BY CatFacts DEF OnlyBlanks, Text, Empty
<1>9. \A t \in Text : EndsWell(t) => Trimmed(t, t)
  BY <1>8 DEF Trimmed
<1>10. body \in Text /\ Head(body) = word
  <2>1. body \in Text /\ c = <<Head(body)>>
    BY <1>1, BodyFacts
  <2>2. QED
    BY <1>2, <2>1
<1>11. CASE m.params = <<>>
  <2>1. body = c
    BY <1>1, <1>11, BodyFacts
  <2>2. p = c
    BY <1>1, <1>3, <1>4, <1>9, <2>1, TrimmedIs
  <2>3. ReadAs(m, p, none)
    BY <1>1, <1>5, <1>6, <1>7, <1>11, <2>2 DEF ReadAs
  <2>4. QED
    BY <1>7, <2>3
<1>12. CASE m.params # <<>>
  <2>1. PICK j : j = Join(Quoted(m), <<Space>>)
    OBVIOUS
  <2>2. body = Glue(c, Space, j)
    BY <1>1, <1>12, <2>1, BodyFacts
  <2>3. j \in Text
    <3>1. Joins(Symbols, Space)
      BY <1>3, JoinsWith
    <3>2. Quoted(m) \in Seq(Text)
      BY QuotedFacts
    <3>3. QED
      BY <2>1, <3>1, <3>2 DEF Joins, Text
  <2>4. ASSUME NEW t \in Text
        PROVE  /\ Split(Glue(c, Space, t), Space) = Pre(c, Split(t, Space))
               /\ Split(t, Space) \in Seq(Text)
    <3>1. PICK s : s = Split(t, Space)
      OBVIOUS
    <3>2. s \in Seq(Text)
      BY <3>1, SplitFacts DEF Text
    <3>3. Split(Glue(c, Space, t), Space) = Cat(Split(c, Space), s)
      BY <1>3, <1>4, <3>1, GlueFacts DEF Text
    <3>4. QED
      BY <1>5, <3>1, <3>2, <3>3 DEF Cat, Pre
  <2>5. CASE Returns(m.params)
    <3>1. EndsWell(j) /\ ParamsOf(Split(j, Space)) = m.params
      BY <1>12, <2>1, <2>5, QuotedReturn
    <3>2. EndsWell(body)
      BY <1>3, <1>4, <2>2, <2>3, <3>1, GlueText
    <3>3. p = body
      BY <1>1, <1>3, <1>9, <1>10, <3>2, TrimmedIs
    <3>4. PICK s : s = Split(j, Space)
      OBVIOUS
    <3>5. s \in Seq(Text) /\ Split(p, Space) = Pre(c, s)
      BY <2>2, <2>3, <2>4, <3>3, <3>4
    <3>6. ReadAs(m, p, s)
      BY <1>1, <2>5, <3>1, <3>4, <3>5 DEF ReadAs
    <3>7. QED
      BY <3>5, <3>6
  <2>6. CASE ~Returns(m.params)
    <3>1. PICK t \in Text, q \in Text : j = Cat(t, q) /\ OnlyBlanks(q) /\ (t = Empty \/ EndsWell(t))
      BY <2>3, TrimExists
    <3>2. CASE t = Empty
      <4>1. j = q
        <5>1. Cat(<<>>, q) = q
          BY CatFacts DEF Text
        <5>2. QED
          BY <3>1, <3>2, <5>1 DEF Empty
      <4>2. PICK r, one : r = Pre(Space, q) /\ one = <<Space>>
        OBVIOUS
      <4>3. r \in Text /\ body = Cat(c, r)
        <5>1. r \in Text
          BY <1>3, <4>2, PreText
        <5>2. QED
          BY <1>3, <1>4, <2>2, <4>1, <4>2, <5>1, GlueFacts DEF Text
      <4>4. OnlyBlanks(r)
        <5>1. one \in Text /\ Len(one) = 1 /\ one[1] = Space
          BY <1>3, <4>2 DEF Text
        <5>2. PICK l : l = Len(q)
          OBVIOUS
        <5>3. l \in Nat /\ Len(r) = 1 + l
              /\ \A i \in 1 .. 1 + l : r[i] = IF i <= 1 THEN one[i] ELSE q[i - 1]
          BY <4>2, <5>1, <5>2, ConcatProperties, LenProperties DEF Pre, Text
        <5>4. ASSUME NEW i \in 1 .. Len(r) PROVE r[i] \in Blanks
          <6>1. CASE i = 1
            BY <1>3, <5>1, <5>3, <6>1
          <6>2. CASE i # 1
            <7>1. PICK k : k = i - 1
              OBVIOUS
            <7>2. k \in 1 .. l /\ ~(i <= 1) /\ i \in 1 .. 1 + l
              BY <5>3, <6>2, <7>1
            <7>3. r[i] = q[k]
              BY <5>3, <7>1, <7>2
            <7>4. QED
              BY <3>1, <5>2, <7>2, <7>3 DEF OnlyBlanks
          <6>3. QED
            BY <6>1, <6>2
        <5>5. QED
          BY <5>4 DEF OnlyBlanks
      <4>5. Trimmed(body, c)
        BY <1>4, <4>3, <4>4 DEF Trimmed
      <4>6. p = c
        BY <1>1, <1>3, <1>4, <4>5, TrimmedIs
      <4>7. ReadAs(m, p, none)
        BY <1>1, <1>5, <1>7, <2>6, <4>6 DEF ReadAs
      <4>8. QED
        BY <1>7, <4>7
    <3>3. CASE t # Empty
      <4>1. PICK g, s : g = Glue(c, Space, t) /\ s = Split(t, Space)
        OBVIOUS
      <4>2. EndsWell(t)
        BY <3>1, <3>3
      <4>3. g \in Text /\ EndsWell(g) /\ Head(g) = word
        BY <1>3, <1>4, <4>1, <4>2, GlueText
      <4>4. body = Cat(g, q)
        BY <1>3, <1>4, <2>2, <3>1, <4>1, EndsOf
      <4>5. Trimmed(body, g)
        BY <3>1, <4>3, <4>4 DEF Trimmed
      <4>6. p = g
        BY <1>1, <1>3, <4>3, <4>5, TrimmedIs
      <4>7. Returns(ParamsOf(s))
        BY <4>1, <4>2, ParamsReturn
      <4>8. s \in Seq(Text) /\ Split(p, Space) = Pre(c, s)
        BY <2>4, <4>1, <4>6
      <4>9. ReadAs(m, p, s)
        BY <1>1, <2>6, <4>7, <4>8 DEF ReadAs
      <4>10. QED
        BY <4>8, <4>9
    <3>4. QED
      BY <3>2, <3>3
  <2>7. QED
    BY <2>5, <2>6
<1>13. QED
  BY <1>11, <1>12
-----------------------------------------------------------------------------
(* The round trips.                                                        *)

\* A message read is a message, and the one sent if its parts are.
LEMMA ReadBackAs ==
  ASSUME NEW m \in Messages, NEW g, NEW p, NEW source, NEW rest, Reads(m, g, p, source, rest),
         NEW command, command = ToUpper(Head(Split(rest, Space))),
         NEW params, params = ParamsOf(Tail(Split(rest, Space)))
  PROVE  /\ g # Unreadable /\ g.tags = TagsBack(m)
         /\ [g EXCEPT !.tags = m.tags] = m <=>
              source = m.source /\ command = m.command /\ params = m.params
<1>1. PICK tags : tags = TagsBack(m)
  OBVIOUS
<1>2. g = [tags |-> tags, source |-> source, command |-> command, params |-> params]
  BY <1>1 DEF Reads
<1>3. g # Unreadable
  <2>1. DOMAIN g = {"tags", "source", "command", "params"}
    BY <1>2
  <2>2. DOMAIN Unreadable = {"unreadable"}
    BY DEF Unreadable
  <2>3. "tags" \in DOMAIN g /\ "tags" \notin DOMAIN Unreadable
    BY <2>1, <2>2
  <2>4. QED
    BY <2>3
<1>4. [g EXCEPT !.tags = m.tags] =
        [tags |-> m.tags, source |-> source, command |-> command, params |-> params]
  BY <1>2
<1>5. m = [tags |-> m.tags, source |-> m.source, command |-> m.command, params |-> m.params]
  BY SendableFacts
<1>6. QED
  BY <1>1, <1>2, <1>3, <1>4, <1>5

LEMMA TagsReturn ==
  ASSUME NEW m \in Messages, NEW text \in String(m), NEW g, g = ParseMessage(TrimSpace(text))
  PROVE  (g # Unreadable /\ g.tags = m.tags) <=> \A key \in DOMAIN m.tags : ~Ambiguous(m.tags[key])
<1>1. PICK p, source, rest : Reads(m, g, p, source, rest)
  BY MessageRead
<1>2. g # Unreadable /\ g.tags = TagsBack(m)
  BY <1>1, ReadBackAs
<1>3. ASSUME NEW v \in Text PROVE ReadBack(v) = v <=> ~Ambiguous(v)
  <2>1. CASE v = Empty
    <3>1. ~Ambiguous(Empty)
      BY DEF Ambiguous, Empty
    <3>2. QED
      BY <2>1, <3>1 DEF ReadBack
  <2>2. CASE v # Empty
    BY <2>2, UnescapeEscaped DEF ReadBack
  <2>3. QED
    BY <2>1, <2>2
<1>4. CASE m.tags = Empty
  <2>1. TagsBack(m) = m.tags
    BY <1>4 DEF TagsBack
  <2>2. DOMAIN m.tags = {}
    BY <1>4 DEF Empty
  <2>3. QED
    BY <1>2, <2>1, <2>2
<1>5. CASE m.tags # Empty
  <2>1. PICK K, f : K = DOMAIN m.tags /\ f = [key \in K |-> ReadBack(m.tags[key])]
    OBVIOUS
  <2>2. m.tags \in [K -> Text]
    BY <2>1, SendableFacts
  <2>3. TagsBack(m) = f
    BY <1>5, <2>1 DEF TagsBack
  <2>4. f = m.tags <=> \A key \in K : ReadBack(m.tags[key]) = m.tags[key]
    <3>1. ASSUME f = m.tags, NEW key \in K PROVE ReadBack(m.tags[key]) = m.tags[key]
      <4>1. f[key] = ReadBack(m.tags[key])
        BY <2>1
      <4>2. QED
        BY <3>1, <4>1
    <3>2. ASSUME \A key \in K : ReadBack(m.tags[key]) = m.tags[key] PROVE f = m.tags
      <4>1. m.tags = [key \in K |-> m.tags[key]]
        BY <2>2
      <4>2. QED
        BY <2>1, <3>2, <4>1
    <3>3. QED
      BY <3>1, <3>2
  <2>5. \A key \in K : m.tags[key] \in Text
    BY <2>2
  <2>6. QED
    BY <1>2, <1>3, <2>1, <2>3, <2>4, <2>5
<1>6. QED
  BY <1>4, <1>5

(***************************************************************************)
(* Whatever the tags of a message are and in whatever order they are       *)
(* written, they come back as they were exactly if no value has a          *)
(* backslash before a letter of an escape.                                 *)
(***************************************************************************)
THEOREM TagsRoundTrip == Spec => []TagRoundTrip
<1>1. CodecInv => TagRoundTrip
  BY TagsReturn DEF CodecInv, FormattedInv, ParsedInv, TagRoundTrip, Arrived
<1>2. QED
  BY <1>1, CodecInvariant, PTL

LEMMA MessageReturns ==
  ASSUME NEW m \in Messages, NEW text \in String(m), NEW g, g = ParseMessage(TrimSpace(text))
  PROVE  (g # Unreadable /\ [g EXCEPT !.tags = m.tags] = m)
           <=> /\ \A i \in 1 .. Len(m.params) - 1 : Plain(m.params[i])
               /\ m.command = ToUpper(m.command) /\ Index(m.source, Space) = 0
               /\ ~EndsWith(GetTrailing(m), Space)
<1>1. PICK p, source, rest : Reads(m, g, p, source, rest)
  BY MessageRead
<1>2. PICK command, params :
        command = ToUpper(Head(Split(rest, Space))) /\ params = ParamsOf(Tail(Split(rest, Space)))
  OBVIOUS
<1>3. /\ g # Unreadable
      /\ [g EXCEPT !.tags = m.tags] = m <=>
           source = m.source /\ command = m.command /\ params = m.params
  BY <1>1, <1>2, ReadBackAs
<1>4. Index(m.source, Space) = 0 <=> Without(m.source, Space)
  <2>1. m.source \in Text
    BY MessageText
  <2>2. QED
    BY <2>1, IndexFacts DEF Without, Text
<1>5. /\ \A i \in 1 .. Len(m.params) - 1 : Plain(m.params[i])
      /\ ~EndsWith(GetTrailing(m), Space)
      <=> Returns(m.params)
  <2>1. CASE m.params = <<>>
    <3>1. ~EndsWith(GetTrailing(m), Space)
      BY <2>1 DEF GetTrailing, EndsWith
    <3>2. QED
      BY <2>1, <3>1 DEF Returns
  <2>2. CASE m.params # <<>>
    BY <2>2 DEF Returns, GetTrailing
  <2>3. QED
    BY <2>1, <2>2
<1>6. CASE ~Without(m.source, Space)
  <2>1. source # m.source
    BY <1>1, <1>6 DEF Reads
  <2>2. QED
    BY <1>3, <1>4, <1>6, <2>1
<1>7. CASE Without(m.source, Space)
  <2>1. source = m.source /\ rest = p /\ Trimmed(Body(m), p) /\ Head(p) \in WordSymbols
    BY <1>1, <1>7 DEF Reads
  <2>2. PICK parts \in Seq(Text) : ReadAs(m, p, parts)
    BY <2>1, PartsRead
  <2>3. PICK c, s : c = m.command /\ s = Pre(c, parts)
    OBVIOUS
  <2>4. Head(s) = c /\ Tail(s) = parts
    <3>1. c \in Text
      BY <2>3, MessageText
    <3>2. \A x \in Text, t \in Seq(Text) : Head(Pre(x, t)) = x /\ Tail(Pre(x, t)) = t
      BY PreFacts
    <3>3. QED
      BY <2>3, <3>1, <3>2
  <2>5. Split(rest, Space) = s
    BY <2>1, <2>2, <2>3 DEF ReadAs
  <2>6. command = ToUpper(c) /\ params = ParamsOf(parts)
    BY <1>2, <2>4, <2>5
  <2>7. params = m.params <=> Returns(m.params)
    BY <2>2, <2>6 DEF ReadAs
  <2>8. QED
    BY <1>3, <1>4, <1>5, <1>7, <2>1, <2>3, <2>6, <2>7
<1>8. QED
  BY <1>6, <1>7

(***************************************************************************)
(* Whatever the message, with parameters, a source and tags of any length  *)
(* and any symbols: it comes back as it was exactly if its parameters but  *)
(* the last are words, its command is in upper case, its source has no     *)
(* space and its last parameter does not end in one.                       *)
(***************************************************************************)
THEOREM MessagesRoundTrip == Spec => []MessageRoundTrip
<1>1. CodecInv => MessageRoundTrip
  BY MessageReturns DEF CodecInv, FormattedInv, ParsedInv, MessageRoundTrip, Arrived
<1>2. QED
  BY <1>1, CodecInvariant, PTL
=============================================================================
