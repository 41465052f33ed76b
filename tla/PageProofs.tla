------------------------------- MODULE PageProofs ------------------------------
(***************************************************************************)
(* Downloads, for any number of them, on the page of one file and on the   *)
(* page of a group of any size: what the page calls saved is whole, no     *)
(* download hangs, the worker serves what it was given in time, a page     *)
(* that has withdrawn its file starts nothing any more, and the list of a  *)
(* group is complete.  On the page of an upload, what is still on the      *)
(* server can be deleted, for any number of files and of deletions.  The   *)
(* stream that decrypts is first: files and chunks of any size, for every  *)
(* body a server may send, in whatever pieces it arrives.  The names in a  *)
(* zip are last.                                                           *)
(***************************************************************************)
EXTENDS CipherStream, ViewPage, GroupPage, ZipNames, ResultPage,
        SequenceTheorems, WellFoundedInduction, TLAPS

\* The n-th chunk that came out is the n-th of the file.
StreamInv ==
    /\ out \in Seq(Nat) /\ chunkIndex = Len(out) /\ Len(out) <= Chunks
    /\ \A n \in 1 .. Len(out) : out[n] = n - 1
    /\ mode \in {"none", "v1", "v2"} /\ (mode # "none" => mode = fmt)
    /\ state \in {"open", "closed", "failed"}
    /\ state = "closed" /\ mode = "v2" => Len(out) = Chunks

\* The first byte of a sealed chunk names its place.
LEMMA SealedPlace ==
    ASSUME NEW i \in Index
    PROVE  Sealed(i)[1][1] = i
  BY StreamBounds DEF Index, Sealed

\* A chunk that opens is the next one, and the last one of a v2 file if it opened
\* as that.
LEMMA DecryptsNext ==
    ASSUME StreamInv, state = "open", NEW bytes, NEW isFinal \in BOOLEAN,
           Decrypts(bytes, isFinal)
    PROVE  /\ out' = Append(out, chunkIndex) /\ chunkIndex' = chunkIndex + 1
           /\ chunkIndex < Chunks
           /\ mode' \in {"v1", "v2"} /\ mode' = fmt
           /\ isFinal /\ fmt = "v2" => chunkIndex = Chunks - 1
  <1>1. PICK as \in Candidates :
            /\ Opens(bytes, chunkIndex, isFinal, as)
            /\ mode' = as /\ chunkIndex' = chunkIndex + 1
            /\ out' = Append(out, bytes[1][1])
    BY DEF Decrypts
  <1>2. chunkIndex \in Index /\ bytes = Sealed(chunkIndex) /\ as = fmt
    BY <1>1 DEF Opens
  <1>3. bytes[1][1] = chunkIndex
    BY <1>2, SealedPlace
  <1>4. as \in {"v1", "v2"}
    BY <1>2 DEF Candidates, StreamInv
  <1>5. isFinal /\ fmt = "v2" => chunkIndex = Chunks - 1
    BY <1>1 DEF Opens
  <1>6. chunkIndex < Chunks
    BY <1>2, StreamBounds DEF Index
  <1> QED
    BY <1>1, <1>2, <1>3, <1>4, <1>5, <1>6

\* What came out so far stays, and the next chunk follows it.
LEMMA OutGrows ==
    ASSUME StreamInv, chunkIndex < Chunks, out' = Append(out, chunkIndex),
           chunkIndex' = chunkIndex + 1
    PROVE  /\ out' \in Seq(Nat) /\ chunkIndex' = Len(out') /\ Len(out') <= Chunks
           /\ \A n \in 1 .. Len(out') : out'[n] = n - 1
  BY StreamBounds DEF StreamInv

\* Before the first byte nothing has been put out.
LEMMA StreamInvInit == StreamInit => StreamInv
  BY StreamBounds DEF StreamInit, StreamInv

\* No step of the stream breaks its invariant.
LEMMA StreamInvStep == StreamInv /\ [StreamStep]_streamVars => StreamInv'
  <1> SUFFICES ASSUME StreamInv, [StreamStep]_streamVars PROVE StreamInv'
    OBVIOUS
  <1>1. CASE Receive
    BY <1>1 DEF Receive, StreamInv
  <1>2. CASE DecryptFull
    <2> DEFINE front == SubSeq(buffer, 1, Full)
    <2>1. CASE Decrypts(front, FALSE) /\ UNCHANGED <<fmt, state>>
      <3>1. state = "open"
        BY <1>2 DEF DecryptFull
      <3> QED
        BY <2>1, <3>1, DecryptsNext, OutGrows DEF StreamInv
    <2>2. CASE Rejects(front, FALSE)
      BY <1>2, <2>2 DEF DecryptFull, Rejects, Fail, StreamInv
    <2> QED
      BY <1>2, <2>1, <2>2 DEF DecryptFull
  <1>3. CASE Flush
    <2>1. state = "open" /\ fmt' = fmt
      BY <1>3 DEF Flush
    <2>2. CASE FlushEmpty
      BY <2>1, <2>2 DEF FlushEmpty, MissesFinal, Fail, StreamInv
    <2>3. CASE Decrypts(buffer, TRUE) /\ state' = "closed"
      <3>1. /\ out' = Append(out, chunkIndex) /\ chunkIndex' = chunkIndex + 1
            /\ chunkIndex < Chunks /\ mode' \in {"v1", "v2"} /\ mode' = fmt
            /\ fmt = "v2" => chunkIndex = Chunks - 1
        BY <2>1, <2>3, DecryptsNext
      <3>2. /\ out' \in Seq(Nat) /\ chunkIndex' = Len(out') /\ Len(out') <= Chunks
            /\ \A n \in 1 .. Len(out') : out'[n] = n - 1
        BY <3>1, OutGrows
      <3>3. fmt = "v2" => Len(out') = Chunks
        BY <3>1, <3>2, StreamBounds DEF StreamInv
      <3> QED
        BY <2>1, <2>3, <3>1, <3>2, <3>3 DEF StreamInv
    <2>4. CASE Fail
      BY <2>1, <2>4 DEF Fail, StreamInv
    <2> QED
      BY <1>3, <2>2, <2>3, <2>4 DEF Flush, FlushLast, Rejects
  <1>4. CASE UNCHANGED streamVars
    BY <1>4 DEF streamVars, StreamInv
  <1> QED
    BY <1>1, <1>2, <1>3, <1>4 DEF StreamStep

\* Whatever the server sends and however it is cut, the plaintext handed on is
\* the beginning of the file: chunks are not swapped, repeated or skipped.
THEOREM PlaintextIsPrefix == StreamSpec => []OutputIsPrefix
  <1>1. StreamInv => OutputIsPrefix
    BY DEF StreamInv, OutputIsPrefix
  <1> QED
    BY <1>1, StreamInvInit, StreamInvStep, PTL DEF StreamSpec

\* A stream that chunk 0 showed to be v2 ends without an error only when all of
\* the file came out.
THEOREM TruncationIsAnError == StreamSpec => []WholeOrError
  <1>1. StreamInv => WholeOrError
    BY DEF StreamInv, WholeOrError
  <1> QED
    BY <1>1, StreamInvInit, StreamInvStep, PTL DEF StreamSpec

-----------------------------------------------------------------------------
(* An undamaged body: what remains of it after each chunk.                 *)

\* A set of naturals has a least element.  (Induction over the chunks of a file
\* looks at the first one a claim fails for.)
LEMMA LeastNatural ==
    ASSUME NEW T, T \subseteq Nat, T # {}
    PROVE  \E x \in T : \A y \in T : x <= y
  <1> DEFINE R == OpToRel(<, Nat)
  <1>1. \A x, y \in Nat : x < y => <<x, y>> \in R
    BY DEF OpToRel
  <1>2. IsWellFoundedOn(R, Nat)
    BY NatLessThanWellFounded
  <1> HIDE DEF R
  <1>3. PICK x \in T : \A y \in T : ~ (<<y, x>> \in R)
    BY <1>2, WFMin
  <1>4. \A y \in T : ~(y < x) /\ y \in Nat /\ x \in Nat
    BY <1>1, <1>3
  <1>5. \A y \in T : x <= y
    BY <1>4
  <1> QED BY <1>5

\* So what holds of 0, and of n + 1 whenever of n, holds of all.
LEMMA AllOf ==
    ASSUME NEW N \in Nat, NEW Good, 0 \in Good,
           \A n \in 0 .. N - 1 : n \in Good => n + 1 \in Good
    PROVE  \A n \in 0 .. N : n \in Good
  <1> DEFINE T == {n \in 0 .. N : n \notin Good}
  <1>1. SUFFICES ASSUME T # {} PROVE FALSE
    OBVIOUS
  <1>2. PICK x \in T : \A y \in T : x <= y
    <2>1. T \subseteq Nat
      OBVIOUS
    <2> HIDE DEF T
    <2> QED BY <1>1, <2>1, LeastNatural
  <1>3. x \in 1 .. N /\ x - 1 \in 0 .. N - 1 /\ x - 1 \in Good
    BY <1>2
  <1>4. (x - 1) + 1 \in Good
    BY <1>3
  <1>5. x \in Good
    BY <1>3, <1>4
  <1> QED BY <1>5

Unit == Index \X Nat
Order == [i \in 1 .. Chunks |-> i - 1]

\* A sealed chunk is a sequence of its own size.
LEMMA SealedUnits ==
    ASSUME NEW i \in Index
    PROVE  /\ Sealed(i) \in Seq(Unit)
           /\ Len(Sealed(i)) = IF i = Chunks - 1 THEN Last ELSE Full
  BY StreamBounds DEF Sealed, Unit

\* The joining of chunks is what its recursive equation says.
JoinsUpto(f, n) == f = [k \in 0 .. n |-> IF k = 0 THEN <<>> ELSE f[k - 1] \o Sealed(Order[k])]

\* One chunk more can always be joined.
LEMMA JoinsExist == \A n \in 0 .. Chunks : \E f : JoinsUpto(f, n)
  <1> DEFINE Good == {n \in 0 .. Chunks : \E f : JoinsUpto(f, n)}
  <1>1. 0 \in Good
    <2>1. JoinsUpto([k \in 0 .. 0 |-> <<>>], 0)
      BY DEF JoinsUpto
    <2> QED BY <2>1, StreamBounds
  <1>2. ASSUME NEW n \in 0 .. Chunks - 1, n \in Good PROVE n + 1 \in Good
    <2>1. PICK f : JoinsUpto(f, n)
      BY <1>2
    <2> DEFINE g == [k \in 0 .. n + 1 |-> IF k <= n THEN f[k] ELSE f[n] \o Sealed(Order[n + 1])]
    <2>2. \A k \in 0 .. n : g[k] = IF k = 0 THEN <<>> ELSE f[k - 1] \o Sealed(Order[k])
      BY <2>1, StreamBounds DEF JoinsUpto
    <2>3. \A k \in 0 .. n + 1 : k # 0 => k - 1 \in 0 .. n /\ g[k - 1] = f[k - 1]
      BY StreamBounds
    <2>4. \A k \in 0 .. n + 1 : g[k] = IF k = 0 THEN <<>> ELSE g[k - 1] \o Sealed(Order[k])
      <3>1. g[n + 1] = f[n] \o Sealed(Order[n + 1])
        BY StreamBounds
      <3> HIDE DEF g
      <3>2. ASSUME NEW k \in 0 .. n + 1
            PROVE  g[k] = IF k = 0 THEN <<>> ELSE g[k - 1] \o Sealed(Order[k])
        <4>1. CASE k \in 0 .. n
          BY <2>2, <2>3, <4>1
        <4>2. CASE k = n + 1
          <5>1. k # 0 /\ k - 1 = n
            BY <4>2, StreamBounds
          <5>2. g[k] = f[k - 1] \o Sealed(Order[k])
            BY <3>1, <4>2, <5>1
          <5> QED BY <2>3, <5>1, <5>2
        <4> QED BY <4>1, <4>2, StreamBounds
      <3> QED BY <3>2
    <2>5. DOMAIN g = 0 .. n + 1 /\ g = [k \in 0 .. n + 1 |-> g[k]]
      OBVIOUS
    <2> HIDE DEF g
    <2>6. JoinsUpto(g, n + 1)
      BY <2>4, <2>5 DEF JoinsUpto
    <2> QED BY <2>6, StreamBounds
  <1> HIDE DEF Good
  <1>3. \A n \in 0 .. Chunks : n \in Good
    BY <1>1, <1>2, AllOf, StreamBounds
  <1> QED BY <1>3 DEF Good

\* The stored body is made by that joining.
LEMMA StoredIsJoined ==
    \E f : JoinsUpto(f, Chunks) /\ Stored = f[Chunks]
  <1> DEFINE U == CHOOSE f : f = [k \in 0 .. Len(Order) |->
                                     IF k = 0 THEN <<>> ELSE f[k - 1] \o Sealed(Order[k])]
  <1>1. Len(Order) = Chunks
    BY StreamBounds DEF Order
  <1>2. \E f : f = [k \in 0 .. Len(Order) |->
                        IF k = 0 THEN <<>> ELSE f[k - 1] \o Sealed(Order[k])]
    <2>1. \E f : JoinsUpto(f, Chunks)
      BY JoinsExist, StreamBounds
    <2>2. \E f : JoinsUpto(f, Len(Order))
      BY <1>1, <2>1
    <2> QED BY <2>2 DEF JoinsUpto
  <1>3. JoinsUpto(U, Chunks)
    <2>1. JoinsUpto(U, Len(Order))
      BY <1>2 DEF JoinsUpto
    <2> HIDE DEF U
    <2> QED BY <1>1, <2>1
  <1>4. Stored = U[Chunks]
    BY <1>1 DEF Stored, Joined, Order
  <1> QED BY <1>3, <1>4

\* Three pieces may be joined either way.
LEMMA Regroups == \A a, b, c \in Seq(Unit) : (a \o b) \o c = a \o (b \o c)
  <1> SUFFICES ASSUME NEW a \in Seq(Unit), NEW b \in Seq(Unit), NEW c \in Seq(Unit)
               PROVE  (a \o b) \o c = a \o (b \o c)
    OBVIOUS
  <1> QED BY ConcatAssociative

\* What was joined comes apart where it was joined.
LEMMA TakenApart ==
    \A a, b \in Seq(Unit) : /\ a \o b \in Seq(Unit) /\ Len(a \o b) = Len(a) + Len(b)
                            /\ SubSeq(a \o b, 1, Len(a)) = a
                            /\ SubSeq(a \o b, Len(a) + 1, Len(a \o b)) = b
  OBVIOUS

\* What follows a common beginning is the same.
LEMMA Cancels == \A a, b, c \in Seq(Unit) : a \o b = a \o c => b = c
  <1> SUFFICES ASSUME NEW a \in Seq(Unit), NEW b \in Seq(Unit), NEW c \in Seq(Unit),
                      a \o b = a \o c
               PROVE  b = c
    OBVIOUS
  <1>1. /\ SubSeq(a \o b, Len(a) + 1, Len(a \o b)) = b
        /\ SubSeq(a \o c, Len(a) + 1, Len(a \o c)) = c
    BY TakenApart
  <1> QED BY <1>1

\* The first chunks of the stored body, and the rest after them.
LEMMA StoredSplits ==
    \E front \in [0 .. Chunks -> Seq(Unit)] :
        /\ front[0] = <<>> /\ front[Chunks] = Stored
        /\ \A i \in Index : front[i + 1] = front[i] \o Sealed(i)
        /\ \A i \in 0 .. Chunks : \E r \in Seq(Unit) : Stored = front[i] \o r
  <1>1. PICK f : JoinsUpto(f, Chunks) /\ Stored = f[Chunks]
    BY StoredIsJoined
  <1>2. /\ DOMAIN f = 0 .. Chunks /\ f = [k \in 0 .. Chunks |-> f[k]]
        /\ f[0] = <<>>
        /\ \A i \in Index : f[i + 1] = f[i] \o Sealed(i)
    <2>1. \A k \in 0 .. Chunks : f[k] = IF k = 0 THEN <<>> ELSE f[k - 1] \o Sealed(Order[k])
      BY <1>1 DEF JoinsUpto
    <2>2. DOMAIN f = 0 .. Chunks /\ f = [k \in 0 .. Chunks |-> f[k]]
      BY <1>1 DEF JoinsUpto
    <2>3. ASSUME NEW i \in Index PROVE f[i + 1] = f[i] \o Sealed(i)
      <3>1. i + 1 \in 0 .. Chunks /\ i + 1 # 0 /\ (i + 1) - 1 = i /\ Order[i + 1] = i
        BY StreamBounds DEF Index, Order
      <3>2. f[i + 1] = f[(i + 1) - 1] \o Sealed(Order[i + 1])
        BY <2>1, <3>1
      <3> QED BY <3>1, <3>2
    <2>4. 0 \in 0 .. Chunks
      BY StreamBounds
    <2>5. f[0] = <<>>
      BY <2>1, <2>4
    <2> QED BY <2>2, <2>3, <2>5
  <1>3. \A k \in 0 .. Chunks : f[k] \in Seq(Unit)
    <2> DEFINE Good == {k \in 0 .. Chunks : f[k] \in Seq(Unit)}
    <2>1. 0 \in Good
      <3>1. 0 \in 0 .. Chunks /\ f[0] \in Seq(Unit)
        <4>1. <<>> \in Seq(Unit)
          OBVIOUS
        <4>2. f[0] = <<>>
          BY <1>2
        <4>3. f[0] \in Seq(Unit)
          BY <4>1, <4>2
        <4> QED BY <4>3, StreamBounds
      <3> QED BY <3>1
    <2>2. ASSUME NEW n \in 0 .. Chunks - 1, n \in Good PROVE n + 1 \in Good
      <3>1. n \in Index /\ n + 1 \in 0 .. Chunks /\ f[n] \in Seq(Unit)
        BY <2>2, StreamBounds DEF Index
      <3>2. f[n] \o Sealed(n) \in Seq(Unit)
        BY <3>1, SealedUnits
      <3>3. f[n + 1] \in Seq(Unit)
        BY <1>2, <3>1, <3>2
      <3> QED BY <3>1, <3>3
    <2> HIDE DEF Good
    <2>3. \A k \in 0 .. Chunks : k \in Good
      BY <2>1, <2>2, AllOf, StreamBounds
    <2> QED BY <2>3 DEF Good
  <1>4. \A k \in 0 .. Chunks : \E r \in Seq(Unit) : Stored = f[Chunks - k] \o r
    <2> DEFINE Good == {k \in 0 .. Chunks : \E r \in Seq(Unit) : Stored = f[Chunks - k] \o r}
    <2>1. 0 \in Good
      <3>1. Chunks \in 0 .. Chunks /\ Chunks - 0 = Chunks /\ <<>> \in Seq(Unit)
        BY StreamBounds
      <3>2. Stored = f[Chunks] \o <<>>
        BY <1>1, <1>3, <3>1, ConcatEmptySeq
      <3>3. Stored = f[Chunks - 0] \o <<>>
        BY <3>1, <3>2
      <3>4. 0 \in 0 .. Chunks
        BY StreamBounds
      <3> QED BY <3>1, <3>3, <3>4
    <2>2. ASSUME NEW n \in 0 .. Chunks - 1, n \in Good PROVE n + 1 \in Good
      <3>1. PICK r \in Seq(Unit) : Stored = f[Chunks - n] \o r
        BY <2>2
      <3>2. PICK i \in Index : i = Chunks - (n + 1) /\ i + 1 = Chunks - n /\ i \in 0 .. Chunks
        BY StreamBounds DEF Index
      <3>3. Stored = (f[i] \o Sealed(i)) \o r
        BY <1>2, <3>1, <3>2
      <3>4. f[i] \in Seq(Unit) /\ Sealed(i) \in Seq(Unit)
        BY <1>3, <3>2, SealedUnits
      <3>5. Stored = f[i] \o (Sealed(i) \o r) /\ Sealed(i) \o r \in Seq(Unit)
        <4>1. (f[i] \o Sealed(i)) \o r = f[i] \o (Sealed(i) \o r)
          BY <3>1, <3>4, Regroups
        <4>2. Sealed(i) \o r \in Seq(Unit)
          BY <3>1, <3>4
        <4> QED BY <3>3, <4>1, <4>2
      <3>6. n + 1 \in 0 .. Chunks
        BY StreamBounds
      <3> QED BY <3>2, <3>5, <3>6
    <2> HIDE DEF Good
    <2>3. \A k \in 0 .. Chunks : k \in Good
      BY <2>1, <2>2, AllOf, StreamBounds
    <2> QED BY <2>3 DEF Good
  <1>5. \A i \in 0 .. Chunks : \E r \in Seq(Unit) : Stored = f[i] \o r
    <2> SUFFICES ASSUME NEW i \in 0 .. Chunks PROVE \E r \in Seq(Unit) : Stored = f[i] \o r
      OBVIOUS
    <2>1. PICK k \in 0 .. Chunks : Chunks - k = i
      <3>1. Chunks - i \in 0 .. Chunks /\ Chunks - (Chunks - i) = i
        BY StreamBounds
      <3> QED BY <3>1
    <2> QED BY <1>4, <2>1
  <1>6. f \in [0 .. Chunks -> Seq(Unit)]
    BY <1>2, <1>3
  <1> QED BY <1>1, <1>2, <1>5, <1>6

IsRest(rest) ==
    /\ rest \in [0 .. Chunks -> Seq(Unit)]
    /\ rest[0] = Stored /\ rest[Chunks] = <<>>
    /\ \A i \in Index : rest[i] = Sealed(i) \o rest[i + 1]

\* Rest[i]: what of the stored body is left when i chunks are taken off.
Rest == CHOOSE rest : IsRest(rest)

\* There is such a rest.
LEMMA RestIs == IsRest(Rest)
  <1>1. PICK front \in [0 .. Chunks -> Seq(Unit)] :
            /\ front[0] = <<>> /\ front[Chunks] = Stored
            /\ \A i \in Index : front[i + 1] = front[i] \o Sealed(i)
            /\ \A i \in 0 .. Chunks : \E r \in Seq(Unit) : Stored = front[i] \o r
    BY StoredSplits
  <1> DEFINE rest == [i \in 0 .. Chunks |-> CHOOSE r \in Seq(Unit) : Stored = front[i] \o r]
  <1>2. \A i \in 0 .. Chunks : rest[i] \in Seq(Unit) /\ Stored = front[i] \o rest[i]
    BY <1>1
  <1>3. rest \in [0 .. Chunks -> Seq(Unit)]
    BY <1>2
  <1> HIDE DEF rest
  <1>4. 0 \in 0 .. Chunks /\ Chunks \in 0 .. Chunks
    BY StreamBounds
  <1>5. rest[0] = Stored
    <2>1. rest[0] \in Seq(Unit) /\ Stored = <<>> \o rest[0]
      BY <1>1, <1>2, <1>4
    <2>2. <<>> \o rest[0] = rest[0]
      BY <2>1, ConcatEmptySeq
    <2> QED BY <2>1, <2>2
  <1>6. rest[Chunks] = <<>>
    BY <1>1, <1>2, <1>4, ConcatEqualIffEmpty
  <1>7. ASSUME NEW i \in Index PROVE rest[i] = Sealed(i) \o rest[i + 1]
    <2>1. i \in 0 .. Chunks /\ i + 1 \in 0 .. Chunks
      BY StreamBounds DEF Index
    <2>2. /\ front[i] \in Seq(Unit) /\ rest[i] \in Seq(Unit) /\ rest[i + 1] \in Seq(Unit)
          /\ Sealed(i) \in Seq(Unit)
      BY <1>1, <1>2, <2>1, SealedUnits
    <2>3. front[i] \o rest[i] = (front[i] \o Sealed(i)) \o rest[i + 1]
      BY <1>1, <1>2, <2>1
    <2>4. front[i] \o rest[i] = front[i] \o (Sealed(i) \o rest[i + 1])
          /\ Sealed(i) \o rest[i + 1] \in Seq(Unit)
      <3>1. (front[i] \o Sealed(i)) \o rest[i + 1] = front[i] \o (Sealed(i) \o rest[i + 1])
        BY <2>2, Regroups
      <3>2. Sealed(i) \o rest[i + 1] \in Seq(Unit)
        BY <2>2
      <3> QED BY <2>3, <3>1, <3>2
    <2> QED BY <2>2, <2>4, Cancels
  <1>8. IsRest(rest)
    BY <1>3, <1>5, <1>6, <1>7 DEF IsRest
  <1> QED BY <1>8 DEF Rest

\* What is cut anywhere can be joined again.
LEMMA Cuts ==
    \A a \in Seq(Unit) : \A n \in 0 .. Len(a) :
        /\ SubSeq(a, 1, n) \in Seq(Unit) /\ Len(SubSeq(a, 1, n)) = n
        /\ SubSeq(a, n + 1, Len(a)) \in Seq(Unit)
        /\ SubSeq(a, 1, n) \o SubSeq(a, n + 1, Len(a)) = a
  <1> SUFFICES ASSUME NEW a \in Seq(Unit), NEW n \in 0 .. Len(a)
               PROVE  /\ SubSeq(a, 1, n) \in Seq(Unit) /\ Len(SubSeq(a, 1, n)) = n
                      /\ SubSeq(a, n + 1, Len(a)) \in Seq(Unit)
                      /\ SubSeq(a, 1, n) \o SubSeq(a, n + 1, Len(a)) = a
    OBVIOUS
  <1>1. SubSeq(a, 1, n) \in Seq(Unit) /\ Len(SubSeq(a, 1, n)) = n
    OBVIOUS
  <1>2. SubSeq(a, n + 1, Len(a)) \in Seq(Unit)
    OBVIOUS
  <1>3. SubSeq(a, 1, n) \o SubSeq(a, n + 1, Len(a)) = SubSeq(a, 1, Len(a))
    <2>1. 1 \in 1 .. Len(a) + 1 /\ n \in 1 - 1 .. Len(a) /\ Len(a) \in n .. Len(a)
      OBVIOUS
    <2> QED BY <2>1, ConcatAdjacentSubSeq
  <1>4. SubSeq(a, 1, Len(a)) = a
    BY SubSeqFull
  <1> QED BY <1>1, <1>2, <1>3, <1>4

\* How much is left, and what comes first of it.
LEMMA RestSizes ==
    /\ \A i \in Index : /\ SubSeq(Rest[i], 1, Len(Sealed(i))) = Sealed(i)
                        /\ i # Chunks - 1 =>
                               /\ Len(Rest[i]) > Full
                               /\ SubSeq(Rest[i], Full + 1, Len(Rest[i])) = Rest[i + 1]
    /\ Rest[Chunks - 1] = Sealed(Chunks - 1)
  <1>1. Rest \in [0 .. Chunks -> Seq(Unit)] /\ Rest[Chunks] = <<>>
        /\ \A i \in Index : Rest[i] = Sealed(i) \o Rest[i + 1]
    BY RestIs DEF IsRest
  <1>2. ASSUME NEW i \in Index
        PROVE  /\ Rest[i] \in Seq(Unit) /\ Rest[i + 1] \in Seq(Unit) /\ Sealed(i) \in Seq(Unit)
               /\ Len(Rest[i]) = Len(Sealed(i)) + Len(Rest[i + 1])
    BY <1>1, SealedUnits, StreamBounds DEF Index
  <1>3. ASSUME NEW i \in Index
        PROVE  SubSeq(Rest[i], 1, Len(Sealed(i))) = Sealed(i)
    BY <1>1, <1>2
  <1>4. ASSUME NEW i \in Index, i # Chunks - 1
        PROVE  Len(Rest[i]) > Full /\ SubSeq(Rest[i], Full + 1, Len(Rest[i])) = Rest[i + 1]
    <2>1. i + 1 \in Index /\ Len(Sealed(i)) = Full
      BY <1>4, SealedUnits, StreamBounds DEF Index
    <2>2. Len(Rest[i + 1]) >= Len(Sealed(i + 1)) /\ Len(Sealed(i + 1)) >= 1
      BY <1>2, <2>1, SealedUnits, StreamBounds
    <2>3. Len(Rest[i]) > Full
      BY <1>2, <2>1, <2>2, StreamBounds
    <2>4. SubSeq(Rest[i], Full + 1, Len(Rest[i])) = Rest[i + 1]
      <3>1. SubSeq(Sealed(i) \o Rest[i + 1], Len(Sealed(i)) + 1, Len(Sealed(i) \o Rest[i + 1]))
                = Rest[i + 1]
        BY <1>2, TakenApart
      <3> QED BY <1>1, <2>1, <3>1
    <2> QED BY <2>3, <2>4
  <1>5. Rest[Chunks - 1] = Sealed(Chunks - 1)
    <2>1. Chunks - 1 \in Index /\ (Chunks - 1) + 1 = Chunks
      BY StreamBounds DEF Index
    <2>2. Rest[Chunks - 1] = Sealed(Chunks - 1) \o <<>>
      BY <1>1, <2>1
    <2> QED BY <2>1, <2>2, SealedUnits, ConcatEmptySeq
  <1> QED BY <1>3, <1>4, <1>5

\* While the stored body streams, what is buffered and what is to come are what
\* is left after the chunks that came out, and the last chunk is still to come.
IntactInv ==
    body = Stored =>
        /\ mode \in {"none", fmt} /\ fmt \in {"v1", "v2"}
        /\ state = "open" => /\ chunkIndex \in Index
                             /\ buffer \in Seq(Unit) /\ wire \in Seq(Unit)
                             /\ buffer \o wire = Rest[chunkIndex]
        /\ state = "open" \/ (state = "closed" /\ chunkIndex = Chunks)

\* All of the body is still to come.
LEMMA IntactInvInit == StreamInit => IntactInv
  <1> SUFFICES ASSUME StreamInit, body = Stored PROVE IntactInv
    BY DEF IntactInv
  <1>1. Stored = Rest[0] /\ Rest[0] \in Seq(Unit)
    BY RestIs, StreamBounds DEF IsRest
  <1>2. <<>> \o Stored = Stored
    BY <1>1, ConcatEmptySeq
  <1> QED BY <1>1, <1>2, StreamBounds DEF StreamInit, IntactInv, Index

\* The next chunk opens: as the last one if and only if it is.
LEMMA OpensNext ==
    ASSUME IntactInv, body = Stored, state = "open", NEW bytes,
           bytes = Sealed(chunkIndex), NEW isFinal \in BOOLEAN,
           isFinal <=> chunkIndex = Chunks - 1
    PROVE  /\ ~Rejects(bytes, isFinal)
           /\ Decrypts(bytes, isFinal) => mode' = fmt /\ chunkIndex' = chunkIndex + 1
  <1>1. fmt \in Candidates /\ Opens(bytes, chunkIndex, isFinal, fmt)
    BY DEF IntactInv, Candidates, Opens
  <1>2. ~Rejects(bytes, isFinal)
    BY <1>1 DEF Rejects
  <1>3. Decrypts(bytes, isFinal) => mode' = fmt /\ chunkIndex' = chunkIndex + 1
    BY DEF Decrypts, Opens
  <1> QED BY <1>2, <1>3

\* No step of the stream breaks the invariant.
LEMMA IntactInvStep == IntactInv /\ [StreamStep]_streamVars => IntactInv'
  <1> SUFFICES ASSUME IntactInv, [StreamStep]_streamVars, body' = Stored PROVE IntactInv'
    BY DEF IntactInv
  <1>1. body = Stored
    BY DEF StreamStep, Receive, DecryptFull, Flush, streamVars
  <1>2. CASE Receive
    <2>1. /\ state = "open" /\ buffer \in Seq(Unit) /\ wire \in Seq(Unit)
          /\ buffer \o wire = Rest[chunkIndex] /\ chunkIndex \in Index
      BY <1>1, <1>2 DEF Receive, IntactInv
    <2>2. PICK n \in 1 .. Len(wire) :
              /\ buffer' = buffer \o SubSeq(wire, 1, n)
              /\ wire' = SubSeq(wire, n + 1, Len(wire))
      BY <1>2 DEF Receive
    <2>3. /\ SubSeq(wire, 1, n) \in Seq(Unit) /\ wire' \in Seq(Unit)
          /\ SubSeq(wire, 1, n) \o wire' = wire
      BY <2>1, <2>2, Cuts
    <2>4. buffer' \o wire' = buffer \o (SubSeq(wire, 1, n) \o wire')
      BY <2>1, <2>2, <2>3, Regroups
    <2>5. buffer' \in Seq(Unit) /\ buffer' \o wire' = Rest[chunkIndex]
      <3>1. buffer' \in Seq(Unit)
        BY <2>1, <2>2, <2>3, TakenApart
      <3> QED BY <2>1, <2>3, <2>4, <3>1
    <2> QED BY <1>1, <1>2, <2>1, <2>3, <2>5 DEF Receive, IntactInv
  <1>3. CASE DecryptFull
    <2>1. /\ state = "open" /\ buffer \in Seq(Unit) /\ wire \in Seq(Unit) /\ wire' = wire
          /\ buffer \o wire = Rest[chunkIndex] /\ chunkIndex \in Index /\ Len(buffer) > Full
      BY <1>1, <1>3 DEF DecryptFull, Drains, IntactInv
    <2>2. chunkIndex # Chunks - 1
      <3>1. Len(Rest[chunkIndex]) = Len(buffer) + Len(wire)
        BY <2>1, TakenApart
      <3>2. Rest[chunkIndex] = Sealed(Chunks - 1) => Len(Rest[chunkIndex]) <= Full
        BY <2>1, SealedUnits, StreamBounds DEF Index
      <3> QED BY <2>1, <3>1, <3>2, RestSizes, StreamBounds
    <2> DEFINE front == SubSeq(buffer, 1, Full)
               rest  == SubSeq(buffer, Full + 1, Len(buffer))
    <2>3. Len(Sealed(chunkIndex)) = Full /\ chunkIndex + 1 \in Index
      BY <2>1, <2>2, SealedUnits, StreamBounds DEF Index
    <2>4. /\ front \in Seq(Unit) /\ rest \in Seq(Unit) /\ Len(front) = Full
          /\ Rest[chunkIndex] = front \o (rest \o wire) /\ rest \o wire \in Seq(Unit)
      <3>1. Full \in 0 .. Len(buffer)
        BY <2>1, StreamBounds
      <3>2. /\ front \in Seq(Unit) /\ rest \in Seq(Unit) /\ Len(front) = Full
            /\ front \o rest = buffer
        BY <2>1, <3>1, Cuts
      <3> HIDE DEF front, rest
      <3>3. (front \o rest) \o wire = front \o (rest \o wire)
        BY <2>1, <3>2, Regroups
      <3> QED BY <2>1, <3>2, <3>3, TakenApart
    <2> HIDE DEF front, rest
    <2>5. front = Sealed(chunkIndex) /\ rest \o wire = Rest[chunkIndex + 1]
      <3>1. /\ SubSeq(Rest[chunkIndex], 1, Full) = front
            /\ SubSeq(Rest[chunkIndex], Full + 1, Len(Rest[chunkIndex])) = rest \o wire
        <4> DEFINE both == front \o (rest \o wire)
        <4>1. SubSeq(both, 1, Len(front)) = front
              /\ SubSeq(both, Len(front) + 1, Len(both)) = rest \o wire
          BY <2>4, TakenApart
        <4> QED BY <2>4, <4>1
      <3> QED BY <2>1, <2>2, <2>3, <3>1, RestSizes
    <2>6. ~Rejects(front, FALSE)
      BY <1>1, <2>1, <2>2, <2>5, OpensNext
    <2>7. Decrypts(front, FALSE) /\ buffer' = rest /\ state' = state /\ fmt' = fmt
      BY <1>3, <2>6 DEF DecryptFull, front, rest
    <2>8. mode' = fmt /\ chunkIndex' = chunkIndex + 1
      BY <1>1, <2>1, <2>2, <2>5, <2>7, OpensNext
    <2> QED BY <1>1, <2>1, <2>3, <2>4, <2>5, <2>7, <2>8 DEF IntactInv
  <1>4. CASE Flush
    <2>1. /\ state = "open" /\ buffer \in Seq(Unit) /\ wire = <<>> /\ fmt' = fmt
          /\ buffer \o wire = Rest[chunkIndex] /\ chunkIndex \in Index /\ ~(Len(buffer) > Full)
      BY <1>1, <1>4 DEF Flush, Drains, IntactInv
    <2>2. buffer = Rest[chunkIndex]
      BY <2>1, ConcatEmptySeq
    <2>3. chunkIndex = Chunks - 1
      BY <2>1, <2>2, RestSizes
    <2>4. buffer = Sealed(chunkIndex) /\ Len(buffer) = Last
      BY <2>1, <2>2, <2>3, RestSizes, SealedUnits
    <2>5. ~Rejects(buffer, TRUE) /\ buffer # <<>> /\ ~(Len(buffer) < Tag)
      <3>1. ~Rejects(buffer, TRUE)
        BY <1>1, <2>1, <2>3, <2>4, OpensNext
      <3>2. buffer # <<>> /\ ~(Len(buffer) < Tag)
        BY <2>1, <2>4, StreamBounds
      <3> QED BY <3>1, <3>2
    <2>6. Decrypts(buffer, TRUE) /\ state' = "closed"
      BY <1>4, <2>5 DEF Flush, FlushEmpty, FlushLast
    <2>7. mode' = fmt /\ chunkIndex' = chunkIndex + 1
      BY <1>1, <2>1, <2>3, <2>4, <2>6, OpensNext
    <2> QED BY <1>1, <2>1, <2>3, <2>6, <2>7, StreamBounds DEF IntactInv
  <1>5. CASE UNCHANGED streamVars
    BY <1>5 DEF streamVars, IntactInv
  <1> QED BY <1>2, <1>3, <1>4, <1>5 DEF StreamStep

\* crypto.js: the body as it was stored, of a file of any size and in whatever
\* pieces it arrives, is never refused, and comes out to its last chunk.
THEOREM IntactComesOut == StreamSpec => []IntactIsAccepted
  <1>1. StreamInv /\ IntactInv => IntactIsAccepted
    BY DEF StreamInv, IntactInv, IntactIsAccepted
  <1> QED
    BY <1>1, StreamInvInit, StreamInvStep, IntactInvInit, IntactInvStep, PTL DEF StreamSpec

-----------------------------------------------------------------------------
(* The pages.                                                              *)

Stream ==
    [files : Seq(File), kind : {"file", "paste", "zip"}, got : Nat, read : SUBSET Nat,
     src : {"none", "requested", "open", "ended"} \cup Failure,
     sink : {"none", "asking", "waiting", "file", "blob", "worker"},
     end : {None} \cup Outcome]

\* What was saved is what was fetched, but for the member that is being fetched;
\* and what was opened has somebody who saves it, or an end the caller knows.
Flows(r) ==
    /\ r.got <= Len(r.files)
    /\ r.src = "requested" => r.got < Len(r.files) /\ r.read = 1 .. r.got
    /\ r.src = "open"      => r.got >= 1 /\ r.read = 1 .. (r.got - 1)
    /\ r.src = "ended"     => r.got = Len(r.files) /\ r.read = 1 .. r.got
    /\ r.end \in {"filesystem", "blob"} => r.read = 1 .. Len(r.files)
    /\ r.src = "none" => r = Idle
    /\ r.sink = "none" => r.src = "none" \/ (r.src = "requested" /\ r.kind # "zip")
    /\ r.sink = "worker" => r.end # None

\* A navigation that looks for its stream has it on the way or in the map.
AskedInv ==
    \A d \in Attempt : asked[d].at \in {"looking", "missed"} => d \in posted \cup pending

DownloadInv == DownloadTypeOK /\ (\A d \in Attempt : Flows(dl[d])) /\ AskedInv

\* The state of a stream as every step of it leaves it.
Sound(r) == r \in Stream /\ Flows(r)

ServerType == online \in [File -> {"up", "gone", "suspended"}]
              /\ left \in [File -> 0 .. Grants] /\ changes \in 0 .. MaxChanges
WorkerType == /\ posted \subseteq Attempt /\ pending \subseteq Attempt
              /\ asked \in [Attempt -> [at : {"none", "looking", "served", "missed"},
                                        looks : 0 .. Polls]]

\* DownloadInv by its parts
LEMMA Parted ==
    DownloadInv <=> /\ ServerType /\ WorkerType /\ AskedInv
                    /\ way \in {"picker", "worker", "blob"}
                    /\ dl \in [Attempt -> Stream] /\ \A d \in Attempt : Flows(dl[d])
  BY DEF DownloadInv, DownloadTypeOK, ServerType, WorkerType, Stream

\* A step that leaves its stream sound leaves all sound, and starts none.
LEMMA StreamTurns ==
    ASSUME DownloadInv, NEW d \in Attempt, dl[d] # Idle, NEW into, Sound(into), Turns(d, into)
    PROVE  /\ dl' \in [Attempt -> Stream] /\ \A e \in Attempt : Flows(dl'[e])
           /\ \A e \in Attempt : dl[e] = Idle => dl'[e] = Idle
           /\ \A e \in Attempt : e # d => dl'[e] = dl[e]
           /\ dl'[d] = into
  <1>1. dl \in [Attempt -> Stream] /\ \A e \in Attempt : Flows(dl[e])
    BY Parted
  <1>2. dl' = [dl EXCEPT ![d] = into] /\ into \in Stream /\ Flows(into)
    BY DEF Turns, Sound
  <1> QED BY <1>1, <1>2

\* A stream that is told how it went
LEMMA StreamEnds ==
    ASSUME NEW r \in Stream, Flows(r), r # Idle, NEW how \in Outcome,
           how \in {"filesystem", "blob"} => r.read = 1 .. Len(r.files)
    PROVE  Sound([r EXCEPT !.end = how])
  <1>1. [r EXCEPT !.end = how] \in Stream
    BY DEF Stream
  <1>2. Flows([r EXCEPT !.end = how])
    BY NoneIsNoOutcome DEF Stream, Flows
  <1> QED BY <1>1, <1>2 DEF Sound

\* A stream whose fetching end broke.
LEMMA StreamBreaks ==
    ASSUME NEW r \in Stream, Flows(r), r.sink # "none", NEW why \in Failure
    PROVE  Sound([r EXCEPT !.src = why])
  <1>1. [r EXCEPT !.src = why] \in Stream
    BY DEF Stream
  <1>2. Flows([r EXCEPT !.src = why])
    BY DEF Stream, Flows, Failure
  <1> QED BY <1>1, <1>2 DEF Sound

\* A stream whose saving end is settled.
LEMMA SinkTurns ==
    ASSUME NEW r \in Stream, Flows(r), r # Idle, NEW sink \in {"file", "blob"}
    PROVE  Sound([r EXCEPT !.sink = sink])
  <1>1. [r EXCEPT !.sink = sink] \in Stream
    BY DEF Stream
  <1>2. Flows([r EXCEPT !.sink = sink])
    BY DEF Stream, Flows
  <1> QED BY <1>1, <1>2 DEF Sound

\* What every step of a download keeps
Kept ==
    /\ DownloadInv'
    /\ \A e \in Attempt : dl[e] = Idle => dl'[e] = Idle

\* A step of one stream that leaves it sound keeps the invariant.
LEMMA StreamKept ==
    ASSUME DownloadInv, NEW d \in Attempt, dl[d] # Idle, NEW into, Sound(into), Turns(d, into),
           ServerType', UNCHANGED <<way, posted, pending, asked>>
    PROVE  Kept
  <1>1. /\ dl' \in [Attempt -> Stream] /\ \A e \in Attempt : Flows(dl'[e])
        /\ \A e \in Attempt : dl[e] = Idle => dl'[e] = Idle
    BY StreamTurns
  <1>2. WorkerType /\ AskedInv /\ way \in {"picker", "worker", "blob"}
    BY Parted
  <1>3. WorkerType' /\ AskedInv' /\ way' \in {"picker", "worker", "blob"}
    BY <1>2 DEF WorkerType, AskedInv
  <1>4. (\A e \in Attempt : Flows(dl[e]))'
    BY <1>1
  <1>5. DownloadInv'
    BY <1>1, <1>3, <1>4 DEF DownloadInv, DownloadTypeOK, ServerType, WorkerType, Stream
  <1> QED BY <1>1, <1>5 DEF Kept

\* A stream whose next member has been opened.
LEMMA StreamOpens ==
    ASSUME NEW r \in Stream, Flows(r), r.src = "requested", r.end \notin {"filesystem", "blob"},
           NEW sink \in {"asking", "waiting", "file", "blob", "worker"},
           sink = "worker" => r.end # None
    PROVE  Sound([r EXCEPT !.src = "open", !.got = r.got + 1, !.sink = sink])
  <1> DEFINE into == [r EXCEPT !.src = "open", !.got = r.got + 1, !.sink = sink]
  <1>1. r.got \in Nat /\ r.got + 1 \in Nat /\ Len(r.files) \in Nat
    BY DEF Stream
  <1>2. into \in Stream
    BY <1>1 DEF Stream
  <1>3. /\ into.files = r.files /\ into.src = "open" /\ into.got = r.got + 1
        /\ into.read = r.read /\ into.end = r.end /\ into.sink = sink
    BY DEF Stream
  <1>4. r.got < Len(r.files) /\ r.read = 1 .. r.got
    BY DEF Flows
  <1> HIDE DEF into
  <1>5. Flows(into)
    BY <1>1, <1>3, <1>4 DEF Flows
  <1> QED BY <1>2, <1>5 DEF Sound, into

\* The answer to a fetch keeps the invariant.
LEMMA FetchKept == ASSUME DownloadInv, NEW d \in Attempt, FetchAnswered(d) PROVE Kept
  <1> DEFINE r == dl[d]
  <1>1. /\ r \in Stream /\ Flows(r) /\ r.src = "requested"
        /\ ServerType /\ way \in {"picker", "worker", "blob"}
    BY Parted DEF FetchAnswered
  <1>2. dl[d] # Idle
    BY <1>1 DEF Idle
  <1>3. UNCHANGED <<online, changes, way, posted, pending, asked>>
    BY DEF FetchAnswered, worker
  <1>4. CASE Opened(d)
    <2>1. Turns(d, [r EXCEPT !.src = "open", !.got = r.got + 1, !.sink = SinkOnceOpen(d)])
      BY <1>4 DEF Opened
    <2>2. /\ SinkOnceOpen(d) \in {"asking", "waiting", "file", "blob", "worker"}
          /\ SinkOnceOpen(d) = "worker" => r.end # None
      BY <1>1 DEF SinkOnceOpen, FirstSink, Stream, Flows
    <2>3. r.end \notin {"filesystem", "blob"}
      BY <1>1, NoneIsNoOutcome DEF FetchAnswered, Live, Running, Outcome
    <2>4. Sound([r EXCEPT !.src = "open", !.got = r.got + 1, !.sink = SinkOnceOpen(d)])
      BY <1>1, <2>2, <2>3, StreamOpens
    <2>5. ServerType'
      <3> DEFINE w == Wanted(d)
      <3>1. left' = [left EXCEPT ![w] = left[w] - 1] /\ Refusal(w) = None
        BY <1>4 DEF Opened
      <3>2. left[w] # 0
        BY <3>1, NoneIsNoOutcome DEF Refusal, Outcome, Failure
      <3> HIDE DEF w
      <3>3. w \in File => left[w] - 1 \in 0 .. Grants
        BY <1>1, <3>2, DownloadBounds DEF ServerType
      <3>4. left' \in [File -> 0 .. Grants]
        BY <1>1, <3>1, <3>3 DEF ServerType
      <3> QED BY <1>1, <1>3, <3>4 DEF ServerType
    <2> QED BY <1>2, <1>3, <2>1, <2>4, <2>5, StreamKept
  <1>5. CASE /\ \E why \in {Refusal(Wanted(d)), "error"} \ {None} : Unopened(d, why)
             /\ UNCHANGED left
    <2>1. PICK why \in Failure : Unopened(d, why)
      BY <1>5 DEF Refusal, Failure
    <2>2. ServerType'
      BY <1>1, <1>3, <1>5 DEF ServerType
    <2>3. CASE r.kind = "zip"
      <3>1. PICK what \in Failure : Turns(d, [r EXCEPT !.src = what])
        BY <2>1, <2>3 DEF Unopened, Failure
      <3>2. Sound([r EXCEPT !.src = what])
        BY <1>1, <2>3, StreamBreaks DEF Flows
      <3> QED BY <1>2, <1>3, <2>2, <3>1, <3>2, StreamKept
    <2>4. CASE r.kind # "zip"
      <3>1. Turns(d, [r EXCEPT !.end = why])
        BY <2>1, <2>4 DEF Unopened, Ends
      <3>2. why \in Outcome /\ why \notin {"filesystem", "blob"}
        BY DEF Outcome, Failure
      <3>3. Sound([r EXCEPT !.end = why])
        BY <1>1, <1>2, <3>2, StreamEnds
      <3> QED BY <1>2, <1>3, <2>2, <3>1, <3>3, StreamKept
    <2> QED BY <2>3, <2>4
  <1> QED BY <1>4, <1>5 DEF FetchAnswered

\* The end of a body keeps the invariant.
LEMMA BodyKept == ASSUME DownloadInv, NEW d \in Attempt, BodyEnds(d) PROVE Kept
  <1> DEFINE r == dl[d]
             next == IF r.got < Len(r.files) THEN "requested" ELSE "ended"
             into == [r EXCEPT !.read = r.read \cup {r.got}, !.src = next]
  <1>1. r \in Stream /\ Flows(r) /\ r.src = "open" /\ ServerType
    BY Parted DEF BodyEnds
  <1>2. dl[d] # Idle
    BY <1>1 DEF Idle
  <1>3. UNCHANGED <<online, left, changes, way, posted, pending, asked>>
    BY DEF BodyEnds, worker, server
  <1>4. ServerType'
    BY <1>1, <1>3 DEF ServerType
  <1>5. r.end \notin {"filesystem", "blob"}
    BY NoneIsNoOutcome DEF BodyEnds, Live, Running, Outcome
  <1>6. Sound(into)
    <2>1. r.got \in Nat /\ Len(r.files) \in Nat /\ r.got >= 1 /\ r.got <= Len(r.files)
          /\ r.read = 1 .. (r.got - 1)
      BY <1>1 DEF Stream, Flows
    <2>2. next \in {"requested", "ended"}
      OBVIOUS
    <2>3. into \in Stream
      <3> HIDE DEF next
      <3>1. r.read \cup {r.got} \in SUBSET Nat
        BY <1>1, <2>1 DEF Stream
      <3> QED BY <1>1, <2>2, <3>1 DEF Stream
    <2>4. /\ into.files = r.files /\ into.src = next /\ into.got = r.got
          /\ into.read = r.read \cup {r.got} /\ into.end = r.end
          /\ into.sink = r.sink /\ r.sink # "none" /\ (r.sink = "worker" => r.end # None)
      BY <1>1 DEF Stream, Flows
    <2>5. r.read \cup {r.got} = 1 .. r.got
      BY <2>1
    <2>6. (next = "requested" => r.got < Len(r.files)) /\ (next = "ended" => r.got = Len(r.files))
      BY <2>1
    <2> HIDE DEF into, next
    <2>7. Flows(into)
      BY <1>5, <2>1, <2>2, <2>4, <2>5, <2>6 DEF Flows
    <2> QED BY <2>3, <2>7 DEF Sound
  <1>7. Sound([r EXCEPT !.src = "error"])
    BY <1>1, StreamBreaks DEF Failure, Flows
  <1>8. Turns(d, into) \/ Turns(d, [r EXCEPT !.src = "error"])
    BY DEF BodyEnds
  <1> HIDE DEF into
  <1> QED BY <1>2, <1>3, <1>4, <1>6, <1>7, <1>8, StreamKept

\* The answer of the file picker keeps the invariant.
LEMMA PickerKept == ASSUME DownloadInv, NEW d \in Attempt, PickerAnswered(d) PROVE Kept
  <1> DEFINE r == dl[d]
  <1>1. r \in Stream /\ Flows(r) /\ r.sink = "asking" /\ ServerType
    BY Parted DEF PickerAnswered
  <1>2. dl[d] # Idle
    BY <1>1 DEF Idle
  <1>3. UNCHANGED <<online, left, changes, way, posted, pending, asked>>
    BY DEF PickerAnswered, worker, server
  <1>4. ServerType'
    BY <1>1, <1>3 DEF ServerType
  <1>5. Sound([r EXCEPT !.sink = "file"])
    BY <1>1, <1>2, SinkTurns
  <1>6. ASSUME NEW how \in Failure \cup {"aborted"}, Ends(d, how) PROVE Kept
    <2>1. how \in Outcome /\ how \notin {"filesystem", "blob"}
      BY DEF Outcome, Failure
    <2>2. Sound([r EXCEPT !.end = how])
      BY <1>1, <1>2, <2>1, StreamEnds
    <2> QED BY <1>2, <1>3, <1>4, <1>6, <2>2, StreamKept DEF Ends
  <1>7. \/ Turns(d, [r EXCEPT !.sink = "file"])
        \/ \E how \in Failure \cup {"aborted"} : Ends(d, how)
    BY DEF PickerAnswered, Failure
  <1> QED BY <1>2, <1>3, <1>4, <1>5, <1>6, <1>7, StreamKept

\* Giving the stream to the worker, or to a blob, keeps the invariant.
LEMMA WorkerKept == ASSUME DownloadInv, NEW d \in Attempt, WorkerFound(d) PROVE Kept
  <1> DEFINE r == dl[d]
             into == [r EXCEPT !.sink = "worker", !.end = "service-worker"]
  <1>1. /\ r \in Stream /\ Flows(r) /\ r.sink = "waiting" /\ ServerType /\ WorkerType
        /\ AskedInv /\ way \in {"picker", "worker", "blob"}
    BY Parted DEF WorkerFound
  <1>2. dl[d] # Idle
    BY <1>1 DEF Idle
  <1>3. UNCHANGED <<online, left, changes, way, pending>>
    BY DEF WorkerFound, server
  <1>4. ServerType' /\ way' \in {"picker", "worker", "blob"}
    BY <1>1, <1>3 DEF ServerType
  <1>5. CASE /\ Turns(d, into) /\ posted' = posted \cup {d}
             /\ asked' = [asked EXCEPT ![d].at = "looking"]
    <2>1. into \in Stream
      BY <1>1 DEF Stream, Outcome
    <2>2. Flows(into)
      BY <1>1, <1>2, NoneIsNoOutcome DEF Stream, Flows, Outcome
    <2>3. /\ dl' \in [Attempt -> Stream] /\ \A e \in Attempt : Flows(dl'[e])
          /\ \A e \in Attempt : dl[e] = Idle => dl'[e] = Idle
      BY <1>2, <1>5, <2>1, <2>2, StreamTurns DEF Sound
    <2>4. WorkerType'
      BY <1>1, <1>3, <1>5 DEF WorkerType
    <2>5. AskedInv'
      BY <1>1, <1>3, <1>5 DEF WorkerType, AskedInv
    <2>6. (\A e \in Attempt : Flows(dl[e]))'
      BY <2>3
    <2>7. DownloadInv'
      BY <1>4, <2>3, <2>4, <2>5, <2>6
         DEF DownloadInv, DownloadTypeOK, ServerType, WorkerType, Stream
    <2> QED BY <2>3, <2>7 DEF Kept
  <1>6. CASE Turns(d, [r EXCEPT !.sink = "blob"]) /\ UNCHANGED <<posted, asked>>
    <2>1. Sound([r EXCEPT !.sink = "blob"])
      BY <1>1, <1>2, SinkTurns
    <2> QED BY <1>2, <1>3, <1>4, <1>6, <2>1, StreamKept
  <1> QED BY <1>5, <1>6 DEF WorkerFound

\* The saving end is at the end of the stream.
LEMMA SinkKept == ASSUME DownloadInv, NEW d \in Attempt, SinkEnds(d) PROVE Kept
  <1> DEFINE r == dl[d]
  <1>1. r \in Stream /\ Flows(r) /\ r.sink \in {"file", "blob"} /\ ServerType
    BY Parted DEF SinkEnds
  <1>2. dl[d] # Idle
    BY <1>1 DEF Idle
  <1>3. UNCHANGED <<online, left, changes, way, posted, pending, asked>>
    BY DEF SinkEnds, worker, server
  <1>4. ServerType'
    BY <1>1, <1>3 DEF ServerType
  <1>5. PICK how \in Outcome : /\ Ends(d, how)
                               /\ how \in {"filesystem", "blob"} => r.src = "ended"
    BY DEF SinkEnds, Saved, Broken, Outcome, Failure
  <1>6. how \in {"filesystem", "blob"} => r.read = 1 .. Len(r.files)
    BY <1>1, <1>5 DEF Flows
  <1>7. Sound([r EXCEPT !.end = how])
    BY <1>1, <1>2, <1>6, StreamEnds
  <1> QED BY <1>2, <1>3, <1>4, <1>5, <1>7, StreamKept DEF Ends

\* Message and navigation only concern the worker.
LEMMA WorkerSteps ==
    ASSUME DownloadInv, NEW d \in Attempt, Register(d) \/ Lookup(d)
    PROVE  Kept
  <1>1. /\ dl \in [Attempt -> Stream] /\ \A e \in Attempt : Flows(dl[e])
        /\ ServerType /\ WorkerType /\ AskedInv /\ way \in {"picker", "worker", "blob"}
    BY Parted
  <1>2. UNCHANGED <<online, left, changes, way, dl>>
    BY DEF Register, Lookup, server
  <1>3. WorkerType' /\ AskedInv'
    <2>1. CASE Register(d)
      BY <1>1, <2>1 DEF Register, WorkerType, AskedInv
    <2>2. CASE Lookup(d) /\ asked' = [asked EXCEPT ![d].at = "missed"]
      BY <1>1, <2>2 DEF Lookup, WorkerType, AskedInv, GivesUpLooking
    <2>3. CASE Lookup(d) /\ asked' = [asked EXCEPT ![d].at = "served"]
      BY <1>1, <2>3 DEF Lookup, WorkerType, AskedInv, GivesUpLooking
    <2>4. CASE Lookup(d) /\ asked' = [asked EXCEPT ![d].looks = @ + 1]
      BY <1>1, <2>4, DownloadBounds DEF Lookup, WorkerType, AskedInv, GivesUpLooking
    <2> QED BY <2>1, <2>2, <2>3, <2>4 DEF Lookup
  <1>4. (\A e \in Attempt : Flows(dl[e]))'
    BY <1>1, <1>2
  <1>5. DownloadInv'
    BY <1>1, <1>2, <1>3, <1>4
       DEF DownloadInv, DownloadTypeOK, ServerType, WorkerType, Stream
  <1> QED BY <1>2, <1>5 DEF Kept

\* All of these.
LEMMA ProgressKept == ASSUME DownloadInv, NEW d \in Attempt, Progress(d) PROVE Kept
  BY FetchKept, BodyKept, PickerKept, WorkerKept, SinkKept, WorkerSteps DEF Progress

\* The server changing a file concerns no stream.
LEMMA ServerKept == ASSUME DownloadInv, NEW f, ServerChanges(f) PROVE Kept
  <1>1. /\ dl \in [Attempt -> Stream] /\ \A e \in Attempt : Flows(dl[e])
        /\ ServerType /\ WorkerType /\ AskedInv /\ way \in {"picker", "worker", "blob"}
    BY Parted
  <1>2. UNCHANGED <<left, way, dl, posted, pending, asked>>
    BY DEF ServerChanges, worker
  <1>3. ServerType'
    BY <1>1, <1>2, DownloadBounds DEF ServerChanges, ServerType
  <1>4. (\A e \in Attempt : Flows(dl[e]))' /\ WorkerType' /\ AskedInv'
    BY <1>1, <1>2 DEF WorkerType, AskedInv
  <1>5. DownloadInv'
    BY <1>1, <1>2, <1>3, <1>4
       DEF DownloadInv, DownloadTypeOK, ServerType, WorkerType, Stream
  <1> QED BY <1>2, <1>5 DEF Kept

\* Before the first click nothing flows.
LEMMA InitialDownload ==
    DownloadInit({"picker", "worker", "blob"}) => DownloadInv
  <1> SUFFICES ASSUME DownloadInit({"picker", "worker", "blob"}) PROVE DownloadInv
    OBVIOUS
  <1>1. Idle \in Stream
    BY DEF Idle, Stream
  <1>2. Flows(Idle)
    BY NoneIsNoOutcome DEF Idle, Flows, Outcome
  <1>3. dl \in [Attempt -> Stream] /\ \A d \in Attempt : Flows(dl[d])
    BY <1>1, <1>2 DEF DownloadInit
  <1>4. ServerType
    BY DownloadBounds DEF DownloadInit, ServerType
  <1>5. WorkerType /\ AskedInv
    BY DownloadBounds DEF DownloadInit, WorkerType, AskedInv
  <1> QED BY <1>3, <1>4, <1>5, Parted DEF DownloadInit

\* A stream is sound when it begins.
LEMMA BegunSound ==
    ASSUME NEW files \in Seq(File), files # <<>>, NEW kind \in {"file", "paste", "zip"}
    PROVE  Sound(Begun(files, kind))
  <1> DEFINE sink == IF kind = "zip" THEN FirstSink ELSE "none"
             r == [files |-> files, kind |-> kind, got |-> 0, read |-> {},
                   src |-> "requested", sink |-> sink, end |-> None]
  <1>1. Begun(files, kind) = r
    BY DEF Begun
  <1>2. sink \in {"none", "asking", "waiting", "file", "blob", "worker"}
    BY DEF FirstSink
  <1>3. Len(files) \in Nat /\ Len(files) > 0
    OBVIOUS
  <1>6. sink # "worker" /\ (sink = "none" => kind # "zip")
    BY DEF FirstSink
  <1> HIDE DEF sink
  <1>4. r \in Stream
    BY <1>2 DEF Stream
  <1>5. Flows(r)
    BY <1>3, <1>6, NoneIsNoOutcome DEF Flows, Outcome
  <1> QED BY <1>1, <1>4, <1>5 DEF Sound

\* A download begins, of one file.
LEMMA StartKept ==
    ASSUME DownloadInv, NEW d \in Attempt, NEW files \in Seq(File), files # <<>>,
           NEW kind \in {"file", "paste", "zip"}, Start(d, files, kind),
           UNCHANGED <<server, way, worker>>
    PROVE  DownloadInv'
  <1>1. /\ dl \in [Attempt -> Stream] /\ \A e \in Attempt : Flows(dl[e])
        /\ ServerType /\ WorkerType /\ AskedInv /\ way \in {"picker", "worker", "blob"}
    BY Parted
  <1>2. Begun(files, kind) \in Stream /\ Flows(Begun(files, kind))
    BY BegunSound DEF Sound
  <1>3. dl' \in [Attempt -> Stream] /\ \A e \in Attempt : Flows(dl'[e])
    BY <1>1, <1>2 DEF Start
  <1>4. ServerType' /\ WorkerType' /\ AskedInv' /\ way' = way
    BY <1>1 DEF ServerType, WorkerType, AskedInv, server, worker
  <1>5. (\A e \in Attempt : Flows(dl[e]))'
    BY <1>3
  <1> QED BY <1>1, <1>3, <1>4, <1>5
          DEF DownloadInv, DownloadTypeOK, ServerType, WorkerType, Stream

-----------------------------------------------------------------------------
\* The page of one file: what withdraws the file also takes the button away.
ViewInv == ViewTypeOK /\ DownloadInv /\ (told => btn.gone)

Button == [on : BOOLEAN, click : {"load", "submit", "download"}, gone : BOOLEAN]

\* What the button can be made to do leaves it there or takes it away.
LEMMA ButtonTurns ==
    ASSUME btn \in Button, NEW on \in BOOLEAN, NEW click \in {"load", "submit", "download"}
    PROVE  /\ On(click) \in Button /\ On(click).gone = btn.gone
           /\ [btn EXCEPT !.on = on] \in Button /\ [btn EXCEPT !.on = on].gone = btn.gone
           /\ [btn EXCEPT !.click = click] \in Button
           /\ [btn EXCEPT !.click = click].gone = btn.gone
           /\ [btn EXCEPT !.gone = TRUE] \in Button /\ [btn EXCEPT !.gone = TRUE].gone
  BY DEF Button, On

\* A file that is withdrawn takes its button away.
LEMMA ButtonWithdrawn ==
    ASSUME NEW b \in Button
    PROVE  Withdrawn(b) \in Button /\ Withdrawn(b).gone
  BY DEF Button, Withdrawn

\* What every step of the page keeps
ViewKept ==
    /\ ViewInv'
    /\ \A d \in Attempt : dl[d] = Idle /\ dl'[d] # Idle => ~told

\* A step keeps the invariant of the page when its parts do.
LEMMA ViewKeeps ==
    ASSUME ViewInv, Kept,
           /\ link' \in Links /\ gate' \in BOOLEAN /\ typed' \in {"", "right", "wrong"}
           /\ submit' \in [Submit -> {"unused", "right", "wrong", "over"}]
           /\ report' \in {"offered", "sent", "over"} /\ told' \in BOOLEAN,
           btn' \in Button, told' => btn'.gone
    PROVE  ViewKept
  <1>1. ViewTypeOK'
    BY DEF ViewTypeOK, Button
  <1> QED BY <1>1 DEF ViewKept, ViewInv, Kept

\* A step that touches no download keeps them.
LEMMA Resting == ASSUME DownloadInv, UNCHANGED downloadVars PROVE Kept
  <1>1. DownloadInv'
    BY Parted DEF downloadVars, server, worker, ServerType, WorkerType, AskedInv,
                  DownloadInv, DownloadTypeOK, Stream
  <1> QED BY <1>1 DEF Kept, downloadVars

\* Every step of the page keeps its invariant.
LEMMA ViewStepKept == ASSUME ViewInv, [ViewStep]_<<downloadVars, viewVars>> PROVE ViewKept
  <1>t. /\ link \in Links /\ gate \in BOOLEAN /\ typed \in {"", "right", "wrong"}
        /\ btn \in Button
        /\ submit \in [Submit -> {"unused", "right", "wrong", "over"}]
        /\ report \in {"offered", "sent", "over"} /\ told \in BOOLEAN
        /\ DownloadInv /\ (told => btn.gone)
    BY DEF ViewInv, ViewTypeOK, Button
  <1>1. CASE Load
    <2>1. Kept
      BY <1>1, <1>t, Resting DEF Load
    <2>2. btn' \in Button /\ gate' \in BOOLEAN /\ told' \in BOOLEAN
      BY <1>1, <1>t, ButtonTurns, ButtonWithdrawn DEF Load, WithdrawPage
    <2>3. told' => btn'.gone
      BY <1>1, <1>t, ButtonTurns, ButtonWithdrawn DEF Load, WithdrawPage
    <2> QED BY <1>1, <1>t, <2>1, <2>2, <2>3, ViewKeeps DEF Load
  <1>2. CASE Type
    <2>1. Kept
      BY <1>2, <1>t, Resting DEF Type
    <2>2. PICK text \in {"", "right", "wrong"} :
            typed' = text /\ btn' = [btn EXCEPT !.on = text # ""]
      BY <1>2 DEF Type
    <2>3. btn' \in Button /\ btn'.gone = btn.gone
      BY <1>t, <2>2, ButtonTurns
    <2> QED BY <1>2, <1>t, <2>1, <2>2, <2>3, ViewKeeps DEF Type
  <1>3. ASSUME NEW s \in Submit, SubmitPassword(s) PROVE ViewKept
    <2>1. Kept
      BY <1>3, <1>t, Resting DEF SubmitPassword
    <2>2. btn' \in Button /\ btn'.gone = btn.gone
      BY <1>3, <1>t, ButtonTurns DEF SubmitPassword
    <2>3. submit' \in [Submit -> {"unused", "right", "wrong", "over"}]
      BY <1>3, <1>t DEF SubmitPassword
    <2> QED BY <1>3, <1>t, <2>1, <2>2, <2>3, ViewKeeps DEF SubmitPassword
  <1>4. ASSUME NEW s \in Submit, Derived(s) PROVE ViewKept
    <2>1. Kept
      BY <1>4, <1>t, Resting DEF Derived
    <2>2. btn' \in Button /\ btn'.gone = btn.gone
      BY <1>4, <1>t, ButtonTurns DEF Derived
    <2>3. submit' \in [Submit -> {"unused", "right", "wrong", "over"}]
      BY <1>4, <1>t DEF Derived
    <2>4. gate' \in BOOLEAN
      BY <1>4, <1>t DEF Derived
    <2> QED BY <1>4, <1>t, <2>1, <2>2, <2>3, <2>4, ViewKeeps DEF Derived
  <1>5. ASSUME NEW d \in Attempt, Click(d) PROVE ViewKept
    <2>1. ~btn.gone /\ ~told
      BY <1>5, <1>t DEF Click
    <2>2. btn' \in Button
      BY <1>5, <1>t, ButtonTurns DEF Click
    <2>3. TheFile \in Seq(File) /\ TheFile # <<>>
      BY DownloadBounds DEF TheFile, File
    <2>4. PICK kind \in {"file", "paste", "zip"} : Start(d, TheFile, kind)
      BY <1>5 DEF Click
    <2>5. DownloadInv'
      BY <1>5, <1>t, <2>3, <2>4, StartKept DEF Click
    <2>6. told' = told /\ link' = link /\ gate' = gate /\ typed' = typed
          /\ submit' = submit /\ report' = report
      BY <1>5 DEF Click
    <2>7. ViewTypeOK'
      BY <1>t, <2>2, <2>6 DEF ViewTypeOK, Button
    <2> QED BY <2>1, <2>5, <2>6, <2>7 DEF ViewKept, ViewInv
  <1>6. ASSUME NEW d \in Attempt, ViewProgress(d) PROVE ViewKept
    <2>1. Kept
      BY <1>6, <1>t, ProgressKept DEF ViewProgress
    <2>2. /\ btn' \in Button /\ gate' \in BOOLEAN /\ told' \in BOOLEAN
          /\ told' => btn'.gone
      <3>1. CASE UNCHANGED <<btn, gate, told>>
        BY <1>t, <3>1
      <3>2. ASSUME NEW how, Reacts(how)
            PROVE  /\ btn' \in Button /\ gate' \in BOOLEAN /\ told' \in BOOLEAN
                   /\ told' => btn'.gone
        <4>1. CASE btn' = Withdrawn([btn EXCEPT !.on = TRUE]) /\ gate' = FALSE /\ told' = TRUE
          BY <1>t, <4>1, ButtonTurns, ButtonWithdrawn
        <4>2. CASE btn' = [btn EXCEPT !.gone = TRUE] /\ UNCHANGED <<gate, told>>
          BY <1>t, <4>2, ButtonTurns
        <4>3. CASE btn' = [btn EXCEPT !.on = TRUE] /\ UNCHANGED <<gate, told>>
          BY <1>t, <4>3, ButtonTurns
        <4> QED BY <3>2, <4>1, <4>2, <4>3 DEF Reacts
      <3> QED BY <1>6, <3>1, <3>2 DEF ViewProgress
    <2> QED BY <1>6, <1>t, <2>1, <2>2, ViewKeeps DEF ViewProgress
  <1>7. CASE Report
    <2>1. UNCHANGED <<left, changes, way, dl, posted, pending, asked>>
      BY <1>7 DEF Report, worker
    <2>2. online' \in [File -> {"up", "gone", "suspended"}]
      BY <1>7, <1>t, Parted DEF Report, ServerType
    <2>3. DownloadInv'
      BY <1>t, <2>1, <2>2 DEF DownloadInv, DownloadTypeOK, AskedInv
    <2>4. Kept
      BY <2>1, <2>3 DEF Kept
    <2> QED BY <1>7, <1>t, <2>4, ViewKeeps DEF Report
  <1>8. CASE ReportAnswered
    <2>1. Kept
      BY <1>8, <1>t, Resting DEF ReportAnswered
    <2>2. btn' \in Button /\ told' \in BOOLEAN /\ (told' => btn'.gone)
      <3>1. CASE btn' = Withdrawn([btn EXCEPT !.on = FALSE]) /\ told' = TRUE
        BY <1>t, <3>1, ButtonTurns, ButtonWithdrawn
      <3>2. CASE UNCHANGED <<btn, told>>
        BY <1>t, <3>2
      <3> QED BY <1>8, <3>1, <3>2 DEF ReportAnswered
    <2>3. report' \in {"offered", "sent", "over"}
      BY <1>8 DEF ReportAnswered
    <2> QED BY <1>8, <1>t, <2>1, <2>2, <2>3, ViewKeeps DEF ReportAnswered
  <1>9. CASE ServerChanges(1) /\ UNCHANGED viewVars
    <2>1. Kept
      BY <1>9, <1>t, ServerKept
    <2> QED BY <1>9, <1>t, <2>1, ViewKeeps DEF viewVars
  <1>10. CASE UNCHANGED <<downloadVars, viewVars>>
    <2>1. Kept
      BY <1>10, <1>t, Resting
    <2> QED BY <1>10, <1>t, <2>1, ViewKeeps DEF viewVars
  <1> QED BY <1>1, <1>2, <1>3, <1>4, <1>5, <1>6, <1>7, <1>8, <1>9, <1>10 DEF ViewStep

\* The page of one file stays well typed, its downloads sound.
THEOREM ViewInvariant == ViewSpec => []ViewInv
  <1>1. ViewInit /\ DownloadInit({"picker", "worker", "blob"}) => ViewInv
    <2> SUFFICES ASSUME ViewInit, DownloadInit({"picker", "worker", "blob"}) PROVE ViewInv
      OBVIOUS
    <2>1. ViewTypeOK /\ ~told
      BY DEF ViewInit, ViewTypeOK, FirstButton
    <2> QED BY <2>1, InitialDownload DEF ViewInv
  <1>2. ViewInv /\ [ViewStep]_<<downloadVars, viewVars>> => ViewInv'
    BY ViewStepKept DEF ViewKept
  <1> QED BY <1>1, <1>2, PTL DEF ViewSpec

\* A page that has said there is nothing to download starts no download.
THEOREM WithdrawnIsFinal == ViewSpec => NoneAfterWithdrawn
  <1>1. ViewInv /\ [ViewStep]_<<downloadVars, viewVars>> =>
            [\A d \in Attempt : dl[d] = Idle /\ dl'[d] # Idle => ~told]_<<dl, told>>
    BY ViewStepKept DEF ViewKept
  <1> QED BY <1>1, ViewInvariant, PTL DEF ViewSpec, NoneAfterWithdrawn

\* What the page of one file calls saved has been saved to its end.
THEOREM ViewSavesWhole == ViewSpec => []SavedIsWhole
  <1>1. ViewInv => SavedIsWhole
    BY Parted DEF ViewInv, SavedIsWhole, Flows
  <1> QED BY <1>1, ViewInvariant, PTL

\* While its caller waits, a download has somebody with the next step.
LEMMA EndsAreReady == DownloadInv => NeverStuck
  <1> SUFFICES ASSUME DownloadInv, NEW d \in Attempt, Running(d) PROVE Ready(d)
    BY DEF NeverStuck
  <1>1. dl[d] \in Stream /\ Flows(dl[d]) /\ dl[d] # Idle /\ dl[d].end = None
    BY Parted DEF Running
  <1>2. dl[d].src \in {"requested", "open", "ended"} \cup Failure
    BY <1>1 DEF Stream, Flows
  <1>3. dl[d].src # "requested" => dl[d].sink \in {"asking", "waiting", "file", "blob"}
    BY <1>1 DEF Stream, Flows
  <1> QED BY <1>2, <1>3 DEF Ready, Read, Saved, Broken

\* A download of the page never hangs between its two ends.
THEOREM ViewNeverHangs == ViewSpec => []NeverStuck
  <1>1. ViewInv => NeverStuck
    BY EndsAreReady DEF ViewInv
  <1> QED BY <1>1, ViewInvariant, PTL

\* The worker's navigation misses its stream only if the message is late.
THEOREM ViewServesInTime == ViewSpec => []MissedOnlyIfLate
  <1>1. ViewInv => MissedOnlyIfLate
    BY DEF ViewInv, DownloadInv, AskedInv, MissedOnlyIfLate
  <1> QED BY <1>1, ViewInvariant, PTL

-----------------------------------------------------------------------------
\* The page of a group: a rendering that has begun knows the members, and lists
\* them in turn; the one that cleared the list last still has all its rows there.
Known == members \in Seq(File) /\ members # <<>>
UnderWay(r) == render[r].pc \in {"rendering", "over"}

RenderInv(r) ==
    /\ render[r].pc # "unused" => Known
    /\ ~UnderWay(r) => render[r].upto = 0
    /\ render[r].pc = "rendering" => render[r].upto < Len(members)
    /\ render[r].pc = "over" => /\ render[r].upto = Len(members)
                                /\ Len(members) > 1 => zip.handlers # {}

InList(r) ==
    \A i \in 1 .. render[r].upto : \E k \in DOMAIN rows.list : rows.list[k] = members[i]

GroupInv ==
    /\ GroupTypeOK /\ DownloadInv
    /\ asking \/ zip.handlers # {} \/ rows.list # <<>> => Known
    /\ \A r \in Render : RenderInv(r)
    /\ \A k \in DOMAIN rows.list : \E i \in DOMAIN members : rows.list[k] = members[i]
    /\ (\E r \in Render : UnderWay(r)) => \E r \in Render : UnderWay(r) /\ InList(r)

ListVars == <<withKey, members, asking, render, rows>>

\* Steps that leave the list alone
LEMMA ListRests ==
    ASSUME GroupInv, DownloadInv', UNCHANGED ListVars,
           zip' \in [on : BOOLEAN, handlers : SUBSET Render],
           zip'.handlers = zip.handlers
    PROVE  GroupInv'
  <1>1. GroupTypeOK'
    BY DEF GroupInv, GroupTypeOK, ListVars
  <1> QED BY <1>1 DEF GroupInv, ListVars, Known, RenderInv, UnderWay, InList

RenderType == [pc : {"unused", "deriving", "rendering", "over"}, upto : Nat]

\* A rendering begins: it clears the list, and is the one with all its rows there.
LEMMA BeginsKept ==
    ASSUME GroupInv, NEW r \in Render, render[r].pc \in {"unused", "deriving"}, Begins(r),
           Known', members' = members \/ \A q \in Render : render[q].pc = "unused",
           UNCHANGED <<zip, withKey>>, DownloadInv', GroupTypeOK'
    PROVE  GroupInv'
  <1>1. /\ render \in [Render -> RenderType]
        /\ render' = [render EXCEPT ![r].pc = "rendering"]
    BY DEF GroupInv, GroupTypeOK, RenderType, Begins
  <1>2. /\ render'[r].pc = "rendering" /\ render'[r].upto = render[r].upto
        /\ \A q \in Render : q # r => render'[q] = render[q]
    BY <1>1 DEF RenderType
  <1>3. rows'.list = <<>>
    BY DEF Begins
  <1>4. render[r].upto = 0
    BY DEF GroupInv, RenderInv, UnderWay
  <1>5. Len(members') > 0
    BY DEF Known
  <1>6. \A q \in Render : RenderInv(q)'
    <2> SUFFICES ASSUME NEW q \in Render PROVE RenderInv(q)'
      OBVIOUS
    <2>1. CASE q = r
      BY <1>2, <1>4, <1>5, <2>1 DEF RenderInv, UnderWay, Known
    <2>2. CASE q # r
      BY <1>2, <2>2 DEF RenderInv, UnderWay, Known, GroupInv
    <2> QED BY <2>1, <2>2
  <1>7. UnderWay(r)' /\ InList(r)'
    BY <1>2, <1>4 DEF UnderWay, InList
  <1> QED BY <1>3, <1>6, <1>7 DEF GroupInv

\* What GroupInv says of the types, and what it keeps of them where the list changes
LEMMA GroupTyped ==
    ASSUME GroupInv
    PROVE  /\ render \in [Render -> RenderType] /\ DownloadInv
           /\ rows \in [cleared : Nat, list : Seq(File)]
           /\ zip \in [on : BOOLEAN, handlers : SUBSET Render]
           /\ withKey \in {"key", "no key", "passphrase"} /\ asking \in BOOLEAN
           /\ members = None \/ members \in Seq(File)
  BY DEF GroupInv, GroupTypeOK, RenderType

\* A rendering that begins respects the types.
LEMMA BeginsTyped ==
    ASSUME GroupInv, NEW r \in Render, Begins(r), UNCHANGED <<zip, withKey>>,
           members' = None \/ members' \in Seq(File)
    PROVE  GroupTypeOK'
  <1>1. render' \in [Render -> RenderType]
    <2>1. render' = [render EXCEPT ![r].pc = "rendering"] /\ render \in [Render -> RenderType]
      BY GroupTyped DEF Begins
    <2> QED BY <2>1 DEF RenderType
  <1>2. rows' \in [cleared : Nat, list : Seq(File)]
    <2>1. rows' = [cleared |-> rows.cleared + 1, list |-> <<>>] /\ rows.cleared \in Nat
      BY GroupTyped DEF Begins
    <2> QED BY <2>1
  <1>3. asking' \in BOOLEAN
    BY DEF Begins
  <1> QED BY <1>1, <1>2, <1>3, GroupTyped DEF GroupTypeOK, RenderType

\* The answer with the members of the group.
LEMMA LoadKept == ASSUME GroupInv, LoadGroup PROVE GroupInv'
  <1>1. /\ members = None /\ ~Known /\ UNCHANGED <<withKey, zip, downloadVars>>
    BY GroupBounds DEF LoadGroup, Known
  <1>2. /\ \A q \in Render : render[q].pc = "unused" /\ render[q].upto = 0
        /\ rows.list = <<>> /\ zip.handlers = {} /\ ~asking
    BY <1>1 DEF GroupInv, RenderInv, UnderWay
  <1>3. PICK n \in 0 .. Files : \E list \in [1 .. n -> File] :
          /\ members' = list
          /\ \/ UNCHANGED <<asking, render, rows>>
             \/ n > 0 /\ asking' = TRUE /\ UNCHANGED <<render, rows>>
             \/ n > 0 /\ Begins(0)
    BY DEF LoadGroup
  <1>n. n \in Nat
    BY DownloadBounds
  <1>m. members' \in Seq(File) /\ (n > 0 => members' # <<>>)
    <2>1. members' \in [1 .. n -> File]
      BY <1>3
    <2>2. members' \in Seq(File)
      BY <1>n, <2>1
    <2>3. DOMAIN members' = 1 .. n
      BY <2>1
    <2>4. Len(members') = n
      BY <1>n, <2>2, <2>3
    <2> QED BY <2>2, <2>4
  <1>4. DownloadInv'
    BY <1>1, GroupTyped, Resting DEF Kept
  <1>0. 0 \in Render
    BY GroupBounds DEF Render
  <1>6. CASE UNCHANGED <<asking, render, rows>>
    <2>1. GroupTypeOK'
      BY <1>1, <1>m, <1>6, GroupTyped DEF GroupTypeOK, RenderType
    <2> QED BY <1>1, <1>2, <1>4, <1>6, <2>1 DEF GroupInv, RenderInv, UnderWay
  <1>7. CASE n > 0 /\ asking' = TRUE /\ UNCHANGED <<render, rows>>
    <2>1. GroupTypeOK'
      BY <1>1, <1>m, <1>7, GroupTyped DEF GroupTypeOK, RenderType
    <2>2. Known'
      BY <1>m, <1>7 DEF Known
    <2> QED BY <1>1, <1>2, <1>4, <1>7, <2>1, <2>2 DEF GroupInv, RenderInv, UnderWay
  <1>8. CASE n > 0 /\ Begins(0)
    <2> DEFINE r == 0
    <2>1. r \in Render /\ Begins(r)
      BY <1>0, <1>8
    <2> HIDE DEF r
    <2>2. Known'
      BY <1>m, <1>8 DEF Known
    <2>3. GroupTypeOK'
      BY <1>1, <2>1, <2>2, BeginsTyped DEF Known
    <2> QED BY <1>1, <1>2, <1>4, <2>1, <2>2, <2>3, BeginsKept
  <1> QED BY <1>3, <1>6, <1>7, <1>8

\* The right passphrase is submitted.
LEMMA UnlockKept == ASSUME GroupInv, NEW r \in Render, Unlock(r) PROVE GroupInv'
  <1>1. /\ render' = [render EXCEPT ![r].pc = "deriving"]
        /\ render[r].pc = "unused" /\ asking
        /\ UNCHANGED <<withKey, members, asking, rows, zip, downloadVars>>
    BY DEF Unlock
  <1>2. /\ render' \in [Render -> RenderType]
        /\ render'[r].pc = "deriving" /\ render'[r].upto = render[r].upto
        /\ \A q \in Render : q # r => render'[q] = render[q]
    BY <1>1, GroupTyped DEF RenderType
  <1>3. GroupTypeOK'
    BY <1>1, <1>2, GroupTyped DEF GroupTypeOK, RenderType
  <1>4. DownloadInv'
    BY <1>1, GroupTyped, Resting DEF Kept
  <1>5. Known' /\ Known
    BY <1>1 DEF GroupInv, Known
  <1>6. \A q \in Render : RenderInv(q)'
    BY <1>1, <1>2, <1>5 DEF GroupInv, RenderInv, UnderWay
  <1>7. ASSUME NEW q \in Render, UnderWay(q), InList(q) PROVE UnderWay(q)' /\ InList(q)'
    BY <1>1, <1>2, <1>7 DEF UnderWay, InList
  <1>8. \A q \in Render : UnderWay(q)' => UnderWay(q)
    BY <1>1, <1>2 DEF UnderWay
  <1> QED BY <1>1, <1>3, <1>4, <1>5, <1>6, <1>7, <1>8 DEF GroupInv

\* The key is derived, and a rendering begins.
LEMMA UnlockedKept == ASSUME GroupInv, NEW r \in Render, Unlocked(r) PROVE GroupInv'
  <1>1. /\ Begins(r) /\ render[r].pc = "deriving"
        /\ UNCHANGED <<withKey, members, zip, downloadVars>>
    BY DEF Unlocked
  <1>2. Known'
    BY <1>1 DEF GroupInv, RenderInv, Known
  <1>3. GroupTypeOK'
    BY <1>1, <1>2, BeginsTyped DEF Known
  <1>4. DownloadInv'
    BY <1>1, GroupTyped, Resting DEF Kept
  <1> QED BY <1>1, <1>2, <1>3, <1>4, BeginsKept

\* A row is appended; the rows that were there stay.
LEMMA RowKept == ASSUME GroupInv, NEW r \in Render, RenderRow(r) PROVE GroupInv'
  <1> DEFINE i == render[r].upto + 1
             over == i = Len(members)
  <1>1. /\ render[r].pc = "rendering"
        /\ rows' = [rows EXCEPT !.list = Append(rows.list, members[i])]
        /\ render' = [render EXCEPT ![r] =
              [pc |-> IF over THEN "over" ELSE "rendering", upto |-> i]]
        /\ zip' = IF over /\ i > 1
                  THEN [zip EXCEPT !.handlers = zip.handlers \cup {r}] ELSE zip
        /\ UNCHANGED <<withKey, members, asking, downloadVars>>
    BY DEF RenderRow, Extended
  <1>2. Known /\ render[r].upto < Len(members)
    BY <1>1 DEF GroupInv, RenderInv
  <1>t. /\ render \in [Render -> RenderType] /\ DownloadInv
        /\ rows \in [cleared : Nat, list : Seq(File)]
        /\ zip \in [on : BOOLEAN, handlers : SUBSET Render]
    BY GroupTyped
  <1>3. render[r].upto \in Nat
    BY <1>t DEF RenderType
  <1>4. members[i] \in File /\ rows.list \in Seq(File)
    <2>1. members \in Seq(File) /\ i \in 1 .. Len(members)
      BY <1>2, <1>3 DEF Known
    <2> HIDE DEF i
    <2> QED BY <1>t, <2>1
  <1> DEFINE list == Append(rows.list, members[i])
  <1>5. /\ list \in Seq(File) /\ Len(list) = Len(rows.list) + 1
        /\ \A k \in DOMAIN rows.list : k \in DOMAIN list /\ list[k] = rows.list[k]
        /\ Len(list) \in DOMAIN list /\ list[Len(list)] = members[i]
        /\ \A k \in DOMAIN list : k \in DOMAIN rows.list \/ k = Len(list)
    BY <1>4
  <1>6. rows' \in [cleared : Nat, list : Seq(File)] /\ rows'.list = list
    <2>1. rows' = [rows EXCEPT !.list = list]
      BY <1>1
    <2>2. list \in Seq(File)
      BY <1>5
    <2> HIDE DEF list
    <2> QED BY <1>t, <2>1, <2>2
  <1>i. i \in Nat /\ i > 0 /\ i \in DOMAIN members /\ i <= Len(members)
        /\ (~over => i < Len(members)) /\ Len(members) \in Nat
    BY <1>2, <1>3 DEF Known
  <1> HIDE DEF i, list, over
  <1>7. /\ render' \in [Render -> RenderType] /\ render'[r].upto = i
        /\ render'[r].pc \in {"rendering", "over"}
        /\ render'[r].pc = "over" <=> over
        /\ \A q \in Render : q # r => render'[q] = render[q]
    BY <1>1, <1>t, <1>i DEF RenderType
  <1>8. /\ zip' \in [on : BOOLEAN, handlers : SUBSET Render]
        /\ zip.handlers \subseteq zip'.handlers
        /\ over /\ i > 1 => zip'.handlers # {}
    BY <1>1, <1>t
  <1>9. GroupTypeOK' /\ Known'
    BY <1>1, <1>2, <1>6, <1>7, <1>8, GroupTyped DEF GroupTypeOK, RenderType, Known
  <1>10. DownloadInv'
    BY <1>1, <1>t, Resting DEF Kept
  <1>11. \A q \in Render : RenderInv(q)'
    <2> SUFFICES ASSUME NEW q \in Render PROVE RenderInv(q)'
      OBVIOUS
    <2>1. RenderInv(q)
      BY DEF GroupInv
    <2>2. CASE q = r
      BY <1>1, <1>7, <1>8, <1>9, <1>i, <2>2 DEF RenderInv, UnderWay, over
    <2>3. CASE q # r
      BY <1>1, <1>7, <1>8, <1>9, <2>1, <2>3 DEF RenderInv, UnderWay
    <2> QED BY <2>2, <2>3
  <1>12. \A k \in DOMAIN rows'.list : \E j \in DOMAIN members' : rows'.list[k] = members'[j]
    BY <1>1, <1>5, <1>6, <1>i DEF GroupInv
  <1>13. \E q \in Render : UnderWay(q)' /\ InList(q)'
    <2>1. PICK q \in Render : UnderWay(q) /\ InList(q)
      BY <1>1 DEF GroupInv, UnderWay
    <2>2. UnderWay(q)'
      BY <1>7, <2>1 DEF UnderWay
    <2>3. ASSUME NEW j \in 1 .. render'[q].upto
          PROVE  \E k \in DOMAIN list : list[k] = members[j]
      <3>1. j \in 1 .. render[q].upto \/ j = i
        BY <1>3, <1>7 DEF i
      <3>2. CASE j \in 1 .. render[q].upto
        <4>1. PICK k \in DOMAIN rows.list : rows.list[k] = members[j]
          BY <2>1, <3>2 DEF InList
        <4> QED BY <1>5, <4>1
      <3> QED BY <1>5, <3>1, <3>2
    <2>4. members' = members /\ rows'.list = list
      BY <1>1, <1>6
    <2> HIDE DEF i, list
    <2>5. InList(q)'
      BY <2>3, <2>4 DEF InList
    <2> QED BY <2>2, <2>5
  <1> QED BY <1>9, <1>10, <1>11, <1>12, <1>13 DEF GroupInv

\* A download starts from a row or from the zip button.
LEMMA RowClicked == ASSUME GroupInv, NEW d \in Attempt, ClickRow(d) PROVE GroupInv'
  <1>1. PICK k \in DOMAIN rows.list :
            /\ Start(d, <<rows.list[k]>>, "file")
            /\ UNCHANGED <<server, way, worker, withKey, members, asking, render, rows, zip>>
    BY DEF ClickRow
  <1>2. rows.list[k] \in File
    <2>1. rows.list \in Seq(File)
      BY GroupTyped
    <2> QED BY <2>1
  <1>3. <<rows.list[k]>> \in Seq(File) /\ <<rows.list[k]>> # <<>>
    BY <1>2
  <1>4. DownloadInv'
    BY <1>1, <1>3, GroupTyped, StartKept
  <1> QED BY <1>1, <1>4, GroupTyped, ListRests DEF ListVars

\* Downloads of the whole group start, one per handler.
LEMMA ZipClicked == ASSUME GroupInv, ClickZip PROVE GroupInv'
  <1> DEFINE first == Cardinality({e \in Attempt : dl[e] # Idle}) + 1
             ours  == first .. first + Cardinality(zip.handlers) - 1
  <1>1. /\ dl' = [d \in Attempt |-> IF d \in ours THEN Begun(members, "zip") ELSE dl[d]]
        /\ zip.handlers # {} /\ zip' = [zip EXCEPT !.on = FALSE]
        /\ UNCHANGED <<server, way, worker, withKey, members, asking, render, rows>>
    BY DEF ClickZip
  <1> HIDE DEF ours
  <1>2. Sound(Begun(members, "zip"))
    BY <1>1, BegunSound DEF GroupInv, Known
  <1>3. /\ dl \in [Attempt -> Stream] /\ \A d \in Attempt : Flows(dl[d])
        /\ ServerType /\ WorkerType /\ AskedInv /\ way \in {"picker", "worker", "blob"}
    BY GroupTyped, Parted
  <1>4. dl' \in [Attempt -> Stream] /\ \A d \in Attempt : Flows(dl'[d])
    BY <1>1, <1>2, <1>3 DEF Sound
  <1>5. ServerType' /\ WorkerType' /\ AskedInv' /\ way' = way
    BY <1>1, <1>3 DEF ServerType, WorkerType, AskedInv, server, worker
  <1>6. (\A d \in Attempt : Flows(dl[d]))'
    BY <1>4
  <1>7. DownloadInv'
    BY <1>3, <1>4, <1>5, <1>6 DEF DownloadInv, DownloadTypeOK, ServerType, WorkerType, Stream
  <1>8. zip' \in [on : BOOLEAN, handlers : SUBSET Render] /\ zip'.handlers = zip.handlers
    BY <1>1, GroupTyped
  <1> QED BY <1>1, <1>7, <1>8, ListRests DEF ListVars

\* Every step of the page of a group keeps its invariant.
LEMMA GroupStepKept == ASSUME GroupInv, [GroupStep]_<<downloadVars, groupVars>> PROVE GroupInv'
  <1>t. DownloadInv /\ zip \in [on : BOOLEAN, handlers : SUBSET Render]
    BY GroupTyped
  <1>1. ASSUME NEW d \in Attempt, GroupProgress(d) PROVE GroupInv'
    <2>1. DownloadInv' /\ UNCHANGED ListVars
      BY <1>1, <1>t, ProgressKept DEF GroupProgress, Kept, ListVars
    <2>2. PICK on \in BOOLEAN : zip' = [zip EXCEPT !.on = on]
      BY <1>1, <1>t DEF GroupProgress
    <2>3. zip' \in [on : BOOLEAN, handlers : SUBSET Render] /\ zip'.handlers = zip.handlers
      BY <1>t, <2>2
    <2> QED BY <2>1, <2>3, ListRests
  <1>2. ASSUME NEW f \in File, ServerChanges(f), UNCHANGED groupVars PROVE GroupInv'
    BY <1>2, <1>t, ServerKept, ListRests DEF Kept, groupVars, ListVars
  <1>3. CASE UNCHANGED <<downloadVars, groupVars>>
    BY <1>3, <1>t, Resting, ListRests DEF Kept, groupVars, ListVars
  <1> QED BY <1>1, <1>2, <1>3, LoadKept, ZipClicked, RowKept, UnlockedKept, UnlockKept,
             RowClicked DEF GroupStep

\* The page of a group of any size keeps what its list is made of.
THEOREM GroupInvariant == GroupSpec => []GroupInv
  <1>1. GroupInit /\ DownloadInit({"picker", "worker", "blob"}) => GroupInv
    <2> SUFFICES ASSUME GroupInit, DownloadInit({"picker", "worker", "blob"}) PROVE GroupInv
      OBVIOUS
    <2>0. render \in [Render -> RenderType]
      BY DEF GroupInit, Unstarted, RenderType
    <2>1. GroupTypeOK
      <3>1. <<>> \in Seq(File)
        OBVIOUS
      <3>2. rows \in [cleared : Nat, list : Seq(File)]
        BY <3>1 DEF GroupInit
      <3>3. zip \in [on : BOOLEAN, handlers : SUBSET Render]
        BY DEF GroupInit
      <3> QED BY <2>0, <3>2, <3>3 DEF GroupInit, GroupTypeOK, RenderType
    <2>2. \A r \in Render : render[r].pc = "unused" /\ render[r].upto = 0
      BY DEF GroupInit, Unstarted
    <2>3. ~asking /\ zip.handlers = {} /\ rows.list = <<>>
      BY DEF GroupInit
    <2> QED BY <2>1, <2>2, <2>3, InitialDownload DEF GroupInv, RenderInv, UnderWay
  <1>2. GroupInv /\ [GroupStep]_<<downloadVars, groupVars>> => GroupInv'
    BY GroupStepKept
  <1> QED BY <1>1, <1>2, PTL DEF GroupSpec

\* However renderings interleave, the list of a group ends up complete.
THEOREM GroupListsAll == GroupSpec => []EveryFileListed
  <1>1. ASSUME GroupInv PROVE EveryFileListed
    <2> SUFFICES ASSUME \A r \in Render : render[r].pc \in {"unused", "over"},
                        NEW p \in Render, render[p].upto > 0
                 PROVE  /\ {rows.list[k] : k \in DOMAIN rows.list}
                             = {members[i] : i \in DOMAIN members}
                        /\ Len(members) > 1 => zip.handlers # {}
      BY DEF EveryFileListed
    <2>1. render[p].pc = "over" /\ UnderWay(p)
      BY <1>1 DEF GroupInv, RenderInv, UnderWay
    <2>2. Len(members) > 1 => zip.handlers # {}
      BY <1>1, <2>1 DEF GroupInv, RenderInv
    <2>3. PICK q \in Render : UnderWay(q) /\ InList(q)
      BY <1>1, <2>1 DEF GroupInv
    <2>4. render[q].upto = Len(members) /\ members \in Seq(File)
      BY <1>1, <2>3 DEF GroupInv, RenderInv, UnderWay, Known
    <2>5. \A i \in DOMAIN members : \E k \in DOMAIN rows.list : rows.list[k] = members[i]
      BY <2>3, <2>4 DEF InList
    <2>6. \A k \in DOMAIN rows.list : \E i \in DOMAIN members : rows.list[k] = members[i]
      BY <1>1 DEF GroupInv
    <2> QED BY <2>2, <2>5, <2>6
  <1> QED BY <1>1, GroupInvariant, PTL

\* What the page of a group calls saved, a zip too, has been saved to its end.
THEOREM GroupSavesWhole == GroupSpec => []SavedIsWhole
  <1>1. GroupInv => SavedIsWhole
    BY Parted DEF GroupInv, SavedIsWhole, Flows
  <1> QED BY <1>1, GroupInvariant, PTL

\* Nor does one of the page of a group, a zip of any number of members included.
THEOREM GroupNeverHangs == GroupSpec => []NeverStuck
  <1>1. GroupInv => NeverStuck
    BY EndsAreReady DEF GroupInv
  <1> QED BY <1>1, GroupInvariant, PTL

-----------------------------------------------------------------------------
(* The result page.  As long as the user stays, one deletion at most is    *)
(* under way, and what it was told to delete is what the page holds.       *)

AllFiles == UNION {Behind(l) : l \in 1 .. Results}

DeletionType ==
    [pc : {"unused", "waiting", "over"}, targets : SUBSET AllFiles,
     waiting : SUBSET AllFiles, failed : SUBSET AllFiles, isGroup : BOOLEAN]

\* What a deletion under way is about, and what may be left of it.
Faithful(c) ==
    /\ button = "off"
    /\ deletion[c].targets = single \cup group
    /\ deletion[c].isGroup <=> group # {}
    /\ alive \cap deletion[c].targets \subseteq deletion[c].waiting \cup deletion[c].failed

AloneInv == \A b, c \in Deletion : InFlight(b) /\ InFlight(c) => b = c

HeldInv ==
    /\ \A c \in Deletion : InFlight(c) => Faithful(c)
    /\ AloneInv
    /\ Behind(shown) \cap alive \subseteq single \cup group
    /\ group # {} => single = {}
    /\ button = "hidden" \/ status = "deleted" => single \cup group = {}

ResultInv ==
    /\ ResultTypeOK
    /\ ~abandoned /\ shown # 0 => HeldInv
    /\ ~abandoned /\ shown = 0 => \A c \in Deletion : ~InFlight(c)

\* The effect of the actions on one deletion.
LEMMA AnsweredEffect ==
    ASSUME ResultTypeOK, NEW c \in Deletion, NEW f \in deletion[c].waiting,
           NEW lost \in SUBSET {f}, deletion' = Answered(c, f, lost)
    PROVE  /\ deletion' \in [Deletion -> DeletionType]
           /\ deletion'[c].waiting = deletion[c].waiting \ {f}
           /\ deletion'[c].failed = deletion[c].failed \cup lost
           /\ \A b \in Deletion :
                 /\ b # c => deletion'[b] = deletion[b]
                 /\ deletion'[b].pc = deletion[b].pc
                 /\ deletion'[b].targets = deletion[b].targets
                 /\ deletion'[b].isGroup = deletion[b].isGroup
  <1>1. deletion \in [Deletion -> DeletionType]
    BY DEF ResultTypeOK, DeletionType, AllFiles
  <1>2. deletion' = [deletion EXCEPT
                       ![c] = [deletion[c] EXCEPT
                                 !.waiting = deletion[c].waiting \ {f},
                                 !.failed = deletion[c].failed \cup lost]]
    BY DEF Answered
  <1>3. f \in AllFiles
    BY <1>1 DEF DeletionType
  <1> DEFINE d == [deletion[c] EXCEPT !.waiting = deletion[c].waiting \ {f},
                                      !.failed = deletion[c].failed \cup lost]
  <1>4. deletion[c] \in DeletionType
    BY <1>1
  <1>5. /\ d \in DeletionType
        /\ d.waiting = deletion[c].waiting \ {f} /\ d.failed = deletion[c].failed \cup lost
        /\ d.pc = deletion[c].pc /\ d.targets = deletion[c].targets
        /\ d.isGroup = deletion[c].isGroup
    BY <1>3, <1>4 DEF DeletionType
  <1>6. deletion' = [deletion EXCEPT ![c] = d]
    BY <1>2
  <1> HIDE DEF d
  <1>7. deletion' \in [Deletion -> DeletionType] /\ deletion'[c] = d
    BY <1>1, <1>5, <1>6
  <1>8. \A b \in Deletion : b # c => deletion'[b] = deletion[b]
    BY <1>1, <1>6
  <1> QED BY <1>5, <1>7, <1>8

\* Every step of the result page respects its types.
LEMMA ResultTyped == ResultInv /\ [ResultStep]_resultVars => ResultTypeOK'
  <1> SUFFICES ASSUME ResultTypeOK, [ResultStep]_resultVars PROVE ResultTypeOK'
    BY DEF ResultInv
  <1>t. /\ alive \subseteq AllFiles /\ single \subseteq AllFiles
        /\ group \subseteq AllFiles
        /\ shown \in 0 .. Results /\ uploads \in 0 .. Results
        /\ button \in {"on", "off", "hidden"} /\ status \in {"", "deleted", "error"}
        /\ deletion \in [Deletion -> DeletionType] /\ abandoned \in BOOLEAN
    BY DEF ResultTypeOK, AllFiles, DeletionType
  <1>q. ASSUME /\ alive' \subseteq AllFiles /\ single' \subseteq AllFiles
               /\ group' \subseteq AllFiles
               /\ shown' \in 0 .. Results /\ uploads' \in 0 .. Results
               /\ button' \in {"on", "off", "hidden"}
               /\ status' \in {"", "deleted", "error"}
               /\ deletion' \in [Deletion -> DeletionType] /\ abandoned' \in BOOLEAN
        PROVE  ResultTypeOK'
    BY <1>q DEF ResultTypeOK, AllFiles, DeletionType, Behind
  <1>1. CASE Show
    <2>0. uploads + 1 <= Results
      BY <1>1 DEF Show
    <2>1. uploads + 1 \in 1 .. Results
      <3>1. uploads \in 0 .. Results
        BY <1>t
      <3> HIDE <1>t
      <3> QED BY <2>0, <3>1, ResultBounds
    <2>2. Behind(uploads + 1) \subseteq AllFiles
      BY <2>1 DEF AllFiles
    <2>3. uploads + 1 \in 0 .. Results
      BY <2>1, ResultBounds
    <2>4. single' \subseteq AllFiles /\ group' \subseteq AllFiles
      BY <1>1, <2>2 DEF Show
    <2> QED BY <1>1, <1>t, <1>q, <2>2, <2>3, <2>4 DEF Show
  <1>2. CASE Expire
    BY <1>2, <1>t, <1>q DEF Expire
  <1>3. CASE ResetToUpload
    <2>1. 0 \in 0 .. Results
      BY ResultBounds
    <2> QED BY <1>3, <2>1, <1>t, <1>q DEF ResetToUpload
  <1>4. ASSUME NEW c \in Deletion, Delete(c) PROVE ResultTypeOK'
    BY <1>4, <1>t, <1>q DEF Delete, DeletionType
  <1>5. ASSUME NEW c \in Deletion, DeletesDone(c) PROVE ResultTypeOK'
    <2>1. deletion' \in [Deletion -> DeletionType]
      BY <1>5, <1>t DEF DeletesDone, DeletionType
    <2>2. deletion[c].failed \subseteq AllFiles
      BY <1>t DEF DeletionType
    <2> QED BY <1>5, <1>t, <1>q, <2>1, <2>2 DEF DeletesDone, KeepsFailed
  <1>6. ASSUME NEW c \in Deletion, NEW f \in deletion[c].waiting, DeleteAnswered(c, f)
        PROVE  ResultTypeOK'
    <2>1. deletion' \in [Deletion -> DeletionType]
      BY <1>6, AnsweredEffect DEF DeleteAnswered
    <2> QED BY <1>6, <1>t, <1>q, <2>1 DEF DeleteAnswered
  <1>7. CASE UNCHANGED resultVars
    BY <1>7, <1>t, <1>q DEF resultVars
  <1> QED BY <1>1, <1>2, <1>3, <1>4, <1>5, <1>6, <1>7 DEF ResultStep

\* What is on the page changes by an upload or by leaving it only.
LEMMA Others ==
    [ResultStep]_resultVars /\ ~Show /\ ~ResetToUpload
        => shown' = shown /\ abandoned' = abandoned
  <1>1. Expire => shown' = shown /\ abandoned' = abandoned
    BY DEF Expire
  <1>2. \A c \in Deletion : Delete(c) => shown' = shown /\ abandoned' = abandoned
    BY DEF Delete
  <1>3. \A c \in Deletion : DeletesDone(c) => shown' = shown /\ abandoned' = abandoned
    BY DEF DeletesDone
  <1>4. \A c \in Deletion : \A f \in deletion[c].waiting :
            DeleteAnswered(c, f) => shown' = shown /\ abandoned' = abandoned
    BY DEF DeleteAnswered
  <1> QED BY <1>1, <1>2, <1>3, <1>4 DEF ResultStep, resultVars

\* While a deletion runs, the button is off; so none is begun beside it.
LEMMA HeldStep == ResultInv /\ [ResultStep]_resultVars => (~abandoned /\ shown # 0 => HeldInv)'
  <1> SUFFICES ASSUME ResultInv, [ResultStep]_resultVars, ~abandoned', shown' # 0
               PROVE  HeldInv'
    OBVIOUS
  <1>t. ResultTypeOK /\ deletion \in [Deletion -> DeletionType] /\ abandoned \in BOOLEAN
    BY DEF ResultInv, ResultTypeOK, DeletionType, AllFiles
  <1>1. CASE Show
    <2>1. \A c \in Deletion : ~InFlight(c)
      BY <1>1 DEF Show, ResultInv
    <2>2. \A c \in Deletion : ~InFlight(c)'
      BY <1>1, <2>1 DEF Show, InFlight
    <2>3. Behind(shown)' = Behind(uploads + 1)
      BY <1>1 DEF Show, Behind
    <2> QED BY <1>1, <2>2, <2>3 DEF Show, HeldInv, AloneInv
  <1>s. CASE ~Show
    <2>0. ~ResetToUpload /\ ~abandoned /\ shown # 0 /\ shown' = shown
      <3>1. ~ResetToUpload
        BY DEF ResetToUpload
      <3> QED BY <1>s, <3>1, Others
    <2>h. HeldInv /\ Behind(shown)' = Behind(shown)
      BY <2>0 DEF ResultInv, Behind
    <2>1. CASE Expire
      BY <2>1, <2>h DEF Expire, HeldInv, AloneInv, InFlight, Faithful
    <2>2. ASSUME NEW c \in Deletion, Delete(c) PROVE HeldInv'
      <3>1. \A b \in Deletion : ~InFlight(b)
        BY <2>2, <2>h DEF Delete, HeldInv, Faithful
      <3>2. \A b \in Deletion : b # c => ~InFlight(b)'
        BY <2>2, <3>1, <1>t DEF Delete, InFlight
      <3>3. deletion'[c] = [pc |-> "waiting", targets |-> IF group # {} THEN group ELSE single,
                            waiting |-> IF group # {} THEN group ELSE single,
                            failed |-> {}, isGroup |-> group # {}]
        BY <2>2, <1>t DEF Delete
      <3>4. deletion'[c].targets = single \cup group
        BY <3>3, <2>h DEF HeldInv
      <3>5. Faithful(c)'
        <4>1. deletion'[c].isGroup = (group # {}) /\ deletion'[c].waiting = deletion'[c].targets
          BY <3>3
        <4>2. alive' = alive /\ group' = group /\ single' = single /\ button' = "off"
          BY <2>2 DEF Delete
        <4> QED BY <3>4, <4>1, <4>2 DEF Faithful
      <3> QED BY <2>2, <2>h, <3>2, <3>5 DEF Delete, HeldInv, AloneInv
    <2>3. ASSUME NEW c \in Deletion, DeletesDone(c) PROVE HeldInv'
      <3>1. Faithful(c) /\ \A b \in Deletion : b # c => ~InFlight(b)
        BY <2>3, <2>h DEF DeletesDone, HeldInv, AloneInv
      <3>2. \A b \in Deletion : ~InFlight(b)'
        BY <2>3, <3>1, <1>t DEF DeletesDone, InFlight, DeletionType
      <3>3. Behind(shown) \cap alive \subseteq deletion[c].failed
        BY <2>3, <3>1, <2>h DEF DeletesDone, Faithful, HeldInv
      <3>4. CASE deletion[c].failed = {}
        BY <2>3, <2>h, <3>2, <3>3, <3>4 DEF DeletesDone, HeldInv, AloneInv
      <3>5. CASE deletion[c].failed # {} /\ group # {}
        BY <2>3, <2>h, <3>1, <3>2, <3>3, <3>5
           DEF DeletesDone, HeldInv, AloneInv, KeepsFailed, Faithful
      <3>6. CASE deletion[c].failed # {} /\ group = {}
        BY <2>3, <2>h, <3>1, <3>2, <3>3, <3>6
           DEF DeletesDone, HeldInv, AloneInv, KeepsFailed, Faithful
      <3> QED BY <3>4, <3>5, <3>6
    <2>4. ASSUME NEW c \in Deletion, NEW f \in deletion[c].waiting, DeleteAnswered(c, f)
          PROVE  HeldInv'
      <3>1. PICK lost \in SUBSET {f} :
               /\ deletion' = Answered(c, f, lost)
               /\ alive' = alive \ {f} \/ (alive' = alive /\ lost = {f})
        BY <2>4 DEF DeleteAnswered
      <3>2. /\ deletion'[c].waiting = deletion[c].waiting \ {f}
            /\ deletion'[c].failed = deletion[c].failed \cup lost
            /\ \A b \in Deletion :
                 /\ b # c => deletion'[b] = deletion[b]
                 /\ deletion'[b].pc = deletion[b].pc
                 /\ deletion'[b].targets = deletion[b].targets
                 /\ deletion'[b].isGroup = deletion[b].isGroup
        BY <3>1, <1>t, AnsweredEffect
      <3>3. \A b \in Deletion : Faithful(b) => Faithful(b)'
        BY <2>4, <3>1, <3>2 DEF Faithful, DeleteAnswered
      <3> QED BY <2>4, <2>h, <3>1, <3>2, <3>3 DEF DeleteAnswered, HeldInv, AloneInv, InFlight
    <2>5. CASE UNCHANGED resultVars
      BY <2>5, <2>h DEF resultVars, HeldInv, AloneInv, InFlight, Faithful
    <2> QED BY <1>s, <2>0, <2>1, <2>2, <2>3, <2>4, <2>5 DEF ResultStep
  <1> QED BY <1>1, <1>s

\* While the result is shown with nothing left, no deletion is under way.
LEMMA LeftStep ==
    ResultInv /\ [ResultStep]_resultVars
        => (~abandoned /\ shown = 0 => \A c \in Deletion : ~InFlight(c))'
  <1> SUFFICES ASSUME ResultInv, [ResultStep]_resultVars, ~abandoned', shown' = 0,
                      NEW c \in Deletion
               PROVE  ~InFlight(c)'
    OBVIOUS
  <1>t. deletion \in [Deletion -> DeletionType] /\ abandoned \in BOOLEAN
        /\ uploads \in 0 .. Results
    BY DEF ResultInv, ResultTypeOK, DeletionType, AllFiles
  <1>u. uploads + 1 # 0
    BY <1>t
  <1>1. CASE ResetToUpload
    BY <1>1, <1>t DEF ResetToUpload, InFlight
  <1>2. CASE ~ResetToUpload
    <2>1. ~Show
      BY <1>u DEF Show
    <2>2. ~abandoned /\ shown = 0
      BY <1>2, <2>1, Others
    <2>3. \A b \in Deletion : ~InFlight(b)
      BY <2>2 DEF ResultInv
    <2>4. ASSUME NEW b \in Deletion, NEW f \in deletion[b].waiting, DeleteAnswered(b, f)
          PROVE  \A a \in Deletion : deletion'[a].pc = deletion[a].pc
      BY <2>4, <1>t, AnsweredEffect DEF DeleteAnswered, ResultInv
    <2>5. \A b \in Deletion : ~Delete(b) /\ ~DeletesDone(b)
      BY <2>2, <2>3 DEF Delete, DeletesDone
    <2> QED BY <1>2, <2>1, <2>3, <2>4, <2>5 DEF ResultStep, Expire, InFlight, resultVars
  <1> QED BY <1>1, <1>2

\* The page never gets into a state its invariant excludes.
THEOREM ResultInvariant == ResultSpec => []ResultInv
  <1>1. ResultInit => ResultInv
    <2> SUFFICES ASSUME ResultInit PROVE ResultInv
      OBVIOUS
    <2>1. Unclicked \in DeletionType
      BY DEF Unclicked, DeletionType
    <2>2. ResultTypeOK
      <3>1. 0 \in 0 .. Results
        BY ResultBounds
      <3>2. deletion \in [Deletion -> DeletionType]
        BY <2>1 DEF ResultInit
      <3> QED BY <3>1, <3>2 DEF ResultInit, ResultTypeOK, DeletionType, AllFiles
    <2>3. \A c \in Deletion : ~InFlight(c)
      BY DEF ResultInit, InFlight, Unclicked
    <2> QED BY <2>2, <2>3 DEF ResultInit, ResultInv
  <1>2. ResultInv /\ [ResultStep]_resultVars => ResultInv'
    BY ResultTyped, HeldStep, LeftStep DEF ResultInv
  <1> QED BY <1>1, <1>2, PTL DEF ResultSpec

\* Whatever of the shown result is still on the server can be deleted, and the
\* page never claims that it is gone.
THEOREM DeletionCompletes == ResultSpec => []StillDeletable
  <1>1. ResultInv => StillDeletable
    BY DEF ResultInv, HeldInv, StillDeletable
  <1> QED BY <1>1, ResultInvariant, PTL

-----------------------------------------------------------------------------
(* The names in the zip of a group.                                        *)

\* What names are made of, and the names.
Parts(n) == {Clean[n][k] : k \in 1 .. Len(Clean[n])}
Own      == UNION {Parts(n) : n \in Raw}
Piece    == Own \cup Nat \cup {"file"}
Name     == Seq(Piece)

\* A name that was given as it was is counted; a numbered one carries a number
\* its base has been counted to.
NamesInv ==
    /\ raws \in [1 .. Entries -> Raw]
    /\ used \in [DOMAIN used -> Nat] /\ DOMAIN used \subseteq Name
    /\ given \in Seq([name : Name, numbered : BOOLEAN])
    /\ \A i \in DOMAIN given :
           IF given[i].numbered
           THEN \E n \in DOMAIN used, k \in Nat :
                    k <= used[n] /\ given[i].name = Append(n, k)
           ELSE given[i].name \in DOMAIN used
    /\ ZipNamesApart

\* A number and the word "file" may be appended or come first.
LEMMA NumbersArePieces == Nat \subseteq Piece /\ "file" \in Piece
  BY DEF Piece

\* What an entry is called before it is numbered.
LEMMA BaseIsName ==
    ASSUME raws \in [1 .. Entries -> Raw], NEW i \in 1 .. Entries
    PROVE  Base(i) \in Name
  <1>1. PICK n \in Raw : n = raws[i]
    OBVIOUS
  <1>2. <<"file", i>> \in Name
    <2>1. "file" \in Piece /\ i \in Piece
      BY NumbersArePieces
    <2> QED BY <2>1 DEF Name
  <1>3. Clean[n] \in Name
    <2>1. \A k \in 1 .. Len(Clean[n]) : Clean[n][k] \in Parts(n)
      BY DEF Parts
    <2>2. Parts(n) \subseteq Piece
      BY DEF Piece, Own
    <2>3. /\ Len(Clean[n]) \in Nat
          /\ Clean[n] = [k \in 1 .. Len(Clean[n]) |-> Clean[n][k]]
      BY ZipBounds
    <2> QED BY <2>1, <2>2, <2>3 DEF Name
  <1> QED BY <1>1, <1>2, <1>3 DEF Base

\* A numbered name tells its base and its number.
LEMMA NumberedApart ==
    ASSUME NEW s \in Name, NEW t \in Name, NEW k \in Nat, NEW l \in Nat,
           Append(s, k) = Append(t, l)
    PROVE  s = t /\ k = l
  <1>1. k \in Piece /\ l \in Piece
    BY NumbersArePieces
  <1> QED BY <1>1, AppendInjective DEF Name

\* One more entry, with a name no entry of its sort has.
LEMMA GivenGrows ==
    ASSUME NamesInv, NEW e \in [name : Name, numbered : BOOLEAN],
           \A i \in DOMAIN given : given[i].name = e.name => given[i].numbered # e.numbered,
           given' = Append(given, e)
    PROVE  /\ given' \in Seq([name : Name, numbered : BOOLEAN])
           /\ DOMAIN given' = DOMAIN given \cup {Len(given) + 1}
           /\ given'[Len(given) + 1] = e /\ \A i \in DOMAIN given : given'[i] = given[i]
           /\ ZipNamesApart'
  <1>1. /\ given' \in Seq([name : Name, numbered : BOOLEAN])
        /\ DOMAIN given' = DOMAIN given \cup {Len(given) + 1}
        /\ given'[Len(given) + 1] = e /\ \A i \in DOMAIN given : given'[i] = given[i]
    BY DEF NamesInv
  <1>2. ZipNamesApart'
    BY <1>1 DEF NamesInv, ZipNamesApart
  <1> QED BY <1>1, <1>2

\* No entry breaks the invariant.
LEMMA NamesInvStep == NamesInv /\ [NameNext]_zipVars => NamesInv'
  <1> SUFFICES ASSUME NamesInv, [NameNext]_zipVars PROVE NamesInv'
    OBVIOUS
  <1>1. CASE UNCHANGED zipVars
    BY <1>1 DEF zipVars, NamesInv, ZipNamesApart
  <1>2. CASE NameNext
    <2>1. PICK n \in Name : n = Base(Len(given) + 1)
      <3>1. Len(given) + 1 \in 1 .. Entries
        BY <1>2, ZipBounds DEF NamesInv, NameNext
      <3> QED BY <3>1, BaseIsName DEF NamesInv
    <2>2. raws' = raws
      BY <1>2 DEF NameNext
    <2>3. CASE n \notin DOMAIN used
      <3> DEFINE e == Entry(n, FALSE)
      <3>1. /\ used' = [m \in DOMAIN used \cup {n} |-> IF m = n THEN 1 ELSE used[m]]
            /\ given' = Append(given, e)
        BY <1>2, <2>1, <2>3 DEF NameNext, Counted
      <3>2. e \in [name : Name, numbered : BOOLEAN] /\ e.name = n /\ e.numbered = FALSE
        BY DEF Entry
      <3>3. \A i \in DOMAIN given : given[i].name = n => given[i].numbered # FALSE
        BY <2>3 DEF NamesInv
      <3>4. /\ given' \in Seq([name : Name, numbered : BOOLEAN])
            /\ DOMAIN given' = DOMAIN given \cup {Len(given) + 1}
            /\ given'[Len(given) + 1] = e /\ \A i \in DOMAIN given : given'[i] = given[i]
            /\ ZipNamesApart'
        BY <3>1, <3>2, <3>3, GivenGrows
      <3>5. /\ DOMAIN used' = DOMAIN used \cup {n} /\ used' \in [DOMAIN used' -> Nat]
            /\ \A m \in DOMAIN used : used'[m] = used[m]
        BY <2>3, <3>1 DEF NamesInv
      <3>6. \A i \in DOMAIN given' :
                IF given'[i].numbered
                THEN \E m \in DOMAIN used', k \in Nat :
                         k <= used'[m] /\ given'[i].name = Append(m, k)
                ELSE given'[i].name \in DOMAIN used'
        BY <3>2, <3>4, <3>5 DEF NamesInv
      <3> QED BY <2>2, <3>4, <3>5, <3>6 DEF NamesInv
    <2>4. CASE n \in DOMAIN used
      <3>1. PICK k \in Nat : k = used[n] + 1
        BY <2>4 DEF NamesInv
      <3> DEFINE e == Entry(Append(n, k), TRUE)
      <3>2. used' = [used EXCEPT ![n] = k] /\ given' = Append(given, e)
        BY <1>2, <2>1, <2>4, <3>1 DEF NameNext, Counted
      <3>3. e \in [name : Name, numbered : BOOLEAN] /\ e.name = Append(n, k) /\ e.numbered
        <4>1. Append(n, k) \in Name
          BY NumbersArePieces DEF Name
        <4> QED BY <4>1 DEF Entry
      <3>4. \A i \in DOMAIN given : given[i].name = e.name => given[i].numbered # e.numbered
        <4> SUFFICES ASSUME NEW i \in DOMAIN given, given[i].name = Append(n, k),
                            given[i].numbered
                     PROVE  FALSE
          BY <3>3 DEF NamesInv
        <4>1. PICK m \in DOMAIN used, l \in Nat :
                  l <= used[m] /\ given[i].name = Append(m, l)
          BY DEF NamesInv
        <4>2. m = n /\ l = k
          <5>1. m \in Name /\ Append(m, l) = Append(n, k)
            BY <4>1 DEF NamesInv
          <5> QED BY <5>1, NumberedApart
        <4>3. used[n] \in Nat
          BY <2>4 DEF NamesInv
        <4> QED BY <3>1, <4>1, <4>2, <4>3
      <3>5. /\ given' \in Seq([name : Name, numbered : BOOLEAN])
            /\ DOMAIN given' = DOMAIN given \cup {Len(given) + 1}
            /\ given'[Len(given) + 1] = e /\ \A i \in DOMAIN given : given'[i] = given[i]
            /\ ZipNamesApart'
        BY <3>2, <3>3, <3>4, GivenGrows
      <3>6. /\ DOMAIN used' = DOMAIN used /\ used' \in [DOMAIN used' -> Nat]
            /\ used'[n] = k /\ \A m \in DOMAIN used : used'[m] \in Nat /\ used[m] <= used'[m]
                                                      /\ used[m] \in Nat
        BY <2>4, <3>1, <3>2 DEF NamesInv
      <3>7. ASSUME NEW i \in DOMAIN given'
            PROVE  IF given'[i].numbered
                   THEN \E m \in DOMAIN used', l \in Nat :
                            l <= used'[m] /\ given'[i].name = Append(m, l)
                   ELSE given'[i].name \in DOMAIN used'
        <4>1. CASE i = Len(given) + 1
          <5>1. given'[i] = e
            BY <3>5, <4>1
          <5>2. n \in DOMAIN used' /\ k <= used'[n]
            BY <2>4, <3>6
          <5> QED BY <3>3, <5>1, <5>2
        <4>2. CASE i \in DOMAIN given
          <5>1. CASE given[i].numbered
            <6>1. PICK m \in DOMAIN used, l \in Nat :
                      l <= used[m] /\ given[i].name = Append(m, l)
              BY <4>2, <5>1 DEF NamesInv
            <6>2. l <= used'[m]
              BY <3>6, <6>1
            <6> QED BY <3>5, <3>6, <4>2, <5>1, <6>1, <6>2
          <5>2. CASE ~given[i].numbered
            BY <3>5, <3>6, <4>2, <5>2 DEF NamesInv
          <5> QED BY <5>1, <5>2
        <4> QED BY <3>5, <4>1, <4>2
      <3> QED BY <2>2, <3>5, <3>6, <3>7 DEF NamesInv
    <2> QED BY <2>3, <2>4
  <1> QED BY <1>1, <1>2

\* crypto.js: however many members share a name, or names that sanitize to the
\* same, two entries of a zip coincide only where one was numbered and the other
\* was called so from the start.
THEOREM EntriesApart == NamesSpec => []ZipNamesApart
  <1>1. NamesInit => NamesInv
    BY DEF NamesInit, NamesInv, ZipNamesApart
  <1>2. NamesInv => ZipNamesApart
    BY DEF NamesInv
  <1> QED BY <1>1, <1>2, NamesInvStep, PTL DEF NamesSpec
=============================================================================
