---------------------------- MODULE BufferProofs ----------------------------
(***************************************************************************)
(* Proofs about Buffer for every block size and every sequence of calls.   *)
(***************************************************************************)
EXTENDS Buffer, SequenceTheorems, TLAPS

-----------------------------------------------------------------------------
(* Blocks of memory.                                                       *)

Block(n) == [0 .. n - 1 -> Values]

\* Store writes the bytes it is given and leaves the others.
LEMMA StoreProperties ==
    ASSUME NEW n \in Nat, NEW mem \in Block(n), NEW from \in Nat, NEW data \in Seq(Bytes)
    PROVE  /\ Store(mem, from, data) \in Block(n)
           /\ \A i \in 0 .. n - 1 : Store(mem, from, data)[i] =
                 IF i - from + 1 \in 1 .. Len(data) THEN data[i - from + 1] ELSE mem[i]
  <1>1. DOMAIN data = 1 .. Len(data) /\ \A i \in 1 .. Len(data) : data[i] \in Bytes
    BY LenProperties
  <1>2. Store(mem, from, data) =
            [i \in 0 .. n - 1 |-> IF i - from + 1 \in 1 .. Len(data) THEN data[i - from + 1] ELSE mem[i]]
    BY <1>1 DEF Store, Block
  <1> QED BY <1>1, <1>2 DEF Values, Block

\* A slice is a sequence.
LEMMA SliceProperties ==
    ASSUME NEW n \in Nat, NEW mem \in Block(n), NEW from \in Nat, NEW length \in Nat,
           from + length \leq n
    PROVE  /\ Slice(mem, from, length) \in Seq(Values)
           /\ Len(Slice(mem, from, length)) = length
           /\ \A i \in 1 .. length : Slice(mem, from, length)[i] = mem[from + i - 1]
  <1>1. \A i \in 1 .. length : mem[from + i - 1] \in Values
    BY DEF Block
  <1>2. [i \in 1 .. length |-> mem[from + i - 1]] \in Seq(Values)
    BY <1>1
  <1> QED BY <1>2 DEF Slice

\* Bytes stored behind a slice do not change it.
LEMMA SliceStoreBehind ==
    ASSUME NEW n \in Nat, NEW mem \in Block(n), NEW from \in Nat, NEW length \in Nat,
           from + length \leq n, NEW data \in Seq(Bytes)
    PROVE  Slice(Store(mem, from + length, data), from, length) = Slice(mem, from, length)
  <1>1. \A i \in 1 .. length : Store(mem, from + length, data)[from + i - 1] = mem[from + i - 1]
    <2>1. from + length \in Nat
      OBVIOUS
    <2>2. \A i \in 1 .. length : /\ from + i - 1 \in 0 .. n - 1
                                 /\ (from + i - 1) - (from + length) + 1 \notin 1 .. Len(data)
      OBVIOUS
    <2> QED BY <2>1, <2>2, StoreProperties
  <1> QED BY <1>1 DEF Slice

\* Bytes stored behind a slice extend it.
LEMMA SliceAppend ==
    ASSUME NEW n \in Nat, NEW mem \in Block(n), NEW from \in Nat, NEW length \in Nat,
           NEW data \in Seq(Bytes), from + length + Len(data) \leq n
    PROVE  Slice(Store(mem, from + length, data), from, length + Len(data))
              = Slice(mem, from, length) \o data
  <1> DEFINE new == Store(mem, from + length, data)
             s == Slice(new, from, length + Len(data))
             t == Slice(mem, from, length) \o data
  <1>1. /\ Len(data) \in Nat /\ from + length \in Nat /\ from + length \leq n
        /\ length + Len(data) \in Nat
    BY LenProperties
  <1>2. /\ new \in Block(n)
        /\ \A i \in 0 .. n - 1 : new[i] =
              IF i - (from + length) + 1 \in 1 .. Len(data)
              THEN data[i - (from + length) + 1] ELSE mem[i]
    BY <1>1, StoreProperties
  <1>3. /\ s \in Seq(Values) /\ Len(s) = length + Len(data)
        /\ \A i \in 1 .. length + Len(data) : s[i] = new[from + i - 1]
    <2> HIDE DEF new
    <2>1. from + (length + Len(data)) \leq n
      BY <1>1
    <2> QED BY <1>1, <1>2, <2>1, SliceProperties
  <1>4. /\ t \in Seq(Values) /\ Len(t) = length + Len(data)
        /\ \A i \in 1 .. length + Len(data) : t[i] =
              IF i \leq length THEN mem[from + i - 1] ELSE data[i - length]
    <2>1. data \in Seq(Values)
      BY LenProperties DEF Values
    <2>2. /\ Slice(mem, from, length) \in Seq(Values)
          /\ Len(Slice(mem, from, length)) = length
          /\ \A i \in 1 .. length : Slice(mem, from, length)[i] = mem[from + i - 1]
      <3> HIDE DEF new, s, t
      <3>1. from + length \leq n
        BY <1>1
      <3> QED BY ONLY n \in Nat, mem \in Block(n), from \in Nat, length \in Nat, <3>1, SliceProperties
    <2>3. ASSUME NEW r \in Seq(Values), Len(r) = length
          PROVE  /\ r \o data \in Seq(Values) /\ Len(r \o data) = length + Len(data)
                 /\ \A i \in 1 .. length + Len(data) : (r \o data)[i] =
                       IF i \leq length THEN r[i] ELSE data[i - length]
      BY <1>1, <2>1, <2>3, ConcatProperties
    <2>4. /\ t \in Seq(Values) /\ Len(t) = length + Len(data)
          /\ \A i \in 1 .. length + Len(data) : t[i] =
                IF i \leq length THEN Slice(mem, from, length)[i] ELSE data[i - length]
      BY <2>2, <2>3
    <2> HIDE DEF t
    <2>5. ASSUME NEW i \in 1 .. length + Len(data)
          PROVE  t[i] = IF i \leq length THEN mem[from + i - 1] ELSE data[i - length]
      <3>1. t[i] = IF i \leq length THEN Slice(mem, from, length)[i] ELSE data[i - length]
        BY ONLY <2>4, <2>5
      <3>2. i \leq length => Slice(mem, from, length)[i] = mem[from + i - 1]
        BY ONLY length \in Nat, <1>1, <2>2, <2>5
      <3> QED BY ONLY <3>1, <3>2
    <2> QED BY ONLY <2>4, <2>5
  <1>5. ASSUME NEW i \in 1 .. length + Len(data)
        PROVE  s[i] = t[i]
    <2> HIDE DEF new, s, t
    <2>1. from + i - 1 \in 0 .. n - 1 /\ (from + i - 1) - (from + length) + 1 = i - length
      BY <1>1
    <2>2. i \leq length <=> i - length \notin 1 .. Len(data)
      BY <1>1
    <2>3. new[from + i - 1] = IF i - length \in 1 .. Len(data)
                              THEN data[i - length] ELSE mem[from + i - 1]
      BY <1>2, <2>1
    <2> QED BY <1>3, <1>4, <2>2, <2>3
  <1> HIDE DEF s, t
  <1>6. s = t
    BY <1>3, <1>4, <1>5, SeqEqual
  <1> QED BY <1>6 DEF s, t

\* The bytes behind the first k of a slice are its tail.
LEMMA SliceTail ==
    ASSUME NEW n \in Nat, NEW mem \in Block(n), NEW from \in Nat, NEW length \in Nat,
           from + length \leq n, NEW k \in 0 .. length
    PROVE  Slice(mem, from + k, length - k) = SubSeq(Slice(mem, from, length), k + 1, length)
  <1> DEFINE s == Slice(mem, from, length)
             t == Slice(mem, from + k, length - k)
  <1>1. /\ s \in Seq(Values) /\ Len(s) = length
        /\ \A i \in 1 .. length : s[i] = mem[from + i - 1]
    BY SliceProperties
  <1>2. /\ t \in Seq(Values) /\ Len(t) = length - k
        /\ \A i \in 1 .. length - k : t[i] = mem[(from + k) + i - 1]
    <2>1. from + k \in Nat /\ length - k \in Nat /\ (from + k) + (length - k) \leq n
      OBVIOUS
    <2> QED BY <2>1, SliceProperties
  <1> HIDE DEF s, t
  <1>3. \A i \in k + 1 .. length : s[i] \in Values
    BY <1>1, LenProperties
  <1>4. k + 1 \in Int /\ length \in Int
    OBVIOUS
  <1>5. /\ SubSeq(s, k + 1, length) \in Seq(Values)
        /\ Len(SubSeq(s, k + 1, length)) = IF k + 1 <= length THEN length - (k + 1) + 1 ELSE 0
        /\ \A i \in 1 .. length - (k + 1) + 1 : SubSeq(s, k + 1, length)[i] = s[(k + 1) + i - 1]
    BY <1>3, <1>4, SubSeqProperties
  <1>6. Len(SubSeq(s, k + 1, length)) = length - k
    BY <1>5
  <1>7. ASSUME NEW i \in 1 .. length - k
        PROVE  SubSeq(s, k + 1, length)[i] = t[i]
    <2>1. i \in 1 .. length - (k + 1) + 1 /\ (k + 1) + i - 1 \in 1 .. length
      OBVIOUS
    <2>2. SubSeq(s, k + 1, length)[i] = s[(k + 1) + i - 1]
      BY <1>5, <2>1
    <2>3. s[(k + 1) + i - 1] = mem[from + ((k + 1) + i - 1) - 1]
      BY <1>1, <2>1
    <2>4. from + ((k + 1) + i - 1) - 1 = (from + k) + i - 1
      OBVIOUS
    <2> QED BY <1>2, <2>2, <2>3, <2>4
  <1>8. t = SubSeq(s, k + 1, length)
    BY <1>2, <1>5, <1>6, <1>7, SeqEqual
  <1> QED BY <1>8 DEF s, t

\* Bytes stored before a slice do not change it.
LEMMA SliceStoreBefore ==
    ASSUME NEW n \in Nat, NEW mem \in Block(n), NEW from \in Nat, NEW length \in Nat,
           from + length \leq n, NEW data \in Seq(Bytes), NEW at \in Nat,
           at + Len(data) \leq from
    PROVE  Slice(Store(mem, at, data), from, length) = Slice(mem, from, length)
  <1>1. \A i \in 1 .. length : Store(mem, at, data)[from + i - 1] = mem[from + i - 1]
    <2>1. \A i \in 1 .. length : /\ from + i - 1 \in 0 .. n - 1
                                 /\ (from + i - 1) - at + 1 \notin 1 .. Len(data)
      BY LenProperties
    <2> QED BY <2>1, StoreProperties
  <1> QED BY <1>1 DEF Slice

-----------------------------------------------------------------------------
(* Buffers.                                                                *)

\* The fields of a buffer whose content lies in its block.
LEMMA FitsFields ==
    ASSUME NEW x, Fits(x)
    PROVE  /\ x.totallen \in Nat /\ x.misalign \in Nat /\ x.off \in Nat
           /\ x.mem \in Block(x.totallen)
           /\ x.misalign + x.off \leq x.totallen
           /\ x = [mem |-> x.mem, misalign |-> x.misalign, off |-> x.off, totallen |-> x.totallen]
  BY DEF Fits, Block

\* A record put together from fields that fit is a buffer that fits.
LEMMA FieldsFit ==
    ASSUME NEW n \in Nat, NEW mem \in Block(n), NEW from \in Nat, NEW length \in Nat,
           from + length \leq n
    PROVE  Fits([mem |-> mem, misalign |-> from, off |-> length, totallen |-> n])
  BY DEF Fits, Block

\* The NUL behind the content changes no byte of it.
LEMMA TerminateFits ==
    ASSUME NEW x, Fits(x)
    PROVE  /\ Fits(Terminate(x)) /\ Content(Terminate(x)) = Content(x)
           /\ Terminate(x).off = x.off
  <1> DEFINE nul == <<NUL>>
             new == Store(x.mem, x.misalign + x.off, nul)
  <1>1. /\ x.totallen \in Nat /\ x.misalign \in Nat /\ x.off \in Nat
        /\ x.mem \in Block(x.totallen)
        /\ x.misalign + x.off \leq x.totallen
        /\ x.misalign + x.off \in Nat
    BY FitsFields
  <1>2. x = [mem |-> x.mem, misalign |-> x.misalign, off |-> x.off, totallen |-> x.totallen]
    BY FitsFields
  <1>3. nul \in Seq(Bytes)
    BY BytesAssumption
  <1>4. Terminate(x) = [mem |-> new, misalign |-> x.misalign, off |-> x.off, totallen |-> x.totallen]
    BY <1>2 DEF Terminate
  <1> HIDE DEF nul
  <1>5. new \in Block(x.totallen)
    BY <1>1, <1>3, StoreProperties
  <1>6. Slice(new, x.misalign, x.off) = Slice(x.mem, x.misalign, x.off)
    BY ONLY <1>1, <1>3, SliceStoreBehind
  <1> HIDE DEF new
  <1>7. Fits(Terminate(x))
    BY <1>1, <1>4, <1>5, FieldsFit
  <1> QED BY <1>4, <1>6, <1>7 DEF Content

\* Moving the content to the front of the block changes no byte of it.
LEMMA AlignFits ==
    ASSUME NEW x, Fits(x)
    PROVE  /\ Fits(Align(x)) /\ Content(Align(x)) = Content(x)
           /\ Align(x).off = x.off /\ Align(x).misalign = 0 /\ Align(x).totallen = x.totallen
  <1> DEFINE new == [i \in 0 .. x.totallen - 1 |-> IF i < x.off THEN x.mem[x.misalign + i] ELSE x.mem[i]]
  <1>1. /\ x.totallen \in Nat /\ x.misalign \in Nat /\ x.off \in Nat
        /\ x.mem \in Block(x.totallen)
        /\ x.misalign + x.off \leq x.totallen
        /\ x = [mem |-> x.mem, misalign |-> x.misalign, off |-> x.off, totallen |-> x.totallen]
    BY FitsFields
  <1>2. Align(x) = [mem |-> new, misalign |-> 0, off |-> x.off, totallen |-> x.totallen]
    <2>1. DOMAIN x.mem = 0 .. x.totallen - 1
      BY <1>1 DEF Block
    <2>2. Align(x) = [x EXCEPT !.mem = new, !.misalign = 0]
      BY <2>1 DEF Align
    <2> HIDE DEF new
    <2> QED BY <1>1, <2>2
  <1>3. new \in Block(x.totallen)
    BY <1>1 DEF Block
  <1>4. \A i \in 1 .. x.off : new[0 + i - 1] = x.mem[x.misalign + i - 1]
    BY <1>1
  <1> HIDE DEF new
  <1>5. Fits(Align(x))
    BY <1>1, <1>2, <1>3, FieldsFit
  <1>6. Slice(new, 0, x.off) = Slice(x.mem, x.misalign, x.off)
    BY <1>4 DEF Slice
  <1> QED BY <1>2, <1>5, <1>6 DEF Content

\* A larger block keeps the content.
LEMMA ReallocFits ==
    ASSUME NEW x, Fits(x), NEW length \in Nat, length \geq x.totallen
    PROVE  /\ Fits(Realloc(x, length)) /\ Content(Realloc(x, length)) = Content(x)
           /\ Realloc(x, length).off = x.off /\ Realloc(x, length).misalign = x.misalign
           /\ Realloc(x, length).totallen = length
  <1> DEFINE new == [i \in 0 .. length - 1 |-> IF i < x.totallen THEN x.mem[i] ELSE Junk]
  <1>1. /\ x.totallen \in Nat /\ x.misalign \in Nat /\ x.off \in Nat
        /\ x.mem \in Block(x.totallen)
        /\ x.misalign + x.off \leq x.totallen
        /\ x = [mem |-> x.mem, misalign |-> x.misalign, off |-> x.off, totallen |-> x.totallen]
    BY FitsFields
  <1>2. Realloc(x, length) = [mem |-> new, misalign |-> x.misalign, off |-> x.off, totallen |-> length]
    <2>1. Realloc(x, length) = [x EXCEPT !.mem = new, !.totallen = length]
      BY DEF Realloc
    <2> HIDE DEF new
    <2> QED BY <1>1, <2>1
  <1>3. new \in Block(length)
    BY <1>1 DEF Block, Values
  <1>4. \A i \in 1 .. x.off : new[x.misalign + i - 1] = x.mem[x.misalign + i - 1]
    BY <1>1
  <1> HIDE DEF new
  <1>5. Fits(Realloc(x, length))
    BY <1>1, <1>2, <1>3, FieldsFit
  <1>6. Slice(new, x.misalign, x.off) = Slice(x.mem, x.misalign, x.off)
    BY <1>4 DEF Slice
  <1> QED BY <1>2, <1>5, <1>6 DEF Content

\* __expand makes room for count bytes and keeps the content.
LEMMA ExpandedFits ==
    ASSUME NEW x, Fits(x), NEW count \in Nat, NEW y \in Expanded(x, count)
    PROVE  /\ Fits(y) /\ Content(y) = Content(x) /\ y.off = x.off
           /\ Room(y) \geq count
  <1> DEFINE need == x.misalign + x.off + count
  <1>1. /\ x.totallen \in Nat /\ x.misalign \in Nat /\ x.off \in Nat
        /\ x.misalign + x.off \leq x.totallen
    BY FitsFields
  <1>2. CASE x.totallen \geq need
    <2>1. y = x
      BY <1>1, <1>2 DEF Expanded
    <2> QED BY <1>1, <1>2, <2>1 DEF Room
  <1>3. CASE x.totallen < need /\ x.misalign \geq count
    <2>1. y = Align(x)
      BY <1>1, <1>3 DEF Expanded
    <2> QED BY <1>1, <1>3, <2>1, AlignFits DEF Room
  <1>4. CASE x.totallen < need /\ ~ (x.misalign \geq count)
    <2>1. y \in {Realloc(Align(x), length) : length \in NewLengths(x.totallen, need)}
      BY <1>1, <1>4 DEF Expanded
    <2>2. PICK length \in NewLengths(x.totallen, need) : y = Realloc(Align(x), length)
      BY <2>1
    <2>3. length \in Nat /\ length \geq need /\ length \geq x.totallen
      BY <1>1, SizesAssumption DEF NewLengths
    <2>4. /\ Fits(Align(x)) /\ Content(Align(x)) = Content(x)
          /\ Align(x).off = x.off /\ Align(x).misalign = 0 /\ Align(x).totallen = x.totallen
      BY AlignFits
    <2>5. /\ Fits(y) /\ Content(y) = Content(x) /\ y.off = x.off
          /\ y.misalign = 0 /\ y.totallen = length
      BY <2>2, <2>3, <2>4, ReallocFits
    <2> QED BY <1>1, <2>3, <2>5 DEF Room
  <1> QED BY <1>1, <1>2, <1>3, <1>4

\* Bytes appended within the room of the block.
LEMMA AppendFits ==
    ASSUME NEW x, Fits(x), NEW data \in Seq(Bytes), Room(x) \geq Len(data),
           NEW y, y = [x EXCEPT !.mem = Store(@, x.misalign + x.off, data), !.off = @ + Len(data)]
    PROVE  Fits(y) /\ Content(y) = Content(x) \o data
  <1> DEFINE new == Store(x.mem, x.misalign + x.off, data)
             total == x.off + Len(data)
  <1>1. /\ x.totallen \in Nat /\ x.misalign \in Nat /\ x.off \in Nat
        /\ x.mem \in Block(x.totallen)
        /\ x.misalign + x.off \in Nat
    BY FitsFields
  <1>2. x = [mem |-> x.mem, misalign |-> x.misalign, off |-> x.off, totallen |-> x.totallen]
    BY FitsFields
  <1>3. Len(data) \in Nat /\ x.misalign + x.off + Len(data) \leq x.totallen
    BY <1>1, LenProperties DEF Room
  <1>4. y = [mem |-> new, misalign |-> x.misalign, off |-> total, totallen |-> x.totallen]
    BY <1>2
  <1>5. new \in Block(x.totallen)
    BY <1>1, StoreProperties
  <1>6. data \in Seq(Bytes)
    OBVIOUS
  <1>7. Slice(new, x.misalign, total) = Slice(x.mem, x.misalign, x.off) \o data
    BY ONLY <1>1, <1>3, <1>6, SliceAppend, ZenonT(90)
  <1>8. total \in Nat /\ x.misalign + total \leq x.totallen
    BY <1>1, <1>3
  <1> HIDE DEF new, total
  <1>9. Fits([mem |-> new, misalign |-> x.misalign, off |-> total, totallen |-> x.totallen])
    BY ONLY <1>1, <1>5, <1>8, FieldsFit
  <1> QED BY ONLY <1>4, <1>7, <1>9 DEF Content

\* __drain takes the front of the content.
LEMMA DrainFits ==
    ASSUME NEW x, Fits(x), NEW k \in 0 .. x.off
    PROVE  /\ Fits(Drain(x, k))
           /\ Content(Drain(x, k)) = SubSeq(Content(x), k + 1, x.off)
           /\ Content(Drain(x, k)) = Slice(x.mem, x.misalign + k, x.off - k)
  <1> DEFINE y == IF k \geq x.off THEN [x EXCEPT !.off = 0, !.misalign = 0]
                  ELSE [x EXCEPT !.off = @ - k, !.misalign = @ + k]
  <1>1. /\ x.totallen \in Nat /\ x.misalign \in Nat /\ x.off \in Nat
        /\ x.mem \in Block(x.totallen)
        /\ x.misalign + x.off \leq x.totallen
        /\ x = [mem |-> x.mem, misalign |-> x.misalign, off |-> x.off, totallen |-> x.totallen]
    BY FitsFields
  <1>2. Slice(x.mem, x.misalign + k, x.off - k) = SubSeq(Content(x), k + 1, x.off)
    BY <1>1, SliceTail DEF Content
  <1>3. Fits(y) /\ Content(y) = Slice(x.mem, x.misalign + k, x.off - k)
    <2>1. CASE k \geq x.off
      <3>1. y = [mem |-> x.mem, misalign |-> 0, off |-> 0, totallen |-> x.totallen]
        BY <1>1, <2>1
      <3> HIDE DEF y
      <3>2. Fits(y)
        BY <1>1, <3>1, FieldsFit
      <3>3. Slice(x.mem, x.misalign + k, x.off - k) = Slice(x.mem, 0, 0)
        BY <1>1, <2>1 DEF Slice
      <3> QED BY <3>1, <3>2, <3>3 DEF Content
    <2>2. CASE ~ (k \geq x.off)
      <3>1. y = [mem |-> x.mem, misalign |-> x.misalign + k, off |-> x.off - k, totallen |-> x.totallen]
        BY <1>1, <2>2
      <3> HIDE DEF y
      <3>2. Fits(y)
        BY <1>1, <2>2, <3>1, FieldsFit
      <3> QED BY <3>1, <3>2 DEF Content
    <2> QED BY <2>1, <2>2
  <1>4. Drain(x, k) = Terminate(y)
    BY DEF Drain
  <1> HIDE DEF y
  <1> QED BY <1>2, <1>3, <1>4, TerminateFits

\* The content is a sequence of off values.
LEMMA ContentProperties ==
    ASSUME NEW x, Fits(x)
    PROVE  /\ Content(x) \in Seq(Values) /\ Len(Content(x)) = x.off
           /\ DOMAIN Content(x) = 1 .. x.off /\ x.off \in Nat
  <1>1. /\ x.totallen \in Nat /\ x.misalign \in Nat /\ x.off \in Nat
        /\ x.mem \in Block(x.totallen)
        /\ x.misalign + x.off \leq x.totallen
    BY FitsFields
  <1>2. Content(x) \in Seq(Values) /\ Len(Content(x)) = x.off
    BY ONLY <1>1, SliceProperties DEF Content
  <1> QED BY <1>1, <1>2, LenProperties

\* The argument of a push or a read is a sequence of bytes.
LEMMA DataProperties ==
    ASSUME NEW data \in Data
    PROVE  data \in Seq(Bytes) /\ Len(data) \in Nat
  BY SizesAssumption DEF Data

\* The effect of cutting a line of i + 1 + onemore bytes: its end is overwritten
\* and drained, the bytes behind it stay.
LEMMA CutFits ==
    ASSUME NEW x, Fits(x), NEW i \in 1 .. x.off, NEW onemore \in {0, 1}, i + onemore \leq x.off,
           NEW y, y = [x EXCEPT !.mem = Store(@, x.misalign + i - 1, [k \in 1 .. onemore + 1 |-> NUL])]
    PROVE  /\ Fits(Drain(y, i + onemore))
           /\ Content(Drain(y, i + onemore)) = SubSeq(Content(x), i + onemore + 1, x.off)
  <1> DEFINE nuls == [k \in 1 .. onemore + 1 |-> NUL]
             at == x.misalign + i - 1
             new == Store(x.mem, at, nuls)
             from == x.misalign + (i + onemore)
             length == x.off - (i + onemore)
  <1>1. /\ x.totallen \in Nat /\ x.misalign \in Nat /\ x.off \in Nat
        /\ x.mem \in Block(x.totallen)
        /\ x.misalign + x.off \leq x.totallen
    BY FitsFields
  <1>2. x = [mem |-> x.mem, misalign |-> x.misalign, off |-> x.off, totallen |-> x.totallen]
    BY FitsFields
  <1>3. y = [mem |-> new, misalign |-> x.misalign, off |-> x.off, totallen |-> x.totallen]
    BY <1>2
  <1>4. nuls \in Seq(Bytes) /\ Len(nuls) = onemore + 1
    BY BytesAssumption
  <1>5. /\ at \in Nat /\ from \in Nat /\ length \in Nat
        /\ from + length \leq x.totallen /\ at + Len(nuls) \leq from
        /\ i + onemore \in 0 .. x.off
    <2> HIDE DEF nuls, new
    <2>1. i \in 1 .. x.off /\ onemore \in {0, 1} /\ i + onemore \leq x.off
      OBVIOUS
    <2> QED BY ONLY <1>1, <1>4, <2>1, SMTT(30)
  <1> HIDE DEF nuls, at, from, length
  <1>6. new \in Block(x.totallen)
    BY <1>1, <1>4, <1>5, StoreProperties
  <1>7. Slice(new, from, length) = Slice(x.mem, from, length)
    BY ONLY <1>1, <1>4, <1>5, SliceStoreBefore
  <1> HIDE DEF new
  <1>8. Fits(y)
    BY ONLY <1>1, <1>3, <1>6, FieldsFit
  <1>9. /\ Fits(Drain(y, i + onemore))
        /\ Content(Drain(y, i + onemore)) = Slice(new, from, length)
    <2> DEFINE k == i + onemore
    <2>1. k \in 0 .. y.off /\ from = y.misalign + k /\ length = y.off - k /\ new = y.mem
      BY ONLY <1>3, <1>5 DEF from, length
    <2> HIDE DEF k
    <2>2. Fits(Drain(y, k)) /\ Content(Drain(y, k)) = Slice(new, from, length)
      BY ONLY <1>8, <2>1, DrainFits
    <2> QED BY <2>2 DEF k
  <1>10. Slice(x.mem, from, length) = SubSeq(Content(x), i + onemore + 1, x.off)
    <2> DEFINE k == i + onemore
    <2>1. k \in 0 .. x.off /\ from = x.misalign + k /\ length = x.off - k
      BY ONLY <1>5 DEF from, length
    <2> HIDE DEF k
    <2>2. Slice(x.mem, from, length) = SubSeq(Content(x), k + 1, x.off)
      BY ONLY <1>1, <2>1, SliceTail DEF Content
    <2> QED BY <2>2 DEF k
  <1> QED BY <1>7, <1>9, <1>10

-----------------------------------------------------------------------------
(* Steps.                                                                  *)

\* The inductive invariant: the content lies in its block, and nothing was ever
\* written outside of it.
IInv == ContentFits /\ NoWildWrite

\* The constructor leaves an empty buffer, which is an empty queue.
LEMMA InitStep == Init => IInv /\ F!Init
  <1> SUFFICES ASSUME Init PROVE IInv /\ F!Init
    OBVIOUS
  <1> DEFINE mem == [i \in 0 .. DefaultSize - 1 |-> Junk]
  <1>1. b = [mem |-> mem, misalign |-> 0, off |-> 0, totallen |-> DefaultSize]
    BY DEF Init
  <1>2. DefaultSize \in Nat /\ mem \in Block(DefaultSize)
    BY SizesAssumption DEF Block, Values
  <1> HIDE DEF mem
  <1>3. Fits(b)
    BY <1>1, <1>2, FieldsFit
  <1>4. Content(b) \in Seq(Values) /\ Len(Content(b)) = 0
    BY <1>1, <1>3, ContentProperties
  <1>5. Content(b) = <<>>
    BY <1>4, EmptySeq
  <1> QED BY <1>3, <1>5 DEF Init, IInv, ContentFits, NoWildWrite, F!Init

\* clear empties the queue.
LEMMA ClearStep == IInv /\ Clear => IInv' /\ F!Drop
  <1> SUFFICES ASSUME IInv, Clear PROVE IInv' /\ F!Drop
    OBVIOUS
  <1>1. Fits(b) /\ ~wild
    BY DEF IInv, ContentFits, NoWildWrite
  <1>2. b.totallen \in Nat /\ b.mem \in Block(b.totallen)
    BY <1>1, FitsFields
  <1>3. b' = [mem |-> b.mem, misalign |-> 0, off |-> 0, totallen |-> b.totallen]
    <2>1. b = [mem |-> b.mem, misalign |-> b.misalign, off |-> b.off, totallen |-> b.totallen]
      BY <1>1, FitsFields
    <2> QED BY <2>1 DEF Clear
  <1>4. Fits(b')
    BY <1>2, <1>3, FieldsFit
  <1>5. Content(b') \in Seq(Values) /\ Len(Content(b')) = 0
    BY <1>3, <1>4, ContentProperties
  <1>6. Content(b') = <<>>
    BY <1>5, EmptySeq
  <1> QED BY <1>1, <1>4, <1>6 DEF Clear, IInv, ContentFits, NoWildWrite, F!Drop

\* read puts what arrives at the back of the queue.
LEMMA ReadStep ==
    ASSUME NEW data \in Data, IInv, Read(data)
    PROVE  IInv' /\ F!Put(data)
  <1>1. Fits(b) /\ ~wild
    BY DEF IInv, ContentFits, NoWildWrite
  <1>2. data \in Seq(Bytes) /\ Len(data) \in Nat /\ Len(data) \leq MaxRead /\ MaxRead \in Nat
    BY DataProperties, SizesAssumption DEF Read
  <1> DEFINE y(x) == [x EXCEPT !.mem = Store(@, x.misalign + x.off, data), !.off = @ + Len(data)]
  <1>3. PICK x \in Expanded(b, MaxRead) :
            /\ b' = IF data = <<>> THEN x ELSE Terminate(y(x))
            /\ wild' = (wild \/ Room(x) < MaxRead)
    BY DEF Read
  <1>4. /\ Fits(x) /\ Content(x) = Content(b) /\ Room(x) \geq MaxRead
        /\ Room(x) \in Int
    <2>1. Fits(x) /\ Content(x) = Content(b) /\ Room(x) \geq MaxRead
      BY <1>1, <1>2, ExpandedFits
    <2> QED BY <2>1, FitsFields DEF Room
  <1>5. ~wild'
    <2>1. ~ (Room(x) < MaxRead)
      BY ONLY <1>2, <1>4
    <2> QED BY <1>1, <1>3, <2>1, Zenon
  <1>6. Room(x) \geq Len(data)
    BY <1>2, <1>4
  <1>7. Fits(y(x)) /\ Content(y(x)) = Content(b) \o data
    <2> DEFINE z == y(x)
    <2>1. z = [x EXCEPT !.mem = Store(@, x.misalign + x.off, data), !.off = @ + Len(data)]
      OBVIOUS
    <2> HIDE DEF z
    <2>2. Fits(z) /\ Content(z) = Content(x) \o data
      BY ONLY <1>2, <1>4, <1>6, <2>1, AppendFits
    <2> QED BY <1>4, <2>2 DEF z
  <1> HIDE DEF y
  <1>8. Fits(b') /\ Content(b') = Content(b) \o data
    <2>1. CASE data = <<>>
      <3>1. Content(b) \o <<>> = Content(b)
        BY <1>1, ContentProperties, ConcatEmptySeq
      <3> QED BY <1>3, <1>4, <2>1, <3>1
    <2>2. CASE data # <<>>
      BY <1>3, <1>7, <2>2, TerminateFits
    <2> QED BY <2>1, <2>2
  <1> QED BY <1>5, <1>8 DEF Read, IInv, ContentFits, NoWildWrite, F!Put

\* push puts its argument at the back of the queue.
LEMMA PushStep ==
    ASSUME NEW data \in Data, IInv, Push(data)
    PROVE  IInv' /\ F!Put(data)
  <1>1. Fits(b) /\ ~wild
    BY DEF IInv, ContentFits, NoWildWrite
  <1>2. data \in Seq(Bytes) /\ Len(data) \in Nat
    BY DataProperties
  <1>3. Room(b) \in Int
    BY <1>1, FitsFields DEF Room
  <1>4. PICK x \in IF Room(b) < Len(data) THEN Expanded(b, Len(data)) ELSE {b} :
            /\ b' = [x EXCEPT !.mem = Store(@, x.misalign + x.off, data), !.off = @ + Len(data)]
            /\ wild' = (wild \/ Room(x) < Len(data))
    BY DEF Push
  <1>5. Fits(x) /\ Content(x) = Content(b) /\ Room(x) \geq Len(data)
    <2>1. CASE Room(b) < Len(data)
      BY <1>1, <1>2, <1>4, <2>1, ExpandedFits
    <2>2. CASE ~ (Room(b) < Len(data))
      BY <1>1, <1>2, <1>3, <1>4, <2>2
    <2> QED BY <2>1, <2>2
  <1>6. Room(x) \in Int
    BY <1>5, FitsFields DEF Room
  <1>7. ~wild'
    <2>1. ~ (Room(x) < Len(data))
      BY ONLY <1>2, <1>5, <1>6
    <2> QED BY <1>1, <1>4, <2>1, Zenon
  <1>8. b' = [x EXCEPT !.mem = Store(@, x.misalign + x.off, data), !.off = @ + Len(data)]
    BY <1>4
  <1>9. Fits(b') /\ Content(b') = Content(x) \o data
    BY ONLY <1>2, <1>5, <1>8, AppendFits
  <1> QED BY <1>5, <1>7, <1>9 DEF Push, IInv, ContentFits, NoWildWrite, F!Put

\* write takes what the kernel accepts from the front of the queue.
LEMMA WriteStep ==
    ASSUME NEW n, IInv, Write(n)
    PROVE  IInv' /\ \E m \in 0 .. Len(Content(b)) : F!Take(m)
  <1>1. Fits(b) /\ ~wild
    BY DEF IInv, ContentFits, NoWildWrite
  <1>2. Len(Content(b)) = b.off /\ b.off \in Nat
    BY <1>1, ContentProperties
  <1>3. n \in 0 .. b.off
    BY <1>2 DEF Write
  <1>4. Fits(b') /\ Content(b') = SubSeq(Content(b), n + 1, Len(Content(b)))
    BY <1>1, <1>2, <1>3, DrainFits DEF Write
  <1>5. F!Take(n)
    BY <1>4 DEF Write, F!Take
  <1> QED BY <1>1, <1>2, <1>3, <1>4, <1>5 DEF Write, IInv, ContentFits, NoWildWrite

\* pop(data, length) takes at most length bytes from the front of the queue.
LEMMA PopBytesStep ==
    ASSUME NEW length \in Nat, IInv, PopBytes(length)
    PROVE  IInv' /\ \E m \in 0 .. Len(Content(b)) : F!Take(m)
  <1> DEFINE n == IF length > b.off THEN b.off ELSE length
  <1>1. Fits(b) /\ ~wild
    BY DEF IInv, ContentFits, NoWildWrite
  <1>2. Content(b) \in Seq(Values) /\ Len(Content(b)) = b.off /\ b.off \in Nat
    BY <1>1, ContentProperties
  <1>3. n \in 0 .. b.off
    BY <1>2
  <1>4. /\ out' = SubSeq(Content(b), 1, n) /\ wild' = wild
        /\ b' = Terminate(IF n > 0 THEN Drain(b, n) ELSE b)
    BY DEF PopBytes
  <1> HIDE DEF n
  <1>5. Fits(b') /\ Content(b') = SubSeq(Content(b), n + 1, b.off)
    <2>1. CASE n > 0
      BY <1>1, <1>3, <1>4, <2>1, DrainFits, TerminateFits
    <2>2. CASE n = 0
      <3>1. Fits(b') /\ Content(b') = Content(b)
        BY <1>1, <1>4, <2>2, TerminateFits
      <3>2. SubSeq(Content(b), 1, Len(Content(b))) = Content(b)
        BY <1>2, SubSeqFull
      <3> QED BY <1>2, <2>2, <3>1, <3>2
    <2> QED BY <1>2, <1>3, <2>1, <2>2
  <1>6. F!Take(n)
    BY <1>2, <1>4, <1>5 DEF F!Take
  <1> QED BY <1>1, <1>2, <1>3, <1>4, <1>5, <1>6 DEF IInv, ContentFits, NoWildWrite

\* pop() takes nothing when there is no line end.
LEMMA PopNoLineStep == IInv /\ PopNoLine => IInv' /\ F!NoLine
  <1> SUFFICES ASSUME IInv, PopNoLine PROVE IInv' /\ F!NoLine
    OBVIOUS
  <1>1. Fits(b) /\ ~wild
    BY DEF IInv, ContentFits, NoWildWrite
  <1>2. DOMAIN Content(b) = 1 .. b.off
    BY <1>1, ContentProperties
  <1> QED BY <1>1, <1>2 DEF PopNoLine, IInv, ContentFits, NoWildWrite, F!NoLine

\* pop() takes the first line and its end.
LEMMA PopLineStep ==
    ASSUME NEW i, IInv, PopLine(i)
    PROVE  IInv' /\ F!TakeLine
  <1> DEFINE s == Content(b)
             onemore == IF i < b.off /\ {s[i], s[i + 1]} = {CR, LF} THEN 1 ELSE 0
             cut == [b EXCEPT !.mem = Store(@, b.misalign + i - 1, [k \in 1 .. onemore + 1 |-> NUL])]
  <1>1. Fits(b) /\ ~wild
    BY DEF IInv, ContentFits, NoWildWrite
  <1>2. DOMAIN s = 1 .. b.off /\ Len(s) = b.off /\ b.off \in Nat
    BY <1>1, ContentProperties
  <1>3. /\ i \in 1 .. b.off
        /\ s[i] \in {CR, LF}
        /\ \A j \in 1 .. i - 1 : s[j] \notin {CR, LF}
        /\ \E n \in 0 .. i - 1 : CString(s, n, i) /\ out' = SubSeq(s, 1, n)
        /\ b' = Drain(cut, i + onemore)
        /\ wild' = wild
    BY DEF PopLine
  <1>4. /\ onemore \in {0, 1} /\ i + onemore \leq b.off
        /\ onemore = 1 <=> i < b.off /\ {s[i], s[i + 1]} = {CR, LF}
    <2> HIDE DEF cut, s
    <2>1. CASE i < b.off /\ {s[i], s[i + 1]} = {CR, LF}
      BY ONLY <1>2, <1>3, <2>1
    <2>2. CASE ~ (i < b.off /\ {s[i], s[i + 1]} = {CR, LF})
      <3>1. onemore = 0
        BY ONLY <2>2
      <3> HIDE DEF onemore
      <3>2. onemore \in {0, 1} /\ i + onemore \leq b.off /\ onemore # 1
        BY ONLY <1>2, <1>3, <3>1
      <3> QED BY ONLY <2>2, <3>2, Zenon
    <2> QED BY <2>1, <2>2
  <1>5. cut = [b EXCEPT !.mem = Store(@, b.misalign + i - 1, [k \in 1 .. onemore + 1 |-> NUL])]
    OBVIOUS
  <1> HIDE DEF onemore, cut
  <1>6. Fits(b') /\ Content(b') = SubSeq(s, i + onemore + 1, b.off)
    BY ONLY <1>1, <1>3, <1>4, <1>5, CutFits
  <1>7. F!TakeLine
    <2>1. onemore + 1 \in {1, 2} /\ (onemore + 1 = 2 <=> onemore = 1)
      BY <1>4
    <2>2. F!LineAt(i, onemore + 1)
      BY <1>2, <1>3, <1>4, <2>1 DEF F!LineAt
    <2>3. Content(b') = SubSeq(s, i + (onemore + 1), Len(s))
      BY <1>2, <1>3, <1>4, <1>6
    <2>4. i \in DOMAIN s
      BY <1>2, <1>3
    <2>5. \E n \in 0 .. i - 1 :
              /\ n = i - 1 \/ s[n + 1] = NUL
              /\ \A j \in 1 .. n : s[j] # NUL
              /\ out' = SubSeq(s, 1, n)
      BY <1>3 DEF CString
    <2> HIDE DEF s
    <2> QED BY <2>1, <2>2, <2>3, <2>4, <2>5 DEF F!TakeLine, s
  <1> QED BY <1>1, <1>3, <1>6, <1>7 DEF IInv, ContentFits, NoWildWrite

\* Every call keeps the invariant and is a step of the queue.
LEMMA NextStep == IInv /\ [Next]_vars => IInv' /\ [F!Next]_F!vars
  <1> SUFFICES ASSUME IInv, [Next]_vars PROVE IInv' /\ [F!Next]_F!vars
    OBVIOUS
  <1>1. CASE Clear
    BY <1>1, ClearStep DEF F!Next
  <1>2. ASSUME NEW data \in Data, Read(data) \/ Push(data) PROVE IInv' /\ [F!Next]_F!vars
    <2>1. IInv' /\ F!Put(data)
      BY <1>2, ReadStep, PushStep
    <2> QED BY <2>1 DEF F!Next
  <1>3. ASSUME NEW n \in 1 .. MaxTotal, Write(n) PROVE IInv' /\ [F!Next]_F!vars
    BY <1>3, WriteStep DEF F!Next
  <1>4. ASSUME NEW n \in 0 .. MaxTotal, PopBytes(n) PROVE IInv' /\ [F!Next]_F!vars
    <2>1. n \in Nat
      OBVIOUS
    <2> QED BY <1>4, <2>1, PopBytesStep DEF F!Next
  <1>5. CASE PopNoLine
    BY <1>5, PopNoLineStep DEF F!Next
  <1>6. ASSUME NEW i \in 1 .. MaxTotal, PopLine(i) PROVE IInv' /\ [F!Next]_F!vars
    BY <1>6, PopLineStep DEF F!Next
  <1>7. CASE UNCHANGED vars
    BY <1>7 DEF vars, IInv, ContentFits, NoWildWrite, F!vars
  <1> QED BY <1>1, <1>2, <1>3, <1>4, <1>5, <1>6, <1>7 DEF Next

\* The content lies in its block after any sequence of calls, whatever the sizes
\* of the block, of a read and of the data (class buffer).
THEOREM ContentAlwaysFits == Spec => []ContentFits
  <1>1. IInv => ContentFits
    BY DEF IInv
  <1> QED BY <1>1, InitStep, NextStep, PTL DEF Spec

\* No call of buffer writes outside of its block.
THEOREM NeverWild == Spec => []NoWildWrite
  <1>1. IInv => NoWildWrite
    BY DEF IInv
  <1> QED BY <1>1, InitStep, NextStep, PTL DEF Spec

\* The class buffer is a queue of bytes.
THEOREM BufferIsByteFifo == Spec => ImplementsByteFifo
  BY InitStep, NextStep, PTL DEF Spec, ImplementsByteFifo, F!Spec
=============================================================================
