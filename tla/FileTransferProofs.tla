------------------------- MODULE FileTransferProofs -------------------------
(***************************************************************************)
(* Theorems about FileTransfer, for a file and a buffer of any size, any   *)
(* text, any number of segments and any set of faults.                     *)
(***************************************************************************)
EXTENDS FileTransfer, SequenceTheorems, FiniteSetTheorems, TLAPS

\* The bytes u are those of the content from s + 1 on.
Fits(u, s) == /\ s + Len(u) <= Len(content)
              /\ \A k \in 1 .. Len(u) : u[k] = content[s + k]

\* The bytes of the file come in the file's order, U+FFFD in between.
Rising(u) == \A j, k \in 1 .. Len(u) :
                j < k /\ u[j] # 0 /\ u[k] # 0 => u[j] < u[k]

\* The two programs keep step until the "ok": no content is on its way before
\* the name has been read.
InStep ==
    /\ cli \in {"stat", "never", "dial"} =>
          srv = "accept" /\ upEnd = "open" /\ ~broken
    /\ cli \in {"stat", "never", "dial", "sendName"} =>
          srv \in {"accept", "name", "done"} /\ up = <<>> /\ ~down
    /\ cli \notin {"send", "done"} => content = <<>>
    /\ srv \in {"accept", "name", "ok"} =>
          ~down /\ cli \notin {"open", "send"} /\ content = <<>>
    /\ srv \in {"accept", "name", "ok", "create"} => stored = <<>> /\ lost = 0

\* How a connection ends, and what the last words mean.
Ends ==
    /\ srv = "done" => broken /\ up = <<>>
    /\ broken => srv = "done" \/ upEnd = "rst"
    /\ upEnd = "fin" => cli = "done"
    /\ upEnd = "rst" => broken \/ cli = "done"
    /\ cliSaid = "sent" => cli = "done" /\ off = Size
    /\ srvSaid = "complete" => srv = "done" /\ cli = "done"

\* The client is at the end of a chunk, and what it has written is the upper
\* case of the file up to there.
Written ==
    /\ off = Size \/ \E m \in 0 .. Size : off = m * Chunk
    /\ Rising(content)
    /\ \A k \in 1 .. Len(content) : content[k] <= off
    /\ WholeChars => /\ Len(content) = off
                     /\ \A k \in 1 .. Len(content) : content[k] = k

\* The bytes of the content that the server has read.
got == Len(stored) + lost

\* The bytes after them are on their way, all that were written unless the
\* connection was reset; what is stored comes before them in the file.
Coming ==
    /\ Fits(up, got)
    /\ upEnd # "rst" => got + Len(up) = Len(content)
    /\ \A j \in 1 .. Len(stored), k \in 1 .. Len(content) :
          got < k /\ stored[j] # 0 /\ content[k] # 0 => stored[j] < content[k]

\* A name in one piece comes before the content, which follows in order.
InOrder ==
    NameLen = 1 =>
        /\ Rising(stored)
        /\ \A j \in 1 .. Len(stored) : stored[j] <= off
        /\ lost = 0 => Fits(stored, 0)
        /\ srv \in {"accept", "name"} => up = <<>> \/ up = Name
        /\ srv \in {"ok", "create", "recv"} => name = Name /\ Coming
        /\ srvSaid = "complete" => name = Name /\ got = Len(content)

IInv == TypeOK /\ InStep /\ Ends /\ Written /\ InOrder

Bytes == -NameLen .. Size

-----------------------------------------------------------------------------
(* The operators of the model.                                             *)

LEMMA InputType ==
    ASSUME TypeOK
    PROVE  /\ NameLen \in Nat \ {0}
           /\ CharEnds \subseteq 1 .. Size
           /\ Size > 0 => Size \in CharEnds
           /\ Size \in Nat /\ Chunk \in Nat \ {0}
           /\ Name \in Seq(Bytes) /\ Len(Name) = NameLen
<1>1. /\ NameLen \in Nat \ {0}
      /\ CharEnds \subseteq 1 .. Size
      /\ Size > 0 => Size \in CharEnds
      /\ Size \in Nat /\ Chunk \in Nat \ {0}
  BY FileAssumption DEF TypeOK, NameLen, CharEnds
<1>2. Name \in [1 .. NameLen -> Bytes]
  BY <1>1 DEF Name, Bytes
<1> QED  BY <1>1, <1>2

\* Nothing of what the files and the network are like changes in a run.
LEMMA InputStays ==
    ASSUME UNCHANGED input
    PROVE  UNCHANGED <<NameLen, CharEnds, WholeChars, Name, Bytes>>
BY DEF NameLen, CharEnds, WholeChars, Name, Bytes

LEMMA Lengths ==
    ASSUME TypeOK
    PROVE  /\ up \in Seq(Bytes) /\ Len(up) \in Nat
           /\ stored \in Seq(Bytes) /\ Len(stored) \in Nat
           /\ content \in Seq(0 .. Size) /\ Len(content) \in Nat
           /\ off \in Nat /\ lost \in Nat /\ got \in Nat
           /\ \A k \in 1 .. Len(up) : up[k] \in Int
           /\ \A k \in 1 .. Len(stored) : stored[k] \in Int
           /\ \A k \in 1 .. Len(content) : content[k] \in 0 .. Size
<1>1. /\ up \in Seq(Bytes) /\ stored \in Seq(Bytes) /\ content \in Seq(0 .. Size)
      /\ off \in Nat /\ lost \in Nat /\ Bytes \subseteq Int
  BY InputType DEF TypeOK, Bytes
<1>2. Len(up) \in Nat /\ Len(stored) \in Nat /\ Len(content) \in Nat
  BY <1>1, LenProperties
<1>3. /\ \A k \in 1 .. Len(up) : up[k] \in Bytes
      /\ \A k \in 1 .. Len(stored) : stored[k] \in Bytes
      /\ \A k \in 1 .. Len(content) : content[k] \in 0 .. Size
  BY <1>1, ElementOfSeq
<1>4. /\ \A k \in 1 .. Len(up) : up[k] \in Int
      /\ \A k \in 1 .. Len(stored) : stored[k] \in Int
  BY <1>1, <1>3
<1>5. got \in Nat
  BY <1>1, <1>2 DEF got
<1> QED  BY <1>1, <1>2, <1>3, <1>4, <1>5

\* The beginning of a sequence, and what is left when it is taken.
LEMMA BeginningAndRest ==
    ASSUME NEW S, NEW u \in Seq(S), NEW n \in 0 .. Len(u)
    PROVE  /\ SubSeq(u, 1, n) \in Seq(S) /\ Len(SubSeq(u, 1, n)) = n
           /\ \A k \in 1 .. n : SubSeq(u, 1, n)[k] = u[k]
           /\ SubSeq(u, n + 1, Len(u)) \in Seq(S)
           /\ Len(SubSeq(u, n + 1, Len(u))) = Len(u) - n
           /\ \A k \in 1 .. Len(u) - n : SubSeq(u, n + 1, Len(u))[k] = u[n + k]
<1>1. /\ Len(u) \in Nat /\ n \in Nat /\ n <= Len(u)
      /\ \A k \in 1 .. Len(u) : u[k] \in S
  BY ElementOfSeq, LenProperties
<1>2. /\ SubSeq(u, 1, n) \in Seq(S) /\ Len(SubSeq(u, 1, n)) = n
      /\ \A k \in 1 .. n : SubSeq(u, 1, n)[k] = u[k]
  BY <1>1, SubSeqProperties
<1>3. /\ SubSeq(u, n + 1, Len(u)) \in Seq(S)
      /\ Len(SubSeq(u, n + 1, Len(u))) = Len(u) - n
      /\ \A k \in 1 .. Len(u) - (n + 1) + 1 :
            SubSeq(u, n + 1, Len(u))[k] = u[n + 1 + k - 1]
  BY <1>1, SubSeqProperties
<1>4. \A k \in 1 .. Len(u) - n : SubSeq(u, n + 1, Len(u))[k] = u[n + k]
  BY <1>1, <1>3
<1> QED  BY <1>2, <1>3, <1>4

\* A piece that fits keeps fitting when it is cut or taken from.
LEMMA FitsCut ==
    ASSUME TypeOK, NEW u \in Seq(Bytes), NEW n \in 0 .. Len(u), NEW s \in Nat,
           Fits(u, s)
    PROVE  Fits(SubSeq(u, 1, n), s) /\ Fits(SubSeq(u, n + 1, Len(u)), s + n)
<1>1. Len(u) \in Nat /\ n \in Nat /\ n <= Len(u) /\ Len(content) \in Nat
  BY LenProperties, Lengths
<1>2. Fits(SubSeq(u, 1, n), s)
  BY <1>1, BeginningAndRest DEF Fits
<1>3. ASSUME NEW k \in 1 .. Len(u) - n
      PROVE  u[n + k] = content[(s + n) + k]
  <2>0. n + k \in 1 .. Len(u)  BY <1>1
  <2>1. u[n + k] = content[s + (n + k)]  BY <2>0 DEF Fits
  <2>2. s + (n + k) = (s + n) + k  BY <1>1
  <2> QED  BY <2>1, <2>2
<1>4. /\ Len(SubSeq(u, n + 1, Len(u))) = Len(u) - n
      /\ \A k \in 1 .. Len(u) - n : SubSeq(u, n + 1, Len(u))[k] = u[n + k]
  BY BeginningAndRest
<1>5. s + n + (Len(u) - n) <= Len(content)
  BY <1>1 DEF Fits
<1>6. Fits(SubSeq(u, n + 1, Len(u)), s + n)
  BY <1>3, <1>4, <1>5 DEF Fits
<1> QED  BY <1>2, <1>6

\* What fits goes on fitting while the content grows.
LEMMA FitsMore ==
    ASSUME NEW u, NEW s \in Nat, Len(u) \in Nat, Fits(u, s),
           Len(content) \in Nat, Len(content') \in Nat,
           Len(content) <= Len(content'),
           \A k \in 1 .. Len(content) : content'[k] = content[k]
    PROVE  /\ s + Len(u) <= Len(content')
           /\ \A k \in 1 .. Len(u) : u[k] = content'[s + k]
<1>1. \A k \in 1 .. Len(u) : s + k \in 1 .. Len(content)
  BY DEF Fits
<1> QED  BY <1>1 DEF Fits

\* One file.Write adds a beginning of the piece.
LEMMA AppendedBytes ==
    ASSUME TypeOK, NEW u \in Seq(Bytes), NEW n \in 0 .. Len(u)
    PROVE  /\ Appended(u, n) \in Seq(Bytes)
           /\ Len(Appended(u, n)) = Len(stored) + n
           /\ \A k \in 1 .. Len(stored) + n :
                 Appended(u, n)[k] = IF k <= Len(stored) THEN stored[k]
                                     ELSE u[k - Len(stored)]
<1>1. /\ SubSeq(u, 1, n) \in Seq(Bytes) /\ Len(SubSeq(u, 1, n)) = n
      /\ \A k \in 1 .. n : SubSeq(u, 1, n)[k] = u[k]
  BY BeginningAndRest
<1>2. stored \in Seq(Bytes) /\ Len(stored) \in Nat
  BY Lengths
<1>3. /\ Appended(u, n) \in Seq(Bytes)
      /\ Len(Appended(u, n)) = Len(stored) + n
      /\ \A k \in 1 .. Len(stored) + n :
            Appended(u, n)[k] = IF k <= Len(stored) THEN stored[k]
                                ELSE SubSeq(u, 1, n)[k - Len(stored)]
  BY <1>1, <1>2, ConcatProperties DEF Appended
<1>4. \A k \in 1 .. Len(stored) + n :
         k > Len(stored) => k - Len(stored) \in 1 .. n
  BY <1>2
<1> QED  BY <1>1, <1>2, <1>3, <1>4

\* One chunk in upper case.
ChunkEnd == IF off + Chunk < Size THEN off + Chunk ELSE Size

\* Where no chunk ends within a character a chunk has whole ones only.
LEMMA ChunkWhole ==
    ASSUME TypeOK, Written, off < Size, WholeChars,
           NEW b \in off + 1 .. ChunkEnd
    PROVE  IsWhole(b, off + 1, ChunkEnd)
<1>1. off \in 0 .. Size /\ Size \in Nat /\ Chunk \in Nat \ {0}
  BY InputType DEF TypeOK
<1>2. ChunkEnd \in 0 .. Size /\ ChunkEnd > off
  BY <1>1 DEF ChunkEnd
<1>3. off = 0 \/ off \in CharEnds
  BY <1>1 DEF Written, WholeChars
<1>4. ChunkEnd \in CharEnds
  <2>1. CASE ChunkEnd = Size
    BY <1>1, <1>2, <2>1, Size > 0, InputType
  <2>2. CASE ChunkEnd # Size
    <3>1. PICK m \in 0 .. Size : off = m * Chunk
      BY <1>1 DEF Written
    <3>2. ChunkEnd = (m + 1) * Chunk /\ ChunkEnd <= Size
      BY <1>1, <1>2, <2>2, <3>1 DEF ChunkEnd
    <3>3. m + 1 \in 1 .. Size
      BY <1>1, <1>2, <3>1, <3>2
    <3> QED  BY <3>2, <3>3 DEF WholeChars
  <2> QED  BY <2>1, <2>2
<1>5. off + 1 = 1 \/ \E e \in (off + 1) - 1 .. b - 1 : e \in CharEnds
  BY <1>1, <1>2, <1>3
<1>6. \E e \in b .. ChunkEnd : e \in CharEnds
  BY <1>1, <1>2, <1>4
<1>7. IsWhole(b, off + 1, ChunkEnd) <=>
         /\ off + 1 = 1 \/ \E e \in (off + 1) - 1 .. b - 1 : e \in CharEnds
         /\ \E e \in b .. ChunkEnd : e \in CharEnds
  BY DEF IsWhole
<1> QED  BY <1>5, <1>6, <1>7

\* Two pieces of known lengths, one behind the other.
LEMMA Joined ==
    ASSUME NEW S, NEW p \in Seq(S), NEW q \in Seq(S),
           NEW i, NEW j, Len(p) = i, Len(q) = j
    PROVE  /\ p \o q \in Seq(S) /\ Len(p \o q) = i + j
           /\ \A k \in 1 .. i + j : (p \o q)[k] = IF k <= i THEN p[k] ELSE q[k - i]
BY ConcatProperties, Zenon

\* Whole characters between U+FFFD for a bytes and for z bytes.
Upper(lo, hi, a, z) ==
    Replacement(a) \o SubSeq(Image, lo + a, hi - z) \o Replacement(z)

IsUpper(u, lo, hi, a, z) ==
    LET n == hi - lo + 1 - a - z IN
    /\ u \in Seq(0 .. Size)
    /\ Len(u) = 3 * a + n + 3 * z
    /\ \A k \in 1 .. Len(u) :
          u[k] = IF 3 * a < k /\ k <= 3 * a + n THEN lo + a + (k - 3 * a) - 1 ELSE 0

\* What Upper consists of, byte by byte.
LEMMA Pieces ==
    ASSUME NEW lo \in Nat \ {0}, NEW hi \in Nat, NEW a \in Nat, NEW z \in Nat,
           lo <= hi, hi <= Size, a + z <= hi - lo + 1, Size \in Nat
    PROVE  IsUpper(Upper(lo, hi, a, z), lo, hi, a, z)
<1> DEFINE r == Replacement(a)
           m == SubSeq(Image, lo + a, hi - z)
           t == Replacement(z)
           n == hi - lo + 1 - a - z
<1>1. n \in Nat /\ lo + a \in Int /\ hi - z \in Int /\ hi - z - (lo + a) + 1 = n
  OBVIOUS
<1>2. ASSUME NEW x \in Nat
      PROVE  /\ Replacement(x) \in Seq(0 .. Size) /\ Len(Replacement(x)) = 3 * x
             /\ \A k \in 1 .. 3 * x : Replacement(x)[k] = 0
  <2>1. Replacement(x) = [k \in 1 .. 3 * x |-> 0] /\ 3 * x \in Nat
    BY DEF Replacement
  <2>2. Replacement(x) \in [1 .. 3 * x -> 0 .. Size]
    BY <2>1
  <2> QED  BY <2>1, <2>2
<1>3. /\ m \in Seq(0 .. Size) /\ Len(m) = n
      /\ \A k \in 1 .. n : m[k] = lo + a + k - 1
  <2>1. \A i \in lo + a .. hi - z : i \in 1 .. Size
    OBVIOUS
  <2>2. \A i \in lo + a .. hi - z : Image[i] \in 0 .. Size /\ Image[i] = i
    BY <2>1 DEF Image
  <2>3. /\ m \in Seq(0 .. Size)
        /\ Len(m) = IF lo + a <= hi - z THEN hi - z - (lo + a) + 1 ELSE 0
        /\ \A k \in 1 .. hi - z - (lo + a) + 1 : m[k] = Image[lo + a + k - 1]
    BY <1>1, <2>2, SubSeqProperties
  <2>4. Len(m) = n
    BY <1>1, <2>3
  <2>5. \A k \in 1 .. n : lo + a + k - 1 \in lo + a .. hi - z
    BY <1>1
  <2> QED  BY <1>1, <2>2, <2>3, <2>4, <2>5
<1> DEFINE x == 3 * a
           y == 3 * z
<1>4. /\ r \in Seq(0 .. Size) /\ Len(r) = x /\ \A k \in 1 .. x : r[k] = 0
      /\ t \in Seq(0 .. Size) /\ Len(t) = y /\ \A k \in 1 .. y : t[k] = 0
      /\ x \in Nat /\ y \in Nat
  BY <1>2
<1> HIDE DEF r, m, t, n, x, y
<1>5. /\ r \o m \in Seq(0 .. Size) /\ Len(r \o m) = x + n
      /\ \A k \in 1 .. x + n :
            (r \o m)[k] = IF k <= x THEN r[k] ELSE m[k - x]
  <2>1. r \in Seq(0 .. Size) /\ m \in Seq(0 .. Size) /\ Len(r) = x /\ Len(m) = n
    BY <1>3, <1>4
  <2> QED  BY <2>1, Joined
<1> DEFINE w == r \o m
<1> HIDE DEF w
<1> DEFINE u == w \o t
<1>6. /\ u \in Seq(0 .. Size) /\ Len(u) = (x + n) + y
      /\ \A k \in 1 .. (x + n) + y :
            u[k] = IF k <= x + n THEN w[k] ELSE t[k - (x + n)]
  <2>1. /\ w \in Seq(0 .. Size) /\ t \in Seq(0 .. Size)
        /\ Len(w) = x + n /\ Len(t) = y
    BY <1>4, <1>5 DEF w
  <2> HIDE DEF u
  <2>2. u = w \o t
    BY DEF u
  <2> QED  BY <2>1, <2>2, Joined
<1> HIDE DEF u
<1>7. ASSUME NEW k \in 1 .. Len(u)
      PROVE  u[k] = IF x < k /\ k <= x + n THEN lo + a + (k - x) - 1 ELSE 0
  <2>1. CASE k <= x
    <3>1. k \in 1 .. x /\ k \in 1 .. x + n /\ k <= x + n /\ k \in 1 .. (x + n) + y
      BY <1>1, <1>4, <1>6, <2>1
    <3>2. u[k] = 0
      BY <1>4, <1>5, <1>6, <2>1, <3>1 DEF w
    <3> QED  BY <1>4, <2>1, <3>1, <3>2
  <2>2. CASE x < k /\ k <= x + n
    <3>1. k - x \in 1 .. n /\ k \in 1 .. x + n /\ k \in 1 .. (x + n) + y /\ ~(k <= x)
      BY <1>1, <1>4, <1>6, <2>2
    <3>2. u[k] = m[k - x]
      BY <1>5, <1>6, <2>2, <3>1 DEF w
    <3> QED  BY <1>3, <2>2, <3>1, <3>2
  <2>3. CASE k > x + n
    <3>1. k - (x + n) \in 1 .. y /\ k \in 1 .. (x + n) + y /\ ~(k <= x + n)
      BY <1>1, <1>4, <1>6, <2>3
    <3>2. u[k] = t[k - (x + n)]
      BY <1>6, <3>1
    <3> QED  BY <1>4, <3>1, <3>2
  <2>4. k \in Int /\ x \in Int /\ n \in Int
    BY <1>1, <1>4, <1>6
  <2> QED  BY <2>1, <2>2, <2>3, <2>4
<1> QED  BY <1>6, <1>7 DEF u, w, r, m, t, n, x, y, Upper, IsUpper

LEMMA ToUpperBytes ==
    ASSUME TypeOK, Written, off < Size
    PROVE  LET u == ToUpper(off + 1, ChunkEnd) IN
           /\ ChunkEnd \in 0 .. Size /\ ChunkEnd > off
           /\ u \in Seq(0 .. Size) /\ Len(u) \in Nat
           /\ Rising(u)
           /\ \A k \in 1 .. Len(u) : u[k] = 0 \/ (off < u[k] /\ u[k] <= ChunkEnd)
           /\ WholeChars => /\ Len(u) = ChunkEnd - off
                            /\ \A k \in 1 .. Len(u) : u[k] = off + k
<1> DEFINE u == ToUpper(off + 1, ChunkEnd)
           cut    == {b \in off + 1 .. ChunkEnd : ~IsWhole(b, off + 1, ChunkEnd)}
           before == {b \in cut : off + 1 .. b \subseteq cut}
           behind == cut \ before
           a == Cardinality(before)
           z == Cardinality(behind)
           n == ChunkEnd - (off + 1) + 1 - a - z
<1>1. off \in 0 .. Size /\ Size \in Nat /\ Chunk \in Nat \ {0}
  BY InputType DEF TypeOK
<1>2. ChunkEnd \in 0 .. Size /\ ChunkEnd > off
  BY <1>1 DEF ChunkEnd
<1>3. a \in Nat /\ z \in Nat /\ a + z <= ChunkEnd - (off + 1) + 1
  <2> DEFINE I == off + 1 .. ChunkEnd
  <2>1. IsFiniteSet(I) /\ Cardinality(I) = ChunkEnd - (off + 1) + 1
    BY <1>1, <1>2, FS_Interval
  <2>2. cut \in SUBSET I /\ before \in SUBSET cut /\ cut \cap before = before
    OBVIOUS
  <2> HIDE DEF I, cut, before
  <2>3. IsFiniteSet(cut) /\ Cardinality(cut) <= Cardinality(I)
    BY <2>1, <2>2, FS_Subset
  <2>4. IsFiniteSet(before)
    BY <2>2, <2>3, FS_Subset
  <2>5. IsFiniteSet(behind) /\ z = Cardinality(cut) - a
    BY <2>2, <2>3, FS_Difference
  <2>6. a \in Nat /\ z \in Nat /\ Cardinality(cut) \in Nat
    BY <2>3, <2>4, <2>5, FS_CardinalityType
  <2> HIDE DEF a, z
  <2> QED  BY <1>1, <1>2, <2>1, <2>3, <2>5, <2>6
<1>4. u = Upper(off + 1, ChunkEnd, a, z)
  BY DEF ToUpper, Upper
<1>5. WholeChars => a = 0 /\ z = 0
  <2> SUFFICES ASSUME WholeChars PROVE a = 0 /\ z = 0
    OBVIOUS
  <2>1. cut = {}
    BY ChunkWhole
  <2> HIDE DEF cut
  <2>2. before = {} /\ behind = {}
    BY <2>1
  <2> QED  BY <2>2, FS_EmptySet
<1> HIDE DEF u, a, z
<1>6. /\ u \in Seq(0 .. Size) /\ Len(u) = 3 * a + n + 3 * z
      /\ \A k \in 1 .. Len(u) :
            u[k] = IF 3 * a < k /\ k <= 3 * a + n THEN off + 1 + a + (k - 3 * a) - 1
                   ELSE 0
  <2>1. off + 1 \in Nat \ {0} /\ ChunkEnd \in Nat /\ off + 1 <= ChunkEnd /\ ChunkEnd <= Size
    BY <1>1, <1>2
  <2>2. IsUpper(Upper(off + 1, ChunkEnd, a, z), off + 1, ChunkEnd, a, z)
    BY <1>1, <1>3, <2>1, Pieces
  <2> QED  BY <1>4, <2>2 DEF IsUpper
<1>7. n \in Nat /\ Len(u) \in Nat
  BY <1>1, <1>2, <1>3, <1>6
<1>8. ASSUME NEW k \in 1 .. Len(u)
      PROVE  u[k] = 0 \/ (off < u[k] /\ u[k] <= ChunkEnd)
  BY <1>1, <1>2, <1>3, <1>6, <1>7
<1>9. Rising(u)
  <2> SUFFICES ASSUME NEW j \in 1 .. Len(u), NEW k \in 1 .. Len(u), j < k,
                      u[j] # 0, u[k] # 0
               PROVE  u[j] < u[k]
    BY DEF Rising
  <2>1. u[j] = off + 1 + a + (j - 3 * a) - 1 /\ u[k] = off + 1 + a + (k - 3 * a) - 1
    BY <1>6
  <2> QED  BY <1>1, <1>3, <1>7, <2>1
<1>10. WholeChars => /\ Len(u) = ChunkEnd - off
                     /\ \A k \in 1 .. Len(u) : u[k] = off + k
  BY <1>1, <1>2, <1>5, <1>6, <1>7
<1> QED  BY <1>2, <1>6, <1>7, <1>8, <1>9, <1>10 DEF u

-----------------------------------------------------------------------------
(* Order, through the steps that read or write no content.                 *)

\* A step of either program that leaves what is on its way alone, or after
\* which the server reads no more.
LEMMA OrderKept ==
    ASSUME InOrder,
           UNCHANGED <<input, off, content, name, stored, lost>>,
           srv' # "done" => UNCHANGED up,
           upEnd = "rst" => upEnd' = "rst",
           srv' \in {"accept", "name"} => srv \in {"accept", "name"},
           srv' \in {"ok", "create", "recv"} => srv \in {"ok", "create", "recv"},
           srvSaid' = "complete" => srvSaid = "complete"
    PROVE  InOrder'
<1>1. UNCHANGED <<NameLen, Name>>
  BY InputStays
<1>2. Rising(stored)' <=> Rising(stored)
  BY DEF Rising
<1>3. Fits(stored, 0)' <=> Fits(stored, 0)
  BY DEF Fits
<1>4. srv' # "done" /\ Coming => Coming'
  BY DEF Coming, Fits, got
<1> QED  BY <1>1, <1>2, <1>3, <1>4 DEF InOrder, got

\* A reset, which may overtake the end of what is on its way.
LEMMA OrderCut ==
    ASSUME TypeOK, InOrder,
           UNCHANGED <<input, srv, off, content, name, stored, lost, srvSaid>>,
           upEnd' = "rst", NEW n \in 0 .. Len(up), up' = SubSeq(up, 1, n)
    PROVE  InOrder'
<1>1. UNCHANGED <<NameLen, Name>>
  BY InputStays
<1>2. /\ up \in Seq(Bytes) /\ Len(up) \in Nat /\ got \in Nat
      /\ n \in Nat /\ n <= Len(up) /\ Len(up') = n
  BY BeginningAndRest, Lengths
<1>3. Rising(stored)' <=> Rising(stored)
  BY DEF Rising
<1>4. Fits(stored, 0)' <=> Fits(stored, 0)
  BY DEF Fits
<1>5. Coming => Coming'
  <2> SUFFICES ASSUME Coming PROVE Coming'
    OBVIOUS
  <2>1. Fits(SubSeq(up, 1, n), got)
    BY <1>2, FitsCut DEF Coming
  <2>2. Fits(up, got)'
    BY <2>1 DEF Fits, got
  <2> QED  BY <2>2 DEF Coming, got
<1>6. up = <<>> \/ up = Name => NameLen # 1 \/ up' = <<>> \/ up' = Name
  <2>1. CASE n = 0
    BY <1>2, <2>1, EmptySeq
  <2>2. CASE n = Len(up)
    BY <1>2, <2>2, SubSeqFull
  <2>3. CASE n # 0 /\ n # Len(up)
    BY <1>2, <2>3, InputType, EmptySeq
  <2> QED  BY <2>1, <2>2, <2>3
<1> QED  BY <1>1, <1>3, <1>4, <1>5, <1>6 DEF InOrder, got

\* A step that the client writes no content in.
LEMMA WrittenKept ==
    ASSUME Written, UNCHANGED <<input, off, content>>
    PROVE  Written'
BY InputStays DEF Written, Rising

-----------------------------------------------------------------------------
(* The steps of the server.                                                *)

LEMMA ReturnsErrorInv ==
    ASSUME IInv, srv # "done", cli \notin {"stat", "never", "dial"},
           ServerReturns("error"),
           UNCHANGED <<input, upEnd, down, name, stored, lost, created, clientVars>>
    PROVE  IInv'
<1>1. UNCHANGED Bytes
  BY InputStays
<1>2. TypeOK'
  BY <1>1, EmptySeq DEF IInv, TypeOK, ServerReturns, clientVars, Bytes
<1>3. InStep' /\ Ends' /\ Written'
  BY WrittenKept DEF IInv, InStep, Ends, ServerReturns, clientVars
<1>4. InOrder'
  BY OrderKept DEF IInv, ServerReturns, clientVars
<1> QED  BY <1>2, <1>3, <1>4 DEF IInv

LEMMA AcceptInv == ASSUME IInv, Accept, UNCHANGED input  PROVE IInv'
<1>1. TypeOK'
  BY DEF IInv, TypeOK, Accept, clientVars, NameLen
<1>2. InStep' /\ Ends' /\ Written'
  BY WrittenKept DEF IInv, InStep, Ends, Accept, Connected, clientVars
<1>3. InOrder'
  BY OrderKept DEF IInv, Accept, clientVars
<1> QED  BY <1>1, <1>2, <1>3 DEF IInv

LEMMA ReadNameInv == ASSUME IInv, ReadName, UNCHANGED input  PROVE IInv'
<1>1. PICK n \in 1 .. Len(up) : /\ name' = SubSeq(up, 1, n)
                                /\ up' = SubSeq(up, n + 1, Len(up))
  BY DEF ReadName
<1>2. UNCHANGED <<NameLen, Name, Bytes>>
  BY InputStays
<1>3. /\ up \in Seq(Bytes) /\ Len(up) \in Nat /\ n \in 0 .. Len(up)
      /\ n \in Nat /\ 1 <= n /\ n <= Len(up) /\ up # <<>>
  BY Lengths, EmptySeq DEF IInv
<1>4. /\ name' \in Seq(Bytes) /\ up' \in Seq(Bytes) /\ Len(up') = Len(up) - n
  BY <1>1, <1>3, BeginningAndRest
<1>5. TypeOK'
  BY <1>2, <1>4 DEF IInv, TypeOK, ReadName, AfterName, clientVars, Bytes
<1>6. InStep' /\ Ends' /\ Written'
  BY <1>3, WrittenKept DEF IInv, InStep, Ends, ReadName, AfterName, clientVars
<1>7. ASSUME NameLen = 1
      PROVE  name' = Name /\ up' = <<>>
  <2>1. up = Name /\ Len(up) = 1
    BY <1>3, <1>7, InputType DEF IInv, InOrder, ReadName
  <2>2. n = 1
    BY <1>3, <2>1
  <2> QED  BY <1>1, <1>3, <1>4, <2>1, <2>2, SubSeqFull, EmptySeq
<1>8. InOrder'
  <2>1. /\ UNCHANGED <<stored, lost, content, upEnd, srvSaid>> /\ srv' = "ok"
        /\ content = <<>> /\ stored = <<>> /\ lost = 0 /\ srvSaid # "complete"
    BY DEF IInv, InStep, Ends, ReadName, AfterName, clientVars
  <2>2. Len(stored') = 0 /\ got' = 0 /\ Len(content') = 0
    BY <2>1, EmptySeq DEF got
  <2>3. Rising(stored)' /\ Fits(stored, 0)' /\ \A j \in 1 .. Len(stored') : stored'[j] <= off'
    BY <2>2 DEF Fits, Rising
  <2>4. ASSUME NameLen = 1  PROVE Coming'
    <3>1. Len(up') = 0
      BY <1>7, <2>4, EmptySeq
    <3>2. Fits(up, got)'
      BY <2>2, <3>1 DEF Fits
    <3> QED  BY <2>2, <3>1, <3>2 DEF Coming
  <2> QED  BY <1>2, <1>7, <2>1, <2>3, <2>4 DEF InOrder
<1> QED  BY <1>5, <1>6, <1>8 DEF IInv

LEMMA ReadNameFailsInv ==
    ASSUME IInv, ReadNameFails, UNCHANGED input
    PROVE  IInv'
BY ReturnsErrorInv DEF IInv, InStep, ReadNameFails

LEMMA WriteOkInv == ASSUME IInv, WriteOk, UNCHANGED input  PROVE IInv'
<1>1. CASE broken
  BY <1>1, ReturnsErrorInv DEF IInv, InStep, WriteOk
<1>2. CASE ~broken
  <2>1. TypeOK'
    BY <1>2 DEF IInv, TypeOK, WriteOk, clientVars, NameLen
  <2>2. InStep' /\ Ends' /\ Written'
    BY <1>2, WrittenKept DEF IInv, InStep, Ends, WriteOk, clientVars
  <2>3. InOrder'
    BY <1>2, OrderKept DEF IInv, WriteOk, clientVars
  <2> QED  BY <2>1, <2>2, <2>3 DEF IInv
<1> QED  BY <1>1, <1>2

LEMMA CreateInv == ASSUME IInv, Create, UNCHANGED input  PROVE IInv'
<1>1. CASE ServerReturns("error") /\ UNCHANGED created
  BY <1>1, ReturnsErrorInv DEF IInv, InStep, Create
<1>2. CASE created' = TRUE /\ srv' = "recv" /\ UNCHANGED <<srvSaid, broken, up>>
  <2>1. TypeOK'
    BY <1>2 DEF IInv, TypeOK, Create, clientVars, NameLen
  <2>2. InStep' /\ Ends' /\ Written'
    BY <1>2, WrittenKept DEF IInv, InStep, Ends, Create, clientVars
  <2>3. InOrder'
    BY <1>2, OrderKept DEF IInv, Create, clientVars
  <2> QED  BY <2>1, <2>2, <2>3 DEF IInv
<1> QED  BY <1>1, <1>2 DEF Create

\* One piece of the content read and stored, all of it or a beginning.
LEMMA RecvOrder ==
    ASSUME TypeOK, Written, InOrder, NameLen = 1, srv = "recv",
           UNCHANGED <<input, off, content, name, upEnd>>,
           NEW n \in 1 .. Len(up), NEW kept \in 0 .. n,
           stored' = Appended(SubSeq(up, 1, n), kept),
           lost' = lost + (n - kept), up' = SubSeq(up, n + 1, Len(up))
    PROVE  /\ Rising(stored)' /\ \A j \in 1 .. Len(stored') : stored'[j] <= off
           /\ lost' = 0 => Fits(stored, 0)'
           /\ Coming'
<1> DEFINE u == SubSeq(up, 1, n)
<1>1. /\ up \in Seq(Bytes) /\ Len(up) \in Nat /\ Len(stored) \in Nat
      /\ off \in Nat /\ lost \in Nat /\ got \in Nat /\ Len(content) \in Nat
      /\ n \in Nat /\ n \in 0 .. Len(up) /\ kept \in Nat /\ kept <= n
      /\ \A k \in 1 .. Len(stored) : stored[k] \in Int
      /\ \A k \in 1 .. Len(content) : content[k] \in 0 .. Size
  BY Lengths
<1>2. /\ u \in Seq(Bytes) /\ Len(u) = n
      /\ \A k \in 1 .. n : u[k] = up[k]
      /\ Len(up') = Len(up) - n
  BY <1>1, BeginningAndRest
<1> HIDE DEF u
<1>3. /\ Len(stored') = Len(stored) + kept
      /\ \A k \in 1 .. Len(stored) + kept :
            stored'[k] = IF k <= Len(stored) THEN stored[k] ELSE u[k - Len(stored)]
  BY <1>1, <1>2, AppendedBytes DEF u
<1>4. /\ Coming /\ Rising(stored)
      /\ lost = 0 => Fits(stored, 0)
      /\ \A j \in 1 .. Len(stored) : stored[j] <= off
  BY DEF InOrder
<1>5. Fits(up, got) /\ got + Len(up) <= Len(content)
  <2>1. Fits(up, got)
    BY <1>4 DEF Coming
  <2> QED  BY <2>1 DEF Fits
<1>6. got' = got + n
  <2>1. got' = Len(stored') + lost' /\ got = Len(stored) + lost
    BY DEF got
  <2> QED  BY <1>1, <1>3, <2>1
\* What is new in the file, and where it is in the content.
<1>7. ASSUME NEW k \in 1 .. Len(stored'), k > Len(stored)
      PROVE  /\ got + (k - Len(stored)) \in 1 .. Len(content)
             /\ k - Len(stored) \in 1 .. n
             /\ stored'[k] = content[got + (k - Len(stored))]
  <2>1. k - Len(stored) \in 1 .. n /\ k - Len(stored) \in 1 .. Len(up)
    BY <1>1, <1>3, <1>7
  <2>2. stored'[k] = up[k - Len(stored)]
    BY <1>2, <1>3, <1>7, <2>1
  <2>3. got + (k - Len(stored)) \in 1 .. Len(content)
    BY <1>1, <1>5, <2>1
  <2> QED  BY <1>5, <2>1, <2>2, <2>3 DEF Fits
<1>8. \A k \in 1 .. Len(stored') :
         k <= Len(stored) => k \in 1 .. Len(stored) /\ stored'[k] = stored[k]
  BY <1>1, <1>3
<1>8a. \A j \in 1 .. Len(stored), k \in 1 .. Len(content) :
          got < k /\ stored[j] # 0 /\ content[k] # 0 => stored[j] < content[k]
  BY <1>4 DEF Coming
<1>9. Rising(stored)'
  <2> SUFFICES ASSUME NEW j \in 1 .. Len(stored'), NEW k \in 1 .. Len(stored'),
                      j < k, stored'[j] # 0, stored'[k] # 0
               PROVE  stored'[j] < stored'[k]
    BY DEF Rising
  <2>1. CASE k <= Len(stored)
    <3>1. j <= Len(stored)
      BY <1>1, <1>3, <2>1
    <3>2. j \in 1 .. Len(stored) /\ k \in 1 .. Len(stored)
          /\ stored'[j] = stored[j] /\ stored'[k] = stored[k]
      BY <1>8, <2>1, <3>1
    <3> QED  BY <1>4, <3>2 DEF Rising
  <2>2. CASE j <= Len(stored) /\ k > Len(stored)
    <3>1. got < got + (k - Len(stored))
      BY <1>1, <1>3, <2>2
    <3>2. j \in 1 .. Len(stored) /\ stored'[j] = stored[j]
      BY <1>8, <2>2
    <3>3. /\ got + (k - Len(stored)) \in 1 .. Len(content)
          /\ stored'[k] = content[got + (k - Len(stored))]
      BY <1>7, <2>2
    <3> QED  BY <1>8a, <3>1, <3>2, <3>3
  <2>3. CASE j > Len(stored)
    <3>1. k > Len(stored) /\ got + (j - Len(stored)) < got + (k - Len(stored))
      BY <1>1, <1>3, <2>3
    <3> QED  BY <1>7, <2>3, <3>1 DEF Written, Rising
  <2> QED  BY <1>1, <1>3, <2>1, <2>2, <2>3
<1>10. ASSUME NEW j \in 1 .. Len(stored')  PROVE stored'[j] <= off
  <2>1. CASE j <= Len(stored)
    BY <1>4, <1>8, <2>1
  <2>2. CASE j > Len(stored)
    BY <1>7, <2>2 DEF Written
  <2> QED  BY <1>1, <1>3, <2>1, <2>2
<1>11. ASSUME lost' = 0  PROVE Fits(stored, 0)'
  <2>1. lost = 0 /\ got = Len(stored)
    BY <1>1, <1>11 DEF got
  <2>2. ASSUME NEW k \in 1 .. Len(stored')  PROVE stored'[k] = content'[0 + k]
    <3>1. CASE k <= Len(stored)
      <4>1. k \in 1 .. Len(stored) /\ stored'[k] = stored[k]
        BY <1>8, <3>1
      <4>2. Fits(stored, 0)
        BY <1>4, <2>1
      <4> QED  BY <4>1, <4>2 DEF Fits
    <3>2. CASE k > Len(stored)
      <4>1. got + (k - Len(stored)) = 0 + k
        BY <1>1, <1>3, <2>1
      <4> QED  BY <1>7, <3>2, <4>1
    <3> QED  BY <1>1, <1>3, <3>1, <3>2
  <2>3. 0 + Len(stored') <= Len(content')
    BY <1>1, <1>3, <1>5, <2>1
  <2> QED  BY <2>2, <2>3 DEF Fits
<1>12. Coming'
  <2>1. Fits(SubSeq(up, n + 1, Len(up)), got + n)
    BY <1>1, <1>5, FitsCut
  <2>2. Fits(up, got)'
    BY <1>6, <2>1 DEF Fits
  <2>3. upEnd' # "rst" => got' + Len(up') = Len(content')
    <3>1. upEnd # "rst" => got + Len(up) = Len(content)
      BY <1>4 DEF Coming
    <3> HIDE DEF got
    <3>2. upEnd' = upEnd /\ content' = content
      OBVIOUS
    <3>3. /\ Len(up) \in Nat /\ got \in Nat /\ Len(content) \in Nat /\ n \in Nat
          /\ Len(up') = Len(up) - n
      BY <1>1, <1>2
    <3>4. got' + Len(up') = got + Len(up)
      <4>1. got' + Len(up') = (got + n) + (Len(up) - n)
        BY <1>6, <3>3, Zenon
      <4>2. \A i, j, k \in Int : (i + k) + (j - k) = i + j
        OBVIOUS
      <4>3. got \in Int /\ Len(up) \in Int /\ n \in Int
        BY <3>3
      <4> QED  BY <4>1, <4>2, <4>3, Zenon
    <3> QED  BY <3>1, <3>2, <3>4
  <2>4. ASSUME NEW j \in 1 .. Len(stored'), NEW k \in 1 .. Len(content'),
               got' < k, stored'[j] # 0, content'[k] # 0
        PROVE  stored'[j] < content'[k]
    <3>1. CASE j <= Len(stored)
      <4>1. got < k
        BY <1>1, <1>6, <2>4
      <4>2. j \in 1 .. Len(stored) /\ stored'[j] = stored[j]
        BY <1>8, <3>1
      <4> QED  BY <1>8a, <2>4, <4>1, <4>2
    <3>2. CASE j > Len(stored)
      <4>1. got + (j - Len(stored)) < k
        BY <1>1, <1>6, <1>7, <2>4, <3>2
      <4> QED  BY <1>7, <2>4, <3>2, <4>1 DEF Written, Rising
    <3> QED  BY <1>1, <1>3, <3>1, <3>2
  <2> QED  BY <2>2, <2>3, <2>4 DEF Coming
<1> QED  BY <1>9, <1>10, <1>11, <1>12

LEMMA RecvInv == ASSUME IInv, Recv, UNCHANGED input  PROVE IInv'
<1>0. PICK n \in 1 .. Len(up) : \E kept \in 0 .. n :
         /\ stored' = Appended(SubSeq(up, 1, n), kept)
         /\ lost' = lost + (n - kept)
         /\ up' = SubSeq(up, n + 1, Len(up))
  BY DEF Recv
<1>1. PICK kept \in 0 .. n :
         /\ stored' = Appended(SubSeq(up, 1, n), kept)
         /\ lost' = lost + (n - kept)
         /\ up' = SubSeq(up, n + 1, Len(up))
  BY <1>0
<1>2. UNCHANGED <<NameLen, Name, Bytes>>
  BY InputStays
<1>3. /\ up \in Seq(Bytes) /\ Len(up) \in Nat /\ n \in Nat /\ n \in 0 .. Len(up)
      /\ kept \in Nat /\ lost' \in Nat /\ up # <<>>
  BY <1>1, Lengths, EmptySeq DEF IInv
<1>4. SubSeq(up, 1, n) \in Seq(Bytes) /\ Len(SubSeq(up, 1, n)) = n /\ up' \in Seq(Bytes)
  BY <1>1, <1>3, BeginningAndRest
<1>5. stored' \in Seq(Bytes)
  BY <1>1, <1>4, AppendedBytes DEF IInv
<1>6. TypeOK'
  BY <1>2, <1>3, <1>4, <1>5 DEF IInv, TypeOK, Recv, clientVars, Bytes
<1>7. InStep' /\ Ends' /\ Written'
  BY <1>3, WrittenKept DEF IInv, InStep, Ends, Recv, clientVars
<1>8. InOrder'
  <2>1. UNCHANGED <<off, content, name, upEnd, srv, srvSaid>> /\ srv = "recv"
    BY DEF Recv, clientVars
  <2>2. srvSaid # "complete"
    BY <2>1 DEF IInv, Ends
  <2>3. NameLen = 1 => name = Name
    BY <2>1 DEF IInv, InOrder
  <2>4. NameLen = 1 => /\ Rising(stored)' /\ \A j \in 1 .. Len(stored') : stored'[j] <= off
                       /\ lost' = 0 => Fits(stored, 0)'
                       /\ Coming'
    BY <1>1, <2>1, RecvOrder DEF IInv
  <2> QED  BY <1>2, <2>1, <2>2, <2>3, <2>4 DEF InOrder
<1> QED  BY <1>6, <1>7, <1>8 DEF IInv

LEMMA RecvEndsInv == ASSUME IInv, RecvEnds, UNCHANGED input  PROVE IInv'
<1>1. CASE upEnd # "fin"
  BY <1>1, ReturnsErrorInv DEF IInv, InStep, RecvEnds
<1>2. CASE upEnd = "fin"
  <2>1. UNCHANGED <<NameLen, Name, Bytes>>
    BY InputStays
  <2>2. TypeOK'
    BY <1>2, <2>1, EmptySeq DEF IInv, TypeOK, RecvEnds, ServerReturns, clientVars, Bytes
  <2>3. InStep' /\ Ends' /\ Written'
    BY <1>2, WrittenKept
       DEF IInv, InStep, Ends, RecvEnds, ServerReturns, clientVars
  <2>4. InOrder'
    <3>1. /\ UNCHANGED <<off, content, name, stored, lost>> /\ srv = "recv"
          /\ srv' = "done" /\ up = <<>>
      BY DEF RecvEnds, ServerReturns, clientVars
    <3>2. Rising(stored)' = Rising(stored) /\ Fits(stored, 0)' = Fits(stored, 0)
          /\ got' = got
      BY <3>1 DEF Rising, Fits, got
    <3>3. ASSUME NameLen = 1
          PROVE  name = Name /\ got = Len(content)
      <4>1. name = Name /\ Coming
        BY <3>1, <3>3 DEF IInv, InOrder
      <4>2. got + Len(up) = Len(content) /\ Len(up) = 0 /\ got \in Nat
        BY <1>2, <3>1, <4>1, EmptySeq, Lengths DEF IInv, Coming
      <4> QED  BY <4>1, <4>2
    <3> QED  BY <2>1, <3>1, <3>2, <3>3 DEF IInv, InOrder
  <2> QED  BY <2>2, <2>3, <2>4 DEF IInv
<1> QED  BY <1>1, <1>2

-----------------------------------------------------------------------------
(* The steps of the client, and of the network.                            *)

LEMMA ClientReturnsInv ==
    ASSUME IInv, NEW word \in {"none", "sent", "error"},
           cli \notin {"stat", "never", "dial", "done"},
           word = "sent" => off = Size,
           ClientReturns(word),
           UNCHANGED <<input, serverVars, down, broken, off, content>>
    PROVE  IInv'
<1>1. UNCHANGED Bytes
  BY InputStays
<1>2. CASE upEnd = "open" /\ down
  <2>1. PICK n \in 0 .. Len(up) : up' = SubSeq(up, 1, n)
    BY <1>2 DEF ClientReturns
  <2>2. up \in Seq(Bytes) /\ up' \in Seq(Bytes) /\ Len(up') = n
    <3>1. up \in Seq(Bytes)
      BY DEF IInv, TypeOK, Bytes
    <3> QED  BY <2>1, <3>1, BeginningAndRest
  <2>3. up = <<>> => up' = <<>>
    BY <2>1, <2>2, EmptySeq
  <2>4. TypeOK'
    BY <1>1, <1>2, <2>2 DEF IInv, TypeOK, ClientReturns, serverVars, Bytes
  <2>5. InStep' /\ Ends' /\ Written'
    BY WrittenKept, <1>2, <2>3 DEF IInv, InStep, Ends, ClientReturns, serverVars
  <2>6. InOrder'
    BY <1>2, <2>1, OrderCut DEF IInv, ClientReturns, serverVars
  <2> QED  BY <2>4, <2>5, <2>6 DEF IInv
<1>3. CASE ~(upEnd = "open" /\ down)
  <2>1. TypeOK'
    BY <1>3, <1>1 DEF IInv, TypeOK, ClientReturns, serverVars, Bytes
  <2>2. InStep' /\ Ends' /\ Written'
    BY WrittenKept, <1>3 DEF IInv, TypeOK, InStep, Ends, ClientReturns, serverVars
  <2>3. InOrder'
    BY <1>3, OrderKept DEF IInv, ClientReturns, serverVars
  <2> QED  BY <2>1, <2>2, <2>3 DEF IInv
<1> QED  BY <1>2, <1>3

LEMMA StatInv == ASSUME IInv, Stat, UNCHANGED input  PROVE IInv'
<1>1. TypeOK'
  BY DEF IInv, TypeOK, Stat, serverVars, NameLen
<1>2. InStep' /\ Ends' /\ Written'
  BY WrittenKept DEF IInv, InStep, Ends, Stat, serverVars
<1>3. InOrder'
  BY OrderKept DEF IInv, Stat, serverVars
<1> QED  BY <1>1, <1>2, <1>3 DEF IInv

LEMMA DialInv == ASSUME IInv, Dial, UNCHANGED input  PROVE IInv'
<1>1. TypeOK'
  BY DEF IInv, TypeOK, Dial, serverVars, NameLen
<1>2. InStep' /\ Ends' /\ Written'
  BY WrittenKept DEF IInv, InStep, Ends, Dial, serverVars
<1>3. InOrder'
  BY OrderKept DEF IInv, Dial, serverVars
<1> QED  BY <1>1, <1>2, <1>3 DEF IInv

LEMMA SendNameInv == ASSUME IInv, SendName, UNCHANGED input  PROVE IInv'
<1>1. UNCHANGED <<NameLen, Name, Bytes>>
  BY InputStays
<1>2. up' = up \/ up' = Name
  BY InputType, ConcatEmptySeq DEF IInv, InStep, SendName, Sent
<1>3. Name \in Seq(Bytes) /\ Name # <<>>
  BY InputType, EmptySeq DEF IInv
<1>4. TypeOK'
  BY <1>1, <1>2, <1>3 DEF IInv, TypeOK, SendName, AfterSend, serverVars, Bytes
<1>5. InStep' /\ Ends' /\ Written'
  BY WrittenKept, <1>2, <1>3 DEF IInv, InStep, Ends, SendName, AfterSend, Sent, serverVars
<1>6. InOrder'
  <2>1. /\ UNCHANGED <<off, content, name, stored, lost, srv, srvSaid>>
        /\ srv \notin {"ok", "create", "recv"} /\ srvSaid # "complete"
        /\ up = <<>>
    BY DEF IInv, InStep, Ends, SendName, serverVars
  <2>2. Rising(stored)' = Rising(stored) /\ Fits(stored, 0)' = Fits(stored, 0)
    BY <2>1 DEF Rising, Fits
  <2> QED  BY <1>1, <1>2, <2>1, <2>2 DEF IInv, InOrder
<1> QED  BY <1>4, <1>5, <1>6 DEF IInv

LEMMA ReadOkInv == ASSUME IInv, ReadOk, UNCHANGED input  PROVE IInv'
<1>1. TypeOK'
  BY DEF IInv, TypeOK, ReadOk, serverVars, NameLen
<1>2. InStep' /\ Ends' /\ Written'
  BY WrittenKept DEF IInv, InStep, Ends, ReadOk, serverVars
<1>3. InOrder'
  BY OrderKept DEF IInv, ReadOk, serverVars
<1> QED  BY <1>1, <1>2, <1>3 DEF IInv

LEMMA ReadOkFailsInv == ASSUME IInv, ReadOkFails, UNCHANGED input  PROVE IInv'
BY ClientReturnsInv DEF ReadOkFails

LEMMA OpenInv == ASSUME IInv, Open, UNCHANGED input  PROVE IInv'
<1>1. CASE ClientReturns("error")
  BY <1>1, ClientReturnsInv DEF Open
<1>2. CASE cli' = "send" /\ UNCHANGED <<cliSaid, up, upEnd>>
  <2>1. TypeOK'
    BY <1>2 DEF IInv, TypeOK, Open, serverVars, NameLen
  <2>2. InStep' /\ Ends' /\ Written'
    BY WrittenKept, <1>2 DEF IInv, InStep, Ends, Open, serverVars
  <2>3. InOrder'
    BY <1>2, OrderKept DEF IInv, Open, serverVars
  <2> QED  BY <2>1, <2>2, <2>3 DEF IInv
<1> QED  BY <1>1, <1>2 DEF Open

\* What the client adds to the content.
LEMMA SendWritten ==
    ASSUME TypeOK, Written, off < Size, UNCHANGED input, off' = ChunkEnd,
           content' = content \o ToUpper(off + 1, ChunkEnd)
    PROVE  /\ Written' /\ content' \in Seq(0 .. Size) /\ off' \in 0 .. Size
           /\ Len(content') = Len(content) + Len(ToUpper(off + 1, ChunkEnd))
           /\ Len(content) <= Len(content')
           /\ \A k \in 1 .. Len(content) : content'[k] = content[k]
           /\ \A k \in 1 .. Len(content') : k > Len(content) =>
                 content'[k] = 0 \/ off < content'[k]
           /\ off <= off'
<1> DEFINE u == ToUpper(off + 1, ChunkEnd)
<1>1. UNCHANGED <<WholeChars>>
  BY InputStays
<1>2. /\ ChunkEnd \in 0 .. Size /\ ChunkEnd > off
      /\ u \in Seq(0 .. Size) /\ Len(u) \in Nat /\ Rising(u)
      /\ \A k \in 1 .. Len(u) : u[k] = 0 \/ (off < u[k] /\ u[k] <= ChunkEnd)
      /\ WholeChars => /\ Len(u) = ChunkEnd - off
                       /\ \A k \in 1 .. Len(u) : u[k] = off + k
  BY ToUpperBytes
<1> HIDE DEF u
<1>3. /\ content \in Seq(0 .. Size) /\ Len(content) \in Nat /\ off \in Nat
      /\ \A k \in 1 .. Len(content) : content[k] \in 0 .. Size
      /\ Size \in Nat /\ Chunk \in Nat \ {0}
  BY Lengths, InputType
<1>4. /\ content' \in Seq(0 .. Size) /\ Len(content') = Len(content) + Len(u)
      /\ \A k \in 1 .. Len(content) + Len(u) :
            content'[k] = IF k <= Len(content) THEN content[k] ELSE u[k - Len(content)]
  BY <1>2, <1>3, ConcatProperties DEF u
<1>5. \A k \in 1 .. Len(content') :
         \/ k \in 1 .. Len(content) /\ content'[k] = content[k]
         \/ /\ k > Len(content) /\ k - Len(content) \in 1 .. Len(u)
            /\ content'[k] = u[k - Len(content)]
  BY <1>2, <1>3, <1>4
<1>6. \A k \in 1 .. Len(u) : u[k] \in 0 .. Size
  BY <1>2, ElementOfSeq
<1>7. Rising(content)'
  <2> SUFFICES ASSUME NEW j \in 1 .. Len(content'), NEW k \in 1 .. Len(content'),
                      j < k, content'[j] # 0, content'[k] # 0
               PROVE  content'[j] < content'[k]
    BY DEF Rising
  <2>1. CASE k \in 1 .. Len(content)
    <3>1. j \in 1 .. Len(content) /\ content'[j] = content[j] /\ content'[k] = content[k]
      BY <1>3, <1>4, <1>5, <2>1
    <3> QED  BY <2>1, <3>1 DEF Written, Rising
  <2>2. CASE j \in 1 .. Len(content) /\ k > Len(content)
    <3>1. content'[j] = content[j] /\ content[j] <= off /\ content[j] \in Int
      BY <1>3, <1>5, <2>2 DEF Written
    <3>2. k - Len(content) \in 1 .. Len(u) /\ content'[k] = u[k - Len(content)]
      BY <1>3, <1>5, <2>2
    <3>3. off < content'[k] /\ content'[k] \in Int
      BY <1>2, <1>6, <3>2
    <3> QED  BY <1>3, <3>1, <3>3
  <2>3. CASE j > Len(content)
    <3>1. k > Len(content) /\ j - Len(content) < k - Len(content)
      BY <1>3, <1>4, <2>3
    <3>2. /\ j - Len(content) \in 1 .. Len(u) /\ content'[j] = u[j - Len(content)]
          /\ k - Len(content) \in 1 .. Len(u) /\ content'[k] = u[k - Len(content)]
      BY <1>3, <1>5, <2>3, <3>1
    <3> QED  BY <1>2, <3>1, <3>2 DEF Rising
  <2> QED  BY <1>3, <1>4, <1>5, <2>1, <2>2, <2>3
<1>8. ASSUME NEW k \in 1 .. Len(content')  PROVE content'[k] <= off'
  <2>1. CASE k \in 1 .. Len(content)
    BY <1>2, <1>3, <1>5, <2>1 DEF Written
  <2>2. CASE k \notin 1 .. Len(content)
    <3>1. k - Len(content) \in 1 .. Len(u) /\ content'[k] = u[k - Len(content)]
      BY <1>5, <2>2
    <3>2. u[k - Len(content)] = 0 \/ u[k - Len(content)] <= off'
      BY <1>2, <3>1
    <3> QED  BY <1>2, <1>3, <3>1, <3>2
  <2> QED  BY <2>1, <2>2
<1>9. WholeChars' => /\ Len(content') = off'
                     /\ \A k \in 1 .. Len(content') : content'[k] = k
  <2> SUFFICES ASSUME WholeChars
               PROVE  /\ Len(content') = off'
                      /\ \A k \in 1 .. Len(content') : content'[k] = k
    BY <1>1
  <2>1. Len(content) = off /\ \A k \in 1 .. Len(content) : content[k] = k
    BY DEF Written
  <2>2. Len(content') = off'
    BY <1>2, <1>3, <1>4, <2>1
  <2>3. ASSUME NEW k \in 1 .. Len(content')  PROVE content'[k] = k
    <3>1. CASE k \in 1 .. Len(content)
      BY <1>3, <1>5, <2>1, <3>1
    <3>2. CASE k \notin 1 .. Len(content)
      <4>1. k - off \in 1 .. Len(u) /\ content'[k] = u[k - off]
        BY <1>5, <2>1, <3>2
      <4>2. off + (k - off) = k
        BY <1>3, <1>4
      <4> QED  BY <1>2, <4>1, <4>2
    <3> QED  BY <3>1, <3>2
  <2> QED  BY <2>2, <2>3
<1>10. off' = Size \/ \E m \in 0 .. Size : off' = m * Chunk
  <2>1. CASE ChunkEnd = Size
    BY <2>1
  <2>2. CASE ChunkEnd # Size
    <3>1. PICK m \in 0 .. Size : off = m * Chunk
      BY <1>3 DEF Written
    <3>2. off' = (m + 1) * Chunk /\ (m + 1) * Chunk < Size
      BY <1>2, <1>3, <2>2, <3>1 DEF ChunkEnd
    <3>3. m + 1 \in 0 .. Size
      <4>1. \A i, j \in Nat : j > 0 => i <= i * j
        OBVIOUS
      <4>2. m + 1 <= (m + 1) * Chunk
        BY <1>3, <3>1, <4>1
      <4> QED  BY <1>3, <3>2, <4>2
    <3> QED  BY <3>2, <3>3
  <2> QED  BY <2>1, <2>2
<1>11. Written'
  BY <1>7, <1>8, <1>9, <1>10 DEF Written
<1>12. ASSUME NEW k \in 1 .. Len(content'), k > Len(content)
       PROVE  content'[k] = 0 \/ off < content'[k]
  <2>1. k - Len(content) \in 1 .. Len(u) /\ content'[k] = u[k - Len(content)]
    BY <1>3, <1>5, <1>12
  <2> QED  BY <1>2, <2>1
<1>13. Len(content) <= Len(content') /\ \A k \in 1 .. Len(content) : content'[k] = content[k]
  BY <1>2, <1>3, <1>4
<1> QED  BY <1>2, <1>3, <1>4, <1>11, <1>12, <1>13 DEF u

LEMMA SendChunkInv == ASSUME IInv, SendChunk, UNCHANGED input  PROVE IInv'
<1> DEFINE u == ToUpper(off + 1, ChunkEnd)
<1>1. UNCHANGED <<NameLen, Name, Bytes>>
  BY InputStays
<1>2. /\ cli = "send" /\ off < Size /\ off' = ChunkEnd
      /\ content' = content \o u
      /\ up' = IF broken THEN up ELSE up \o u
      /\ UNCHANGED <<srv, name, stored, lost, created, srvSaid, upEnd, down,
                     broken, cli, cliSaid>>
  BY DEF SendChunk, ChunkEnd, Sent, serverVars
<1>3. /\ u \in Seq(0 .. Size) /\ Len(u) \in Nat
  BY <1>2, ToUpperBytes DEF IInv
<1>4. /\ Written' /\ content' \in Seq(0 .. Size) /\ off' \in 0 .. Size
      /\ Len(content') = Len(content) + Len(u)
      /\ Len(content) <= Len(content')
      /\ \A k \in 1 .. Len(content) : content'[k] = content[k]
      /\ \A k \in 1 .. Len(content') : k > Len(content) =>
            content'[k] = 0 \/ off < content'[k]
      /\ off <= off'
  BY <1>2, SendWritten DEF IInv
<1> HIDE DEF u
<1>5. /\ up \in Seq(Bytes) /\ Len(up) \in Nat /\ Len(stored) \in Nat
      /\ Len(content) \in Nat /\ off \in Nat /\ got \in Nat
      /\ \A k \in 1 .. Len(stored) : stored[k] \in Int
      /\ \A k \in 1 .. Len(content') : content'[k] \in 0 .. Size
      /\ Size \in Nat
  BY <1>4, Lengths, InputType, ElementOfSeq DEF IInv
<1>6. u \in Seq(Bytes)
  <2>1. 0 .. Size \subseteq Bytes
    BY InputType DEF IInv, Bytes
  <2> QED  BY <1>3, <2>1, SeqMonotonic
<1>7. /\ up \o u \in Seq(Bytes) /\ Len(up \o u) = Len(up) + Len(u)
      /\ \A k \in 1 .. Len(up) + Len(u) :
            (up \o u)[k] = IF k <= Len(up) THEN up[k] ELSE u[k - Len(up)]
  BY <1>5, <1>6, ConcatProperties
<1>8. TypeOK'
  <2>1. up' \in Seq(Bytes)
    BY <1>2, <1>5, <1>7
  <2> QED  BY <1>1, <1>2, <1>4, <2>1 DEF IInv, TypeOK, Bytes
<1>9. InStep' /\ Ends'
  <2>1. srv = "done" => up' = up
    BY <1>2 DEF IInv, Ends
  <2> QED  BY <1>2, <2>1 DEF IInv, InStep, Ends
<1>10. InOrder'
  <2>1. /\ srv \notin {"accept", "name", "ok"} /\ srvSaid # "complete"
        /\ srv' = srv /\ srvSaid' = srvSaid /\ got' = got
    BY <1>2 DEF IInv, InStep, Ends, got
  <2>2. ASSUME NameLen = 1
        PROVE  /\ Rising(stored)'
               /\ \A j \in 1 .. Len(stored) : stored[j] <= off'
               /\ lost = 0 => Fits(stored, 0)'
    <3>1. /\ Rising(stored) /\ \A j \in 1 .. Len(stored) : stored[j] <= off
          /\ lost = 0 => Fits(stored, 0)
      BY <2>2 DEF IInv, InOrder
    <3>2. Rising(stored)'
      BY <1>2, <3>1 DEF Rising
    <3>3. \A j \in 1 .. Len(stored) : stored[j] <= off'
      BY <1>4, <1>5, <3>1
    <3>4. lost = 0 => Fits(stored, 0)'
      <4>1. SUFFICES ASSUME lost = 0 PROVE Fits(stored, 0)'
        OBVIOUS
      <4>2. /\ 0 + Len(stored) <= Len(content')
            /\ \A k \in 1 .. Len(stored) : stored[k] = content'[0 + k]
        BY <1>3, <1>4, <1>5, <3>1, <4>1, FitsMore
      <4> QED  BY <1>2, <4>2 DEF Fits
    <3> QED  BY <3>2, <3>3, <3>4
  <2>3. ASSUME NameLen = 1, srv \in {"create", "recv"}
        PROVE  name = Name /\ Coming'
    <3>1. name = Name /\ Coming
      BY <2>3 DEF IInv, InOrder
    <3>2. /\ got + Len(up) <= Len(content')
          /\ \A k \in 1 .. Len(up) : up[k] = content'[got + k]
      BY <1>3, <1>4, <1>5, <3>1, FitsMore DEF Coming
    <3>3. ASSUME NEW j \in 1 .. Len(stored'), NEW k \in 1 .. Len(content'),
                 got' < k, stored'[j] # 0, content'[k] # 0
          PROVE  stored'[j] < content'[k]
      <4>1. CASE k <= Len(content)
        BY <1>2, <1>4, <1>5, <2>1, <3>1, <3>3, <4>1 DEF Coming
      <4>2. CASE k > Len(content)
        <5>1. stored[j] <= off /\ stored[j] \in Int
          BY <1>2, <1>5, <2>3 DEF IInv, InOrder
        <5>2. off < content'[k] /\ content'[k] \in Int
          BY <1>4, <1>5, <3>3, <4>2
        <5> QED  BY <1>2, <1>5, <5>1, <5>2
      <4> QED  BY <1>5, <4>1, <4>2
    <3>4. CASE broken
      <4>1. up' = up /\ upEnd' = "rst"
        BY <1>2, <2>3, <3>4 DEF IInv, Ends
      <4>2. Fits(up, got)'
        BY <2>1, <3>2, <4>1 DEF Fits
      <4> QED  BY <3>1, <3>3, <4>1, <4>2 DEF Coming
    <3>5. CASE ~broken
      <4>1. up' = up \o u /\ upEnd = "open"
        BY <1>2, <3>5 DEF IInv, TypeOK, Ends
      <4>2. got + Len(up) = Len(content)
        BY <3>1, <4>1 DEF Coming
      <4>3. got + Len(up') = Len(content')
        <5>1. Len(up') = Len(up) + Len(u) /\ Len(content') = Len(content) + Len(u)
          BY <1>4, <1>7, <4>1 DEF u
        <5>2. Len(u) \in Nat /\ Len(up) \in Nat /\ Len(content) \in Nat /\ got \in Nat
          BY <1>3, <1>5
        <5> HIDE DEF u
        <5> QED  BY <4>2, <5>1, <5>2
      <4>4. ASSUME NEW k \in 1 .. Len(up')  PROVE up'[k] = content'[got + k]
        <5>1. CASE k <= Len(up)
          BY <1>5, <1>7, <3>2, <4>1, <5>1
        <5>2. CASE k > Len(up)
          <6>1. k - Len(up) \in 1 .. Len(u) /\ up'[k] = u[k - Len(up)]
            BY <1>3, <1>5, <1>7, <4>1, <5>2
          <6>2. content'[Len(content) + (k - Len(up))] = u[k - Len(up)]
            <7>1. \A i \in 1 .. Len(content) + Len(u) :
                     content'[i] = IF i <= Len(content) THEN content[i]
                                   ELSE u[i - Len(content)]
              BY <1>2, <1>3, ConcatProperties DEF IInv, TypeOK
            <7>2. /\ Len(content) + (k - Len(up)) \in 1 .. Len(content) + Len(u)
                  /\ Len(content) + (k - Len(up)) > Len(content)
                  /\ Len(content) + (k - Len(up)) - Len(content) = k - Len(up)
              BY <1>3, <1>5, <6>1
            <7> QED  BY <1>5, <7>1, <7>2
          <6>3. Len(content) + (k - Len(up)) = got + k
            <7>1. /\ Len(up) \in Int /\ Len(content) \in Int
                  /\ got \in Int /\ k \in Int
              BY <1>5
            <7> QED  BY <4>2, <7>1
          <6> QED  BY <6>1, <6>2, <6>3
        <5> QED  BY <1>5, <1>7, <4>1, <5>1, <5>2
      <4>5. Fits(up, got)'
        <5>1. got + Len(up') <= Len(content')
          BY <1>5, <1>4, <1>3, <4>3
        <5> QED  BY <2>1, <4>4, <5>1 DEF Fits
      <4>6. upEnd' # "rst" => got' + Len(up') = Len(content')
        BY <2>1, <4>3
      <4> QED  BY <2>1, <3>1, <3>3, <4>5, <4>6 DEF Coming
    <3> QED  BY <3>1, <3>4, <3>5
  <2> QED  BY <1>1, <1>2, <2>1, <2>2, <2>3 DEF InOrder
<1> QED  BY <1>4, <1>8, <1>9, <1>10 DEF IInv

LEMMA SendEndsInv == ASSUME IInv, SendEnds, UNCHANGED input  PROVE IInv'
<1>1. CASE off = Size /\ ClientReturns("sent")
  BY <1>1, ClientReturnsInv DEF SendEnds
<1>2. CASE ClientReturns("error")
  BY <1>2, ClientReturnsInv DEF SendEnds
<1> QED  BY <1>1, <1>2 DEF SendEnds

LEMMA KillInv == ASSUME IInv, Kill, UNCHANGED input  PROVE IInv'
<1>1. cli # "done" /\ Connected /\ ClientReturns("none")
      /\ UNCHANGED <<serverVars, down, broken, off, content>>
  BY DEF Kill
<1> QED  BY <1>1, ClientReturnsInv DEF Connected

LEMMA BreakInv == ASSUME IInv, Break, UNCHANGED input  PROVE IInv'
<1>1. UNCHANGED Bytes
  BY InputStays
<1>2. PICK n \in 0 .. Len(up) : up' = SubSeq(up, 1, n)
  BY DEF Break
<1>3. up \in Seq(Bytes) /\ up' \in Seq(Bytes) /\ Len(up') = n
  <2>1. up \in Seq(Bytes)
    BY DEF IInv, TypeOK, Bytes
  <2> QED  BY <1>2, <2>1, BeginningAndRest
<1>4. up = <<>> => up' = <<>>
  BY <1>2, <1>3, EmptySeq
<1>5. down' = FALSE \/ down' = down
  BY DEF Break
<1>6. TypeOK'
  BY <1>1, <1>3, <1>5 DEF IInv, TypeOK, Break, serverVars, clientVars, Bytes
<1>7. InStep' /\ Ends' /\ Written'
  BY <1>4, <1>5, WrittenKept DEF IInv, InStep, Ends, Break, Connected, serverVars,
                    clientVars
<1>8. InOrder'
  BY <1>2, OrderCut DEF IInv, Break, serverVars, clientVars
<1> QED  BY <1>6, <1>7, <1>8 DEF IInv

-----------------------------------------------------------------------------
LEMMA InitIInv == Init => IInv
<1> SUFFICES ASSUME Init PROVE IInv
  OBVIOUS
<1>1. TypeOK
  <2>1. off \in 0 .. Size
    BY FileAssumption DEF Init
  <2> QED  BY <2>1, EmptySeq DEF Init, TypeOK
<1>2. InStep /\ Ends
  BY DEF Init, InStep, Ends
<1>3. Len(content) = 0 /\ Len(stored) = 0 /\ off = 0
  BY EmptySeq DEF Init
<1>4. Written
  BY <1>3, FileAssumption DEF Written, Rising
<1>5. InOrder
  BY <1>3 DEF Init, InOrder, Rising, Fits
<1> QED  BY <1>1, <1>2, <1>4, <1>5 DEF IInv

LEMMA NextIInv == IInv /\ [Next]_vars => IInv'
<1> SUFFICES ASSUME IInv, [Next]_vars PROVE IInv'
  OBVIOUS
<1>1. CASE UNCHANGED vars
  <2>1. TypeOK' /\ InStep' /\ Ends' /\ Written'
    BY <1>1, WrittenKept DEF IInv, TypeOK, InStep, Ends, NameLen, vars
  <2>2. InOrder'
    BY <1>1, OrderKept DEF IInv, vars
  <2> QED  BY <2>1, <2>2 DEF IInv
<1>2. ASSUME ServerStep  PROVE IInv'
  BY <1>2, AcceptInv, ReadNameInv, ReadNameFailsInv, WriteOkInv, CreateInv,
     RecvInv, RecvEndsInv DEF ServerStep
<1>3. ASSUME ClientStep  PROVE IInv'
  BY <1>3, StatInv, DialInv, SendNameInv, ReadOkInv, ReadOkFailsInv, OpenInv,
     SendChunkInv, SendEndsInv DEF ClientStep
<1>4. ASSUME (Kill \/ Break) /\ UNCHANGED input  PROVE IInv'
  BY <1>4, KillInv, BreakInv
<1> QED  BY <1>1, <1>2, <1>3, <1>4 DEF Next

\* The inductive invariant of the transfer.
THEOREM Invariance == Spec => []IInv
BY InitIInv, NextIInv, PTL DEF Spec

\* Every variable stays in its range, the file position within the file.
THEOREM TransferTypes == Spec => []TypeOK
<1>1. IInv => TypeOK  BY DEF IInv
<1> QED  BY <1>1, Invariance, PTL

\* Whatever fails, breaks or is killed, a name in one piece given, the file
\* that is stored has its parts in the order of the client's file and none of
\* them twice, and until a file.Write fails (fileTranServer.go, 39) it is the
\* beginning of what the client has written, cut characters included.
THEOREM StoredKeepsOrder == Spec => []StoredInOrder
<1>1. IInv => StoredInOrder
  <2> SUFFICES ASSUME IInv, NameLen = 1
               PROVE  /\ \A j, k \in 1 .. Len(stored) :
                            j < k /\ stored[j] # 0 /\ stored[k] # 0
                            => stored[j] < stored[k]
                      /\ lost = 0 => /\ Len(stored) <= Len(content)
                                     /\ stored = SubSeq(content, 1, Len(stored))
    BY DEF StoredInOrder
  <2>1. \A j, k \in 1 .. Len(stored) :
           j < k /\ stored[j] # 0 /\ stored[k] # 0 => stored[j] < stored[k]
    BY DEF IInv, InOrder, Rising
  <2>2. ASSUME lost = 0
        PROVE  /\ Len(stored) <= Len(content)
               /\ stored = SubSeq(content, 1, Len(stored))
    <3>1. /\ stored \in Seq(Bytes) /\ Len(stored) \in Nat
          /\ content \in Seq(0 .. Size) /\ Len(content) \in Nat
          /\ Size \in Nat /\ NameLen \in Nat
      BY Lengths, InputType DEF IInv
    <3>2. /\ Len(stored) <= Len(content)
          /\ \A k \in 1 .. Len(stored) : stored[k] = content[k]
      <4>1. Fits(stored, 0)
        BY <2>2 DEF IInv, InOrder
      <4>2. \A k \in 1 .. Len(stored) : 0 + k = k
        BY <3>1
      <4> QED  BY <3>1, <4>1, <4>2 DEF Fits
    <3>3. stored \in Seq(Int) /\ content \in Seq(Int)
      BY <3>1, SeqMonotonic DEF Bytes
    <3>4. Len(stored) \in 0 .. Len(content)
      BY <3>1, <3>2
    <3>5. /\ SubSeq(content, 1, Len(stored)) \in Seq(Int)
          /\ Len(SubSeq(content, 1, Len(stored))) = Len(stored)
          /\ \A k \in 1 .. Len(stored) : SubSeq(content, 1, Len(stored))[k] = content[k]
      BY <3>3, <3>4, BeginningAndRest
    <3>6. stored = SubSeq(content, 1, Len(stored))
      BY <3>2, <3>3, <3>5, SeqEqual
    <3> QED  BY <3>2, <3>6
  <2> QED  BY <2>1, <2>2
<1> QED  BY <1>1, Invariance, PTL

\* When both programs say that the transfer went well, the name came in one
\* piece and no chunk cut a character, the file lacks exactly what failed
\* writes have left out, and it is the client's when no write has failed.
THEOREM AgreementMeansCopied == Spec => []BothAgreeMeansCopied
<1>1. IInv => BothAgreeMeansCopied
  <2> SUFFICES ASSUME IInv, cliSaid = "sent", srvSaid = "complete",
                      NameLen = 1, WholeChars
               PROVE  /\ name = Name /\ Len(stored) + lost = Size
                      /\ lost = 0 => stored = Image
    BY DEF BothAgreeMeansCopied
  <2>1. /\ name = Name /\ Len(stored) + lost = Len(content)
        /\ Len(content) = off /\ off = Size
        /\ \A k \in 1 .. Len(content) : content[k] = k
    BY DEF IInv, Ends, InOrder, Written, got
  <2>2. ASSUME lost = 0  PROVE stored = Image
    <3>1. Len(stored) = Size /\ Fits(stored, 0) /\ Size \in Nat
      BY <2>1, <2>2, Lengths, InputType DEF IInv, InOrder
    <3>2. stored \in Seq(Int)
      BY InputType, SeqMonotonic DEF IInv, TypeOK
    <3>3. ASSUME NEW k \in 1 .. Size  PROVE stored[k] = k
      BY <2>1, <3>1, 0 + k = k DEF Fits
    <3>4. stored \in [1 .. Size -> Int]
      BY <3>1, <3>2, LenProperties
    <3> QED  BY <3>3, <3>4 DEF Image
  <2> QED  BY <2>1, <2>2
<1> QED  BY <1>1, Invariance, PTL

-----------------------------------------------------------------------------
(* The programs never wait for each other.                                 *)

\* A program that has returned, or whose read has nothing to return.
ServerWaits == \/ srv = "done"
               \/ srv \in {"name", "recv"} /\ up = <<>> /\ upEnd = "open"
ClientWaits == \/ cli = "done"
               \/ cli = "waitOk" /\ ~down /\ ~broken

\* Once the client has connected one of the two has a step to take, until
\* both have returned.
NoDeadlock ==
    Connected /\ ServerWaits /\ ClientWaits => srv = "done" /\ cli = "done"

\* While the client waits for "ok" the name is on its way, or the "ok" is, or
\* the server is between the two; and a client that returns ends its stream.
SomeoneMoves ==
    /\ cli = "waitOk" /\ srv \in {"accept", "name"} => up # <<>> \/ broken
    /\ cli = "waitOk" /\ srv \in {"create", "recv"} => down \/ broken
    /\ cli = "done" => upEnd # "open"

LEMMA ServerMoves ==
    ASSUME IInv, SomeoneMoves, ServerStep
    PROVE  SomeoneMoves'
<1>1. CASE Accept \/ ReadName \/ ReadNameFails
  BY <1>1 DEF Accept, ReadName, AfterName, ReadNameFails, ServerReturns,
              clientVars, SomeoneMoves
<1>2. CASE WriteOk \/ Create
  BY <1>2 DEF WriteOk, Create, ServerReturns, clientVars, SomeoneMoves
<1>3. CASE Recv \/ RecvEnds
  BY <1>3 DEF Recv, RecvEnds, ServerReturns, clientVars, SomeoneMoves
<1> QED
  BY <1>1, <1>2, <1>3 DEF ServerStep

LEMMA ClientMoves ==
    ASSUME IInv, SomeoneMoves, ClientStep \/ Kill
    PROVE  SomeoneMoves'
<1>1. CASE Stat \/ Dial
  BY <1>1 DEF Stat, Dial, serverVars, SomeoneMoves
<1>2. CASE SendName
  <2>1. up' # <<>> \/ broken
    <3>1. /\ Name \in Seq(Bytes) /\ Len(Name) # 0 /\ up \in Seq(Bytes)
          /\ Len(up) \in Nat /\ Len(Name) \in Nat
      BY InputType DEF IInv, TypeOK, Bytes
    <3>2. Len(up \o Name) = Len(up) + Len(Name) /\ Len(<<>>) = 0
      BY <3>1, ConcatProperties
    <3>3. up \o Name # <<>>
      BY <3>1, <3>2
    <3> QED
      BY <1>2, <3>3 DEF SendName, Sent
  <2>2. /\ srv \in {"accept", "name", "done"} /\ cli' = "waitOk"
        /\ UNCHANGED <<srv, broken>>
    BY <1>2 DEF SendName, AfterSend, serverVars, IInv, InStep
  <2> QED
    BY <2>1, <2>2 DEF SomeoneMoves
<1>3. CASE ReadOk \/ SendChunk
  BY <1>3 DEF ReadOk, SendChunk, SomeoneMoves
<1>4. ASSUME NEW word, ClientReturns(word)
      PROVE  SomeoneMoves'
  BY <1>4 DEF ClientReturns, SomeoneMoves
<1>5. CASE Open
  BY <1>4, <1>5 DEF Open, SomeoneMoves
<1> QED
  BY <1>1, <1>2, <1>3, <1>4, <1>5 DEF ClientStep, ReadOkFails, SendEnds, Kill

\* Neither the server, which waits for the name and then for the content, nor
\* the client, which waits for "ok", is left waiting when the other fails at
\* any point: fileTranServer.go, 37 and 77, and fileTranClient.go, 84.
THEOREM TransferNeverStuck == Spec => []NoDeadlock
<1>1. Init => SomeoneMoves
  BY DEF Init, SomeoneMoves
<1>2. IInv /\ SomeoneMoves /\ [Next]_vars => SomeoneMoves'
  <2> SUFFICES ASSUME IInv, SomeoneMoves, [Next]_vars
               PROVE  SomeoneMoves'
    OBVIOUS
  <2>1. CASE UNCHANGED vars
    BY <2>1 DEF vars, SomeoneMoves
  <2>2. CASE Break
    BY <2>2 DEF Break, serverVars, clientVars, SomeoneMoves
  <2> QED
    BY <2>1, <2>2, ServerMoves, ClientMoves DEF Next
<1>3. IInv /\ SomeoneMoves => NoDeadlock
  BY DEF IInv, Ends, SomeoneMoves, NoDeadlock, ServerWaits, ClientWaits
<1> QED
  BY <1>1, <1>2, <1>3, Invariance, PTL DEF Spec
=============================================================================
