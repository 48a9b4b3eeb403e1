------------------------- MODULE MediaMultipartProofs -------------------------
(***************************************************************************)
(* Proofs about the parser of uploads, for any requests, chunks and limits.*)
(*                                                                         *)
(* What is buffered is a window of the request.  Good says how what is     *)
(* parsed and the window's place depend on the bytes alone, and Waits that *)
(* what the parser looks for has not arrived; every turn of the loop keeps *)
(* them, and so does a chunk that makes the window longer.  MediaInv adds  *)
(* what the answers say.  The loop is a recursive function: LeastNat, the  *)
(* least of a set of naturals, is the induction that its turns need.       *)
(***************************************************************************)
EXTENDS MCIntegrations, SequenceTheorems, WellFoundedInduction, TLAPS

-----------------------------------------------------------------------------
(***************************************************************************)
(* Windows of a request: what arrived of it and is not consumed.           *)
(***************************************************************************)

Window(bytes, f, a) == SubSeq(bytes, f + 1, a)

\* The length and the elements of a window.
LEMMA WindowSays ==
  ASSUME NEW S, NEW bytes \in Seq(S), NEW a \in 0..Len(bytes), NEW f \in 0..a
  PROVE  /\ Window(bytes, f, a) \in Seq(S)
         /\ Len(Window(bytes, f, a)) = a - f
         /\ \A i \in 1..(a - f) : Window(bytes, f, a)[i] = bytes[f + i]
BY DEF Window

LEMMA WindowLength ==
  ASSUME NEW S, NEW bytes \in Seq(S), NEW f \in Nat, NEW n \in Nat, NEW a \in Nat,
         a <= Len(bytes), a = f + n
  PROVE  Len(Window(bytes, f, a)) = n
BY DEF Window

\* Two sequences are equal when they have the same length and the same elements.
LEMMA SameSeq ==
  ASSUME NEW S, NEW s \in Seq(S), NEW t \in Seq(S), Len(s) = Len(t),
         \A i \in 1..Len(s) : s[i] = t[i]
  PROVE  s = t
OBVIOUS

\* Taking bytes off a window moves its beginning; what is taken is a window too.
LEMMA Consume ==
  ASSUME NEW S, NEW bytes \in Seq(S), NEW a \in 0..Len(bytes), NEW f \in 0..a, NEW n \in 0..(a - f)
  PROVE  /\ Media!Drop(Window(bytes, f, a), n) = Window(bytes, f + n, a)
         /\ Media!Take(Window(bytes, f, a), n) = Window(bytes, f, f + n)
<1> DEFINE w == Window(bytes, f, a)
<1>1. /\ w \in Seq(S) /\ Len(w) = a - f
      /\ \A i \in 1..(a - f) : w[i] = bytes[f + i]
  BY WindowSays
<1>2. f + n \in 0..a /\ f + n \in 0..Len(bytes) /\ f \in 0..(f + n)
  OBVIOUS
<1>3. /\ Window(bytes, f + n, a) \in Seq(S) /\ Len(Window(bytes, f + n, a)) = a - (f + n)
      /\ \A i \in 1..(a - (f + n)) : Window(bytes, f + n, a)[i] = bytes[f + n + i]
  BY <1>2, WindowSays
<1>4. /\ Window(bytes, f, f + n) \in Seq(S) /\ Len(Window(bytes, f, f + n)) = n
      /\ \A i \in 1..n : Window(bytes, f, f + n)[i] = bytes[f + i]
  <2>1. n = f + n - f
    OBVIOUS
  <2>2. QED BY <1>2, <2>1, WindowSays
<1> HIDE DEF w
<1>5. /\ Media!Drop(w, n) \in Seq(S) /\ Len(Media!Drop(w, n)) = a - (f + n)
      /\ \A i \in 1..(a - (f + n)) : Media!Drop(w, n)[i] = w[n + i]
  <2> DEFINE r == SubSeq(w, n + 1, Len(w))
  <2>1. n + 1 \in Int /\ Len(w) \in Int /\ \A i \in (n + 1)..Len(w) : w[i] \in S
    BY <1>1
  <2>2. /\ r \in Seq(S) /\ Len(r) = IF n + 1 <= Len(w) THEN Len(w) - (n + 1) + 1 ELSE 0
        /\ \A i \in 1..(Len(w) - (n + 1) + 1) : r[i] = w[n + 1 + i - 1]
    BY <2>1, SubSeqProperties
  <2>3. r = Media!Drop(w, n)
    BY DEF Media!Drop
  <2> HIDE DEF r
  <2>4. r \in Seq(S) /\ Len(r) = a - (f + n)
    BY <1>1, <2>2
  <2>5. ASSUME NEW i \in 1..(a - (f + n)) PROVE r[i] = w[n + i]
    <3>1. i \in 1..(Len(w) - (n + 1) + 1) /\ n + 1 + i - 1 = n + i
      BY <1>1
    <3>2. QED BY <2>2, <3>1
  <2>6. QED BY <2>3, <2>4, <2>5
<1>6. /\ Media!Take(w, n) \in Seq(S) /\ Len(Media!Take(w, n)) = n
      /\ \A i \in 1..n : Media!Take(w, n)[i] = w[i]
  BY <1>1 DEF Media!Take
<1>7. Media!Drop(w, n) = Window(bytes, f + n, a)
  <2>1. ASSUME NEW i \in 1..(a - (f + n)) PROVE Media!Drop(w, n)[i] = Window(bytes, f + n, a)[i]
    <3>1. n + i \in 1..(a - f) /\ f + (n + i) = f + n + i
      OBVIOUS
    <3>2. QED BY <1>1, <1>3, <1>5, <3>1
  <2>2. QED BY <1>3, <1>5, <2>1, SameSeq
<1>8. Media!Take(w, n) = Window(bytes, f, f + n)
  <2>1. ASSUME NEW i \in 1..n PROVE Media!Take(w, n)[i] = Window(bytes, f, f + n)[i]
    <3>1. i \in 1..(a - f)
      OBVIOUS
    <3>2. QED BY <1>1, <1>4, <1>6, <3>1
  <2>2. QED BY <1>4, <1>6, <2>1, SameSeq
<1>9. QED BY <1>7, <1>8 DEF w

LEMMA Concat ==
  ASSUME NEW S, NEW s \in Seq(S), NEW t \in Seq(S)
  PROVE  s \o t \in Seq(S) /\ Len(s \o t) = Len(s) + Len(t)
OBVIOUS

\* Windows that meet make one.
LEMMA Join ==
  ASSUME NEW S, NEW bytes \in Seq(S), NEW a \in 0..Len(bytes), NEW f \in 0..a, NEW m \in f..a
  PROVE  Window(bytes, f, m) \o Window(bytes, m, a) = Window(bytes, f, a)
<1>1. m \in 0..a /\ m \in 0..Len(bytes) /\ f \in 0..m
  OBVIOUS
<1>2. /\ Window(bytes, f, m) \in Seq(S) /\ Len(Window(bytes, f, m)) = m - f
      /\ \A i \in 1..(m - f) : Window(bytes, f, m)[i] = bytes[f + i]
  BY <1>1, WindowSays
<1>3. /\ Window(bytes, m, a) \in Seq(S) /\ Len(Window(bytes, m, a)) = a - m
      /\ \A i \in 1..(a - m) : Window(bytes, m, a)[i] = bytes[m + i]
  BY <1>1, WindowSays
<1>4. /\ Window(bytes, f, a) \in Seq(S) /\ Len(Window(bytes, f, a)) = a - f
      /\ \A i \in 1..(a - f) : Window(bytes, f, a)[i] = bytes[f + i]
  BY WindowSays
<1> DEFINE u == Window(bytes, f, m)  v == Window(bytes, m, a)  w == Window(bytes, f, a)
<1> HIDE DEF u, v, w
<1>5. /\ u \o v \in Seq(S) /\ Len(u \o v) = a - f
      /\ \A i \in 1..(a - f) : (u \o v)[i] = IF i <= m - f THEN u[i] ELSE v[i - (m - f)]
  <2>1. u \in Seq(S) /\ Len(u) = m - f /\ v \in Seq(S) /\ Len(v) = a - m
    BY <1>2, <1>3 DEF u, v
  <2>2. u \o v \in Seq(S) /\ Len(u \o v) = (m - f) + (a - m)
    BY <2>1
  <2>3. ASSUME NEW i \in 1..(a - f)
        PROVE  (u \o v)[i] = IF i <= m - f THEN u[i] ELSE v[i - (m - f)]
    BY <2>1
  <2>4. QED BY <2>2, <2>3
<1>6. ASSUME NEW i \in 1..(a - f) PROVE (u \o v)[i] = w[i]
  <2>1. CASE i <= m - f
    <3>1. i \in 1..(m - f)
      BY <2>1
    <3>2. QED BY <1>2, <1>4, <1>5, <2>1, <3>1 DEF u, w
  <2>2. CASE ~(i <= m - f)
    <3>1. i - (m - f) \in 1..(a - m) /\ m + (i - (m - f)) = f + i
      BY <2>2
    <3>2. QED BY <1>3, <1>4, <1>5, <2>2, <3>1 DEF v, w
  <2>3. QED BY <2>1, <2>2
<1>7. u \o v = w
  BY <1>4, <1>5, <1>6, SameSeq DEF w
<1>8. QED BY <1>7 DEF u, v, w

\* What occurs in a window occurs in the request.
LEMMA OccursInWindow ==
  ASSUME NEW S, NEW bytes \in Seq(S), NEW a \in 0..Len(bytes), NEW f \in 0..a,
         NEW needle \in Seq(S), NEW i \in Nat
  PROVE  Media!Occurs(Window(bytes, f, a), needle, i)
           <=> f + i + Len(needle) <= a /\ Media!Occurs(bytes, needle, f + i)
<1> DEFINE w == Window(bytes, f, a)
<1>1. /\ w \in Seq(S) /\ Len(w) = a - f
      /\ \A j \in 1..(a - f) : w[j] = bytes[f + j]
  BY WindowSays
<1> HIDE DEF w
<1>2. ASSUME i + Len(needle) <= a - f
      PROVE  \A k \in 1..Len(needle) : w[i + k] = bytes[f + i + k]
  BY <1>1, <1>2
<1>3. Media!Occurs(w, needle, i) <=> f + i + Len(needle) <= a /\ Media!Occurs(bytes, needle, f + i)
  BY <1>1, <1>2 DEF Media!Occurs
<1>4. QED BY <1>3 DEF w

\* A set of naturals has a least element: induction, for sets.
LEMMA LeastNat ==
  ASSUME NEW T \in SUBSET Nat, T # {}
  PROVE  \E m \in T : \A k \in T : m <= k
<1>1. \E m \in T : \A k \in T : <<k, m>> \notin OpToRel(<, Nat)
  BY NatLessThanWellFounded, WFMin, Zenon
<1>2. \A k, m \in Nat : <<k, m>> \notin OpToRel(<, Nat) => m <= k
  BY DEF OpToRel
<1>3. QED BY <1>1, <1>2

\* indexOf finds the first occurrence, or there is none.
LEMMA IndexOf ==
  ASSUME NEW S, NEW s \in Seq(S), NEW needle \in Seq(S)
  PROVE  \/ /\ Media!indexOf(s, needle) = -1
            /\ \A i \in 0..Len(s) : ~Media!Occurs(s, needle, i)
         \/ /\ Media!indexOf(s, needle) \in 0..Len(s)
            /\ Media!Occurs(s, needle, Media!indexOf(s, needle))
            /\ \A i \in 0..(Media!indexOf(s, needle) - 1) : ~Media!Occurs(s, needle, i)
<1> DEFINE At == {i \in 0..Len(s) : Media!Occurs(s, needle, i)}
<1>1. CASE At = {}
  BY <1>1 DEF Media!indexOf
<1>2. CASE At # {}
  <2>1. At \in SUBSET Nat
    OBVIOUS
  <2>2. PICK m \in At : \A k \in At : m <= k
    BY <1>2, <2>1, LeastNat
  <2>3. Media!indexOf(s, needle) = CHOOSE i \in At : \A j \in At : i <= j
    BY <1>2 DEF Media!indexOf
  <2>4. Media!indexOf(s, needle) \in At /\ \A j \in At : Media!indexOf(s, needle) <= j
    BY <2>2, <2>3
  <2> DEFINE i0 == Media!indexOf(s, needle)
  <2> HIDE DEF i0
  <2>5. i0 \in At /\ \A j \in At : i0 <= j
    BY <2>4 DEF i0
  <2>6. ASSUME NEW i \in 0..(i0 - 1) PROVE ~Media!Occurs(s, needle, i)
    BY <2>5, <2>6
  <2>7. QED BY <2>5, <2>6 DEF i0
<1>3. QED BY <1>1, <1>2

-----------------------------------------------------------------------------
(***************************************************************************)
(* The loop: the recursive function is what its definition says.           *)
(***************************************************************************)

\* The first n turns from w.
Turned(w, f, n) == f[0] = w /\ \A i \in 1..n : f[i] = Media!Turn(f[i - 1])

\* There are n turns from every w, and they are the same for every n.
LEMMA TurnedExists ==
  ASSUME NEW w, NEW n \in Nat
  PROVE  \E f : Turned(w, f, n)
<1> DEFINE T == {i \in Nat : ~\E f : Turned(w, f, i)}
<1>1. SUFFICES ASSUME T # {} PROVE FALSE
  OBVIOUS
<1>2. PICK m \in T : \A k \in T : m <= k
  <2>1. T \in SUBSET Nat
    OBVIOUS
  <2>2. QED BY <1>1, <2>1, LeastNat
<1>3. CASE m = 0
  <2> DEFINE f == [i \in Nat |-> w]
  <2>1. Turned(w, f, 0)
    BY DEF Turned
  <2>2. QED BY <1>2, <1>3, <2>1
<1>4. CASE m # 0
  <2>1. m \in Nat /\ m - 1 \in Nat /\ m - 1 \notin T
    BY <1>2, <1>4
  <2>2. PICK g : Turned(w, g, m - 1)
    BY <2>1
  <2> DEFINE f == [i \in Nat |-> IF i = m THEN Media!Turn(g[m - 1]) ELSE g[i]]
  <2>3. ASSUME NEW i \in 1..m PROVE f[i] = Media!Turn(f[i - 1])
    <3>1. f[i - 1] = g[i - 1]
      BY <2>1, <2>3
    <3>2. CASE i = m
      BY <2>1, <3>1, <3>2
    <3>3. CASE i # m
      <4>1. i \in 1..(m - 1) /\ f[i] = g[i]
        BY <2>1, <2>3, <3>3
      <4>2. QED BY <2>2, <3>1, <4>1 DEF Turned
    <3>4. QED BY <3>2, <3>3
  <2>4. f[0] = w
    BY <2>2, <1>4 DEF Turned
  <2> HIDE DEF f
  <2>5. Turned(w, f, m)
    BY <2>3, <2>4 DEF Turned
  <2>6. QED BY <1>2, <2>5
<1>5. QED BY <1>3, <1>4

LEMMA TurnedAgree ==
  ASSUME NEW w, NEW n \in Nat, NEW f, NEW g, NEW m \in n..(n + 1), Turned(w, f, n), Turned(w, g, m)
  PROVE  f[n] = g[n]
<1> DEFINE T == {i \in 0..n : f[i] # g[i]}
<1>1. SUFFICES ASSUME T # {} PROVE FALSE
  OBVIOUS
<1>2. PICK i \in T : \A k \in T : i <= k
  <2>1. T \in SUBSET Nat
    OBVIOUS
  <2>2. QED BY <1>1, <2>1, LeastNat
<1>3. i # 0
  BY <1>2 DEF Turned
<1>4. i \in 1..n /\ i \in 1..m /\ i - 1 \in 0..n /\ i - 1 \notin T
  BY <1>2, <1>3
<1>5. f[i - 1] = g[i - 1]
  BY <1>4
<1>6. f[i] = g[i]
  BY <1>4, <1>5 DEF Turned
<1>7. QED BY <1>2, <1>6

\* The recursive function has the values that its equation says.
LEMMA TurnsSay ==
  ASSUME NEW w
  PROVE  /\ Media!turns(w)[0] = w
         /\ \A n \in Nat : Media!turns(w)[n + 1] = Media!Turn(Media!turns(w)[n])
<1> DEFINE Pick(n) == CHOOSE f : Turned(w, f, n)
           g == [n \in Nat |-> Pick(n)[n]]
           Loop(h) == [n \in Nat |-> IF n = 0 THEN w ELSE Media!Turn(h[n - 1])]
<1>1. \A n \in Nat : Turned(w, Pick(n), n)
  BY TurnedExists, Zenon
<1> HIDE DEF Pick
<1>2. g[0] = w
  BY <1>1 DEF Turned
<1>3. ASSUME NEW n \in Nat \ {0} PROVE g[n] = Media!Turn(g[n - 1])
  <2>1. n - 1 \in Nat /\ n \in (n - 1)..(n - 1 + 1) /\ n \in 1..n
    OBVIOUS
  <2>2. Pick(n - 1)[n - 1] = Pick(n)[n - 1]
    BY <1>1, <2>1, TurnedAgree
  <2>3. Pick(n)[n] = Media!Turn(Pick(n)[n - 1])
    BY <1>1, <2>1 DEF Turned
  <2>4. QED BY <2>1, <2>2, <2>3
<1>4. g = Loop(g)
  <2>1. ASSUME NEW n \in Nat PROVE g[n] = Loop(g)[n]
    BY <1>2, <1>3
  <2>2. g = [n \in Nat |-> g[n]] /\ Loop(g) = [n \in Nat |-> Loop(g)[n]]
    OBVIOUS
  <2> HIDE DEF g, Loop
  <2>3. [n \in Nat |-> g[n]] = [n \in Nat |-> Loop(g)[n]]
    BY <2>1
  <2>4. QED BY <2>2, <2>3
<1>5. Media!turns(w) = CHOOSE h : h = Loop(h)
  BY DEF Media!turns
<1> HIDE DEF g, Loop
<1>6. Media!turns(w) = Loop(Media!turns(w))
  BY <1>4, <1>5, Zenon
<1> DEFINE t == Media!turns(w)
<1> HIDE DEF t
<1>7. t = Loop(t)
  BY <1>6 DEF t
<1>8. t = [n \in Nat |-> IF n = 0 THEN w ELSE Media!Turn(t[n - 1])]
  BY <1>7 DEF Loop
<1>9. t[0] = w /\ \A n \in Nat : t[n + 1] = Media!Turn(t[n])
  <2>1. t[0] = w
    BY <1>8
  <2>2. ASSUME NEW n \in Nat PROVE t[n + 1] = Media!Turn(t[n])
    <3>1. n + 1 \in Nat /\ n + 1 # 0 /\ n + 1 - 1 = n
      OBVIOUS
    <3>2. QED BY <1>8, <3>1
  <2>3. QED BY <2>1, <2>2
<1>10. QED BY <1>9 DEF t

-----------------------------------------------------------------------------
(***************************************************************************)
(* What the parser knows of a request of which a bytes have arrived.       *)
(***************************************************************************)

PartType == [header : Media!Bytes \cup {"none"}, data : Seq(Media!Bytes), file : BOOLEAN]
WorkType ==
  [buffer : Seq(Media!Bytes), state : {"opening", "suffix", "headers", "body", "done", "error"},
   current : PartType, parts : Seq(PartType), spills : SUBSET Nat, more : BOOLEAN]

\* Where what is not consumed begins, and where the last boundary ended.
Consumed(w, a) == a - Len(w.buffer)
Boundary(s, w) == s.at[Len(w.parts) + 1]

\* A part is in a file exactly when it is a large file.
Sized(p) == p.file <=> p.header = "file" /\ Len(p.data) > FileMemoryBytes

\* The parts parsed are the first of the request, and the files on disk are theirs.
Found(s, w) ==
  /\ Len(w.parts) <= Len(s.parts)
  /\ \A i \in 1..Len(w.parts) : /\ w.parts[i].header = s.parts[i].header
                                /\ w.parts[i].data = s.parts[i].data
                                /\ Sized(w.parts[i])
  /\ w.spills = {i \in 1..Len(w.parts) : w.parts[i].file}
                \cup (IF w.current.file THEN {Len(w.parts) + 1} ELSE {})

\* In a body: its headers ended at h, and no boundary began in what is consumed of it.
InBody(s, w, a, h) ==
  /\ Media!Occurs(s.bytes, Media!LineEnd, Boundary(s, w))
  /\ Media!First(s.bytes, Media!HeadersEnd, Boundary(s, w) + 2, h)
  /\ Media!ValidHeaders(SubSeq(s.bytes, Boundary(s, w) + 3, h))
  /\ w.current.header = s.bytes[Boundary(s, w) + 3]
  /\ h + 4 <= Consumed(w, a) /\ w.current.data = Window(s.bytes, h + 4, Consumed(w, a))
  /\ \A j \in (h + 4)..(Consumed(w, a) - 1) : ~Media!Occurs(s.bytes, Media!Marker, j)
  /\ Len(w.current.data) <= MaxPartBytes /\ Sized(w.current)

Parsing(s, w, a) ==
  /\ Len(w.buffer) <= a /\ w.buffer = Window(s.bytes, Consumed(w, a), a)
  /\ Found(s, w)
  /\ w.state # "body" => w.current = Media!NoPart
  /\ w.state = "opening" =>
       w.parts = <<>> /\ \A j \in 0..(Consumed(w, a) - 1) : ~Media!Occurs(s.bytes, Media!Opening, j)
  /\ w.state # "opening" => s.at # <<>>
  /\ w.state = "suffix" => Consumed(w, a) = Boundary(s, w)
  /\ w.state = "headers" => /\ Consumed(w, a) = Boundary(s, w) + 2
                            /\ Media!Occurs(s.bytes, Media!LineEnd, Boundary(s, w))
  /\ w.state = "body" => \E h \in 0..Len(s.bytes) : InBody(s, w, a, h)
  /\ w.state = "done" => s.whole /\ Len(w.parts) = Len(s.parts)

\* When it waits for more bytes, what it looks for is not in those that have arrived.
Waits(s, w, a) ==
  /\ w.state = "opening" =>
       /\ Len(w.buffer) <= 3
       /\ \A j \in 0..Len(s.bytes) : j + 3 <= a => ~Media!Occurs(s.bytes, Media!Opening, j)
  /\ w.state = "suffix" => Len(w.buffer) < 2
  /\ w.state = "headers" =>
       /\ Len(w.buffer) <= MaxHeaderBytes
       /\ \A j \in Consumed(w, a)..Len(s.bytes) :
            j + 4 <= a => ~Media!Occurs(s.bytes, Media!HeadersEnd, j)
  /\ w.state = "body" =>
       /\ Len(w.buffer) <= 5
       /\ \A j \in Consumed(w, a)..Len(s.bytes) : j + 5 <= a => ~Media!Occurs(s.bytes, Media!Marker, j)

\* The work is sound; one that has failed is of a request that is not to be parsed.
Good(s, w, a) ==
  /\ w \in WorkType
  /\ IF w.state = "error" THEN ~Media!Fits(s) /\ ~w.more ELSE Parsing(s, w, a)
  /\ w.more => Waits(s, w, a)

\* What is true of the upload after every chunk.
Arrived == Len(sent.bytes) - Len(rest)
MediaWork == Media!Work(buffer)
MediaInv ==
  /\ sent \in Streams
  /\ rest \in Seq(Media!Bytes) /\ Len(rest) <= Len(sent.bytes)
  /\ rest = Window(sent.bytes, Arrived, Len(sent.bytes))
  /\ MediaWork \in WorkType /\ state # "error"
  /\ result \in {"parsing", "parsed", "cleaned", "error", "broken"}
  /\ result \in {"parsing", "parsed"} => Parsing(sent, MediaWork, Arrived)
  /\ result = "parsing" /\ state # "done" => Waits(sent, MediaWork, Arrived)
  /\ result = "parsed" => state = "done"
  /\ result = "error" => ~Media!Fits(sent)
  /\ result \in {"cleaned", "error", "broken"} => spilled = {}
  /\ Len(buffer) <= MaxHeaderBytes \/ state = "done"

-----------------------------------------------------------------------------
(***************************************************************************)
(* What a request holds: every boundary but the last is followed by a part.*)
(***************************************************************************)

\* The texts that the parser looks for, and their lengths.
LEMMA Texts ==
  /\ Media!LineEnd \in Seq(Media!Bytes) /\ Len(Media!LineEnd) = 2
  /\ Media!Dashes \in Seq(Media!Bytes) /\ Len(Media!Dashes) = 2
  /\ Media!Opening \in Seq(Media!Bytes) /\ Len(Media!Opening) = 3
  /\ Media!Marker \in Seq(Media!Bytes) /\ Len(Media!Marker) = 5
  /\ Media!HeadersEnd \in Seq(Media!Bytes) /\ Len(Media!HeadersEnd) = 4
<1>1. Media!LineEnd \in Seq(Media!Bytes) /\ Len(Media!LineEnd) = 2
  BY DEF Media!LineEnd, Media!Bytes
<1>2. Media!Opening \in Seq(Media!Bytes) /\ Len(Media!Opening) = 3
  BY DEF Media!Opening, Media!Bytes
<1>3. Media!Dashes \in Seq(Media!Bytes) /\ Len(Media!Dashes) = 2
  BY DEF Media!Dashes, Media!Bytes
<1>4. Media!Marker \in Seq(Media!Bytes) /\ Len(Media!Marker) = 5
  <2>1. Media!LineEnd \o Media!Opening \in Seq(Media!Bytes)
    BY <1>1, <1>2, Concat
  <2>2. Len(Media!LineEnd \o Media!Opening) = 2 + 3
    BY <1>1, <1>2, Concat
  <2>3. QED BY <2>1, <2>2 DEF Media!Marker
<1>5. Media!HeadersEnd \in Seq(Media!Bytes) /\ Len(Media!HeadersEnd) = 4
  <2>1. Media!LineEnd \o Media!LineEnd \in Seq(Media!Bytes)
    BY <1>1, Concat
  <2>2. Len(Media!LineEnd \o Media!LineEnd) = 2 + 2
    BY <1>1, Concat
  <2>3. QED BY <2>1, <2>2 DEF Media!HeadersEnd
<1>6. QED BY <1>1, <1>2, <1>3, <1>4, <1>5

\* A line end does not stand where the request ends.
LEMMA NotBoth ==
  ASSUME NEW bytes, NEW i, Media!Occurs(bytes, Media!LineEnd, i)
  PROVE  ~Media!Occurs(bytes, Media!Dashes, i)
<1>1. bytes[i + 1] = "r"
  BY Texts DEF Media!Occurs, Media!LineEnd
<1>2. Media!Occurs(bytes, Media!Dashes, i) => bytes[i + 1] = "-"
  BY Texts DEF Media!Occurs, Media!Dashes
<1>3. QED BY <1>1, <1>2

LEMMA FirstUnique ==
  ASSUME NEW bytes, NEW needle, NEW from \in Int, NEW i \in Int, NEW j \in Int,
         Media!First(bytes, needle, from, i), Media!First(bytes, needle, from, j)
  PROVE  i = j
<1>1. ~(i < j) /\ ~(j < i)
  BY DEF Media!First
<1>2. QED BY <1>1

\* What Laid says of the types and of the first and the last boundary.
LEMMA RequestTypes ==
  ASSUME NEW s \in Streams
  PROVE  /\ s.bytes \in Seq(Media!Bytes) /\ s.at \in Seq(Nat) /\ s.header \in Nat /\ s.whole \in BOOLEAN
         /\ s.parts \in Seq([header : Media!Bytes, data : Seq(Media!Bytes)])
         /\ s.at = <<>> => s.parts = <<>> /\ \A i \in 0..Len(s.bytes) : ~Media!Occurs(s.bytes, Media!Opening, i)
         /\ s.at # <<>> => /\ Len(s.at) = Len(s.parts) + 1
                           /\ s.at[1] \in Nat /\ Media!First(s.bytes, Media!Opening, 0, s.at[1] - 3)
         /\ s.whole <=> s.at # <<>> /\ Media!Occurs(s.bytes, Media!Dashes, s.at[Len(s.parts) + 1])
<1>1. Media!Laid(s)
  BY UploadAssumption
<1>2. /\ s.bytes \in Seq(Media!Bytes) /\ s.at \in Seq(Nat) /\ s.header \in Nat /\ s.whole \in BOOLEAN
      /\ s.parts \in Seq([header : Media!Bytes, data : Seq(Media!Bytes)])
  BY <1>1 DEF Media!Laid
<1>3. s.at = <<>> => s.parts = <<>> /\ \A i \in 0..Len(s.bytes) : ~Media!Occurs(s.bytes, Media!Opening, i)
  BY <1>1 DEF Media!Laid
<1>4. s.at # <<>> => Len(s.at) = Len(s.parts) + 1 /\ Media!First(s.bytes, Media!Opening, 0, s.at[1] - 3)
  BY <1>1, Texts DEF Media!Laid
<1>5. s.at # <<>> => s.at[1] \in Nat
  BY <1>2
<1>6. s.whole <=> s.at # <<>> /\ Media!Occurs(s.bytes, Media!Dashes, s.at[Len(s.at)])
  BY <1>1 DEF Media!Laid
<1>7. QED BY <1>2, <1>3, <1>4, <1>5, <1>6

\* What stands after a boundary that is not the last.
PartAt(s, n, h) ==
  /\ Media!Framed(s.bytes, s.at[n + 1], h, s.at[n + 2])
  /\ h - s.at[n + 1] - 2 <= s.header
  /\ s.parts[n + 1] = [header |-> s.bytes[s.at[n + 1] + 3],
                       data |-> Window(s.bytes, h + 4, s.at[n + 2] - 5)]

\* A part of the request stands after its boundary.
LEMMA PartThere ==
  ASSUME NEW s \in Streams, NEW n \in Nat, n < Len(s.parts)
  PROVE  /\ s.at # <<>> /\ s.at[n + 1] \in Nat /\ s.at[n + 2] \in Nat
         /\ \E h \in 0..Len(s.bytes) : PartAt(s, n, h)
<1>1. Media!Laid(s)
  BY UploadAssumption
<1>2. s.at # <<>> /\ Len(s.at) = Len(s.parts) + 1 /\ s.parts \in Seq([header : Media!Bytes, data : Seq(Media!Bytes)])
      /\ s.at \in Seq(Nat)
  <2>1. s.at # <<>>
    BY RequestTypes
  <2>2. QED BY <2>1, RequestTypes
<1>3. n + 1 \in 1..Len(s.parts) /\ n + 1 \in 1..Len(s.at) /\ n + 2 \in 1..Len(s.at) /\ n + 1 + 1 = n + 2
  BY <1>2
<1>4. s.at[n + 1] \in Nat /\ s.at[n + 2] \in Nat
  <2>1. \A at \in Seq(Nat) : \A k \in 1..Len(at) : at[k] \in Nat
    OBVIOUS
  <2>2. QED BY Zenon, <1>2, <1>3, <2>1
<1>5. \E h \in 0..Len(s.bytes) :
        /\ Media!Framed(s.bytes, s.at[n + 1], h, s.at[n + 1 + 1])
        /\ h - s.at[n + 1] - Len(Media!LineEnd) <= s.header
        /\ s.parts[n + 1] = [header |-> s.bytes[s.at[n + 1] + Len(Media!LineEnd) + 1],
                             data |-> SubSeq(s.bytes, h + Len(Media!HeadersEnd) + 1,
                                             s.at[n + 1 + 1] - Len(Media!Marker))]
  <2>1. \A i \in DOMAIN s.parts : \E h \in 0..Len(s.bytes) :
          /\ Media!Framed(s.bytes, s.at[i], h, s.at[i + 1])
          /\ h - s.at[i] - Len(Media!LineEnd) <= s.header
          /\ s.parts[i] = [header |-> s.bytes[s.at[i] + Len(Media!LineEnd) + 1],
                           data |-> SubSeq(s.bytes, h + Len(Media!HeadersEnd) + 1,
                                           s.at[i + 1] - Len(Media!Marker))]
    BY <1>1 DEF Media!Laid
  <2>2. n + 1 \in DOMAIN s.parts
    BY <1>2, <1>3
  <2>3. QED BY <2>1, <2>2
<1>6. PICK h \in 0..Len(s.bytes) :
        /\ Media!Framed(s.bytes, s.at[n + 1], h, s.at[n + 2])
        /\ h - s.at[n + 1] - 2 <= s.header
        /\ s.parts[n + 1] = [header |-> s.bytes[s.at[n + 1] + 2 + 1],
                             data |-> SubSeq(s.bytes, h + 4 + 1, s.at[n + 2] - 5)]
  BY <1>3, <1>5, Texts
<1>7. s.at[n + 1] + 2 + 1 = s.at[n + 1] + 3
  BY <1>4
<1>8. PartAt(s, n, h)
  BY <1>6, <1>7 DEF PartAt, Window
<1>9. QED BY <1>2, <1>4, <1>8

\* A part that stands after a boundary is the next of the request.
LEMMA PartHere ==
  ASSUME NEW s \in Streams, NEW n \in 0..Len(s.parts), s.at # <<>>,
         NEW h \in 0..Len(s.bytes), NEW q \in 0..Len(s.bytes), Media!Framed(s.bytes, s.at[n + 1], h, q)
  PROVE  n < Len(s.parts) /\ s.at[n + 2] = q /\ PartAt(s, n, h)
<1>1. /\ Len(s.at) = Len(s.parts) + 1 /\ s.at \in Seq(Nat) /\ s.bytes \in Seq(Media!Bytes)
      /\ s.parts \in Seq([header : Media!Bytes, data : Seq(Media!Bytes)])
  BY RequestTypes
<1>2. n < Len(s.parts)
  <2>1. Media!Laid(s)
    BY UploadAssumption
  <2>2. ~Media!Framed(s.bytes, s.at[Len(s.at)], h, q)
    BY <2>1 DEF Media!Laid
  <2>3. QED BY <1>1, <2>2
<1>3. PICK k \in 0..Len(s.bytes) : PartAt(s, n, k)
  BY <1>2, PartThere
<1>4. s.at[n + 1] \in Nat /\ s.at[n + 2] \in Nat
  BY <1>2, PartThere
<1>5. h = k
  <2>1. /\ Media!First(s.bytes, Media!HeadersEnd, s.at[n + 1] + 2, h)
        /\ Media!First(s.bytes, Media!HeadersEnd, s.at[n + 1] + 2, k)
    BY <1>3, Texts DEF PartAt, Media!Framed
  <2>2. QED BY <1>4, <2>1, FirstUnique
<1>6. s.at[n + 2] = q
  <2>1. /\ Media!First(s.bytes, Media!Marker, h + 4, q - 5)
        /\ Media!First(s.bytes, Media!Marker, h + 4, s.at[n + 2] - 5)
    BY <1>3, <1>5, Texts DEF PartAt, Media!Framed
  <2>2. q - 5 = s.at[n + 2] - 5
    BY SMTT(30), <1>4, <2>1, FirstUnique
  <2>3. QED BY <1>4, <2>2
<1>7. QED BY <1>2, <1>3, <1>5, <1>6

\* In a whole request a line follows every boundary but the last, which ends it.
LEMMA Follows ==
  ASSUME NEW s \in Streams, s.whole, NEW n \in 0..Len(s.parts)
  PROVE  /\ s.at # <<>> /\ s.at[n + 1] \in Nat
         /\ n < Len(s.parts) => /\ Media!Occurs(s.bytes, Media!LineEnd, s.at[n + 1])
                                /\ ~Media!Occurs(s.bytes, Media!Dashes, s.at[n + 1])
         /\ n = Len(s.parts) => /\ Media!Occurs(s.bytes, Media!Dashes, s.at[n + 1])
                                /\ ~Media!Occurs(s.bytes, Media!LineEnd, s.at[n + 1])
<1>1. /\ s.at # <<>> /\ Len(s.at) = Len(s.parts) + 1 /\ s.at \in Seq(Nat)
      /\ Media!Occurs(s.bytes, Media!Dashes, s.at[Len(s.parts) + 1])
      /\ s.parts \in Seq([header : Media!Bytes, data : Seq(Media!Bytes)])
  BY RequestTypes
<1>2. s.at[n + 1] \in Nat
  BY <1>1
<1>3. CASE n = Len(s.parts)
  BY <1>1, <1>2, <1>3, NotBoth
<1>4. CASE n < Len(s.parts)
  <2>1. Media!Occurs(s.bytes, Media!LineEnd, s.at[n + 1])
    <3>1. PICK h \in 0..Len(s.bytes) : PartAt(s, n, h)
      BY <1>4, PartThere
    <3>2. QED BY <3>1 DEF PartAt, Media!Framed
  <2>2. QED BY <1>1, <1>2, <1>4, <2>1, NotBoth
<1>5. QED BY <1>1, <1>3, <1>4

-----------------------------------------------------------------------------
(***************************************************************************)
(* The turns of the loop keep the work sound.                              *)
(***************************************************************************)

\* Where something is looked for in what has arrived.
LEMMA Search ==
  ASSUME NEW S, NEW bytes \in Seq(S), NEW a \in 0..Len(bytes), NEW f \in 0..a, NEW needle \in Seq(S)
  PROVE  LET at == Media!indexOf(Window(bytes, f, a), needle) IN
         \/ /\ at = -1
            /\ \A j \in f..Len(bytes) : j + Len(needle) <= a => ~Media!Occurs(bytes, needle, j)
         \/ /\ at \in Nat /\ f + at + Len(needle) <= a
            /\ Media!First(bytes, needle, f, f + at)
<1> DEFINE b == Window(bytes, f, a)  at == Media!indexOf(b, needle)
<1>1. b \in Seq(S) /\ Len(b) = a - f
  BY WindowSays
<1>2. \/ at = -1 /\ \A i \in 0..Len(b) : ~Media!Occurs(b, needle, i)
      \/ /\ at \in 0..Len(b) /\ Media!Occurs(b, needle, at)
         /\ \A i \in 0..(at - 1) : ~Media!Occurs(b, needle, i)
  <2> HIDE DEF b
  <2>1. QED BY <1>1, IndexOf
<1>3. \A i \in Nat : Media!Occurs(b, needle, i) <=> f + i + Len(needle) <= a /\ Media!Occurs(bytes, needle, f + i)
  BY OccursInWindow
<1>4. Len(needle) \in Nat
  OBVIOUS
<1> HIDE DEF b, at
<1>5. CASE at = -1 /\ \A i \in 0..Len(b) : ~Media!Occurs(b, needle, i)
  <2>1. ASSUME NEW j \in f..Len(bytes), j + Len(needle) <= a PROVE ~Media!Occurs(bytes, needle, j)
    <3>1. j - f \in 0..Len(b) /\ j - f \in Nat /\ f + (j - f) = j
      BY <1>1, <1>4, <2>1
    <3>2. QED BY <1>3, <1>5, <2>1, <3>1
  <2>2. QED BY <1>5, <2>1 DEF at, b
<1>6. CASE /\ at \in 0..Len(b) /\ Media!Occurs(b, needle, at)
           /\ \A i \in 0..(at - 1) : ~Media!Occurs(b, needle, i)
  <2>1. at \in Nat /\ f + at + Len(needle) <= a /\ Media!Occurs(bytes, needle, f + at)
    BY <1>1, <1>3, <1>6
  <2>2. ASSUME NEW j \in f..(f + at - 1) PROVE ~Media!Occurs(bytes, needle, j)
    <3>1. j - f \in 0..(at - 1) /\ j - f \in Nat /\ f + (j - f) = j /\ j + Len(needle) <= a
      BY <1>4, <2>1, <2>2
    <3>2. QED BY <1>3, <1>6, <3>1
  <2>3. Media!First(bytes, needle, f, f + at)
    BY <2>1, <2>2 DEF Media!First
  <2>4. QED BY <2>1, <2>3 DEF at, b
<1>7. QED BY <1>2, <1>5, <1>6

\* The place of what is buffered.
LEMMA WorkSays ==
  ASSUME NEW s \in Streams, NEW a \in 0..Len(s.bytes), NEW w \in WorkType, Parsing(s, w, a)
  PROVE  /\ Consumed(w, a) \in 0..a /\ Len(w.buffer) = a - Consumed(w, a)
         /\ w.buffer = Window(s.bytes, Consumed(w, a), a)
         /\ Len(w.parts) \in 0..Len(s.parts)
<1>1. Len(w.buffer) \in Nat /\ Len(w.parts) \in Nat /\ Len(s.bytes) \in Nat
  BY RequestTypes DEF WorkType
<1>2. Len(w.buffer) <= a /\ w.buffer = Window(s.bytes, Consumed(w, a), a) /\ Len(w.parts) <= Len(s.parts)
  BY DEF Parsing, Found
<1>3. Len(s.parts) \in Nat
  BY RequestTypes
<1>4. QED BY <1>1, <1>2, <1>3 DEF Consumed

\* To wait and to fail are sound when they are right.
LEMMA Waiting ==
  ASSUME NEW s, NEW a, NEW w \in WorkType, Parsing(s, w, a), w.state # "error", Waits(s, w, a)
  PROVE  Good(s, [w EXCEPT !.more = TRUE], a)
<1> DEFINE v == [w EXCEPT !.more = TRUE]
<1>1. /\ v \in WorkType /\ v.more /\ v.buffer = w.buffer /\ v.state = w.state /\ v.current = w.current
      /\ v.parts = w.parts /\ v.spills = w.spills
  BY DEF WorkType
<1> HIDE DEF v
<1>2. Consumed(v, a) = Consumed(w, a) /\ Boundary(s, v) = Boundary(s, w)
  BY <1>1 DEF Consumed, Boundary
<1>3. Found(s, v)
  BY <1>1 DEF Found, Parsing
<1>4. \A h : InBody(s, w, a, h) => InBody(s, v, a, h)
  BY <1>1, <1>2 DEF InBody
<1>5. Parsing(s, v, a)
  BY <1>1, <1>2, <1>3, <1>4 DEF Parsing
<1>6. Waits(s, v, a)
  BY <1>1, <1>2 DEF Waits
<1>7. Good(s, v, a)
  BY <1>1, <1>5, <1>6 DEF Good
<1>8. QED BY <1>7 DEF v

LEMMA Failing ==
  ASSUME NEW s, NEW a, NEW w \in WorkType, ~w.more, ~Media!Fits(s)
  PROVE  Good(s, Media!Fail(w), a) /\ Media!Returns(Media!Fail(w))
<1> DEFINE v == [w EXCEPT !.state = "error"]
<1>1. v \in WorkType /\ v.state = "error" /\ v.more = w.more
  BY DEF WorkType
<1> HIDE DEF v
<1>2. Good(s, v, a) /\ Media!Returns(v)
  BY <1>1 DEF Good, Media!Returns
<1>3. QED BY <1>2 DEF v, Media!Fail

\* Bytes are taken off the front.
LEMMA Taken ==
  ASSUME NEW s \in Streams, NEW a \in 0..Len(s.bytes), NEW w \in WorkType, Parsing(s, w, a),
         NEW n \in 0..Len(w.buffer)
  PROVE  /\ Media!Drop(w.buffer, n) \in Seq(Media!Bytes)
         /\ Len(Media!Drop(w.buffer, n)) = Len(w.buffer) - n
         /\ Media!Drop(w.buffer, n) = Window(s.bytes, Consumed(w, a) + n, a)
<1>1. s.bytes \in Seq(Media!Bytes)
  BY RequestTypes
<1> DEFINE f == Consumed(w, a)
<1>2. f \in 0..a /\ Len(w.buffer) = a - f /\ w.buffer = Window(s.bytes, f, a)
  BY WorkSays
<1> HIDE DEF f
<1>3. n \in 0..(a - f) /\ f + n \in 0..a
  BY <1>2
<1>4. Media!Drop(w.buffer, n) = Window(s.bytes, f + n, a)
  BY <1>1, <1>2, <1>3, Consume
<1>5. Window(s.bytes, f + n, a) \in Seq(Media!Bytes) /\ Len(Window(s.bytes, f + n, a)) = a - (f + n)
  BY <1>1, <1>3, WindowSays
<1>6. QED BY <1>2, <1>3, <1>4, <1>5 DEF f

\* A turn is sound, and it returns or takes bytes off the buffer.
Sound(s, w, v, a) == Good(s, v, a) /\ (Media!Returns(v) \/ Len(v.buffer) < Len(w.buffer))

\* After a boundary: the end, a line, or neither.
LEMMA SuffixSound ==
  ASSUME NEW s \in Streams, NEW a \in 0..Len(s.bytes), NEW w \in WorkType, Parsing(s, w, a),
         w.state = "suffix", ~w.more
  PROVE  Sound(s, w, Media!Suffix(w), a)
<1> DEFINE f == Consumed(w, a)  n == Len(w.parts)
<1>1. /\ s.bytes \in Seq(Media!Bytes) /\ s.at # <<>> /\ n \in 0..Len(s.parts)
      /\ f \in 0..a /\ Len(w.buffer) = a - f /\ w.buffer = Window(s.bytes, f, a)
      /\ f = s.at[n + 1]
  BY RequestTypes, WorkSays DEF Parsing, Boundary
<1> HIDE DEF f, n
<1>2. ASSUME NEW needle \in Seq(Media!Bytes), Len(needle) = 2, ~(Len(w.buffer) < 2)
      PROVE  Media!Occurs(w.buffer, needle, 0) <=> Media!Occurs(s.bytes, needle, f)
  <2>1. f + 0 + 2 <= a /\ f + 0 = f
    BY <1>1, <1>2
  <2>2. Media!Occurs(w.buffer, needle, 0)
          <=> f + 0 + Len(needle) <= a /\ Media!Occurs(s.bytes, needle, f + 0)
    BY <1>1, <1>2, OccursInWindow
  <2>3. QED BY <1>2, <2>1, <2>2
<1>3. CASE Len(w.buffer) < 2
  <2>1. Waits(s, w, a)
    BY <1>3 DEF Waits
  <2>2. Good(s, [w EXCEPT !.more = TRUE], a)
    BY <2>1, Waiting
  <2>3. [w EXCEPT !.more = TRUE].more
    BY DEF WorkType
  <2>4. Media!Suffix(w) = [w EXCEPT !.more = TRUE]
    BY <1>3 DEF Media!Suffix
  <2>5. QED BY <2>2, <2>3, <2>4 DEF Sound, Media!Returns
<1>4. ASSUME ~(Len(w.buffer) < 2), NEW st \in {"done", "headers"},
             st = "done" => s.whole /\ n = Len(s.parts),
             st = "headers" => Media!Occurs(s.bytes, Media!LineEnd, f)
      PROVE  Sound(s, w, [w EXCEPT !.buffer = Media!Drop(@, 2), !.state = st], a)
  <2> DEFINE v == [w EXCEPT !.buffer = Media!Drop(@, 2), !.state = st]
  <2>1. /\ Media!Drop(w.buffer, 2) \in Seq(Media!Bytes)
        /\ Len(Media!Drop(w.buffer, 2)) = Len(w.buffer) - 2
        /\ Media!Drop(w.buffer, 2) = Window(s.bytes, f + 2, a)
    <3>1. 2 \in 0..Len(w.buffer)
      BY <1>1, <1>4
    <3>2. QED BY <3>1, Taken DEF f
  <2>2. /\ v \in WorkType /\ v.buffer = Media!Drop(w.buffer, 2) /\ v.state = st /\ v.current = w.current
        /\ v.parts = w.parts /\ v.spills = w.spills /\ ~v.more
    BY <2>1 DEF WorkType
  <2> HIDE DEF v
  <2>3. Len(v.buffer) = Len(w.buffer) - 2 /\ Len(v.buffer) <= a /\ Consumed(v, a) = f + 2
        /\ v.buffer = Window(s.bytes, Consumed(v, a), a) /\ Boundary(s, v) = f
    <3>1. Len(v.buffer) = a - f - 2
      BY <1>1, <2>1, <2>2
    <3>2. Consumed(v, a) = f + 2
      BY <1>1, <3>1 DEF Consumed
    <3>3. Boundary(s, v) = f
      BY <1>1, <2>2 DEF Boundary, n
    <3>4. QED BY <1>1, <2>1, <2>2, <3>1, <3>2, <3>3
  <2>4. Found(s, v)
    BY <2>2 DEF Found, Parsing
  <2>5. Parsing(s, v, a)
    BY <1>1, <1>4, <2>2, <2>3, <2>4 DEF Parsing, n
  <2>6. Sound(s, w, v, a)
    BY SMTT(30), <1>1, <1>4, <2>2, <2>3, <2>5 DEF Sound, Good
  <2>7. QED BY <2>6 DEF v
<1>5. CASE ~(Len(w.buffer) < 2) /\ Media!Occurs(w.buffer, Media!Dashes, 0)
  <2>1. Media!Occurs(s.bytes, Media!Dashes, f)
    BY <1>2, <1>5, Texts
  <2>2. n = Len(s.parts)
    <3>1. ASSUME n < Len(s.parts) PROVE FALSE
      <4>1. PICK h \in 0..Len(s.bytes) : PartAt(s, n, h)
        BY <1>1, <3>1, PartThere
      <4>2. Media!Occurs(s.bytes, Media!LineEnd, f)
        BY <1>1, <4>1 DEF PartAt, Media!Framed
      <4>3. QED BY <2>1, <4>2, NotBoth
    <3>2. QED BY <1>1, <3>1
  <2>3. s.whole
    BY <1>1, <2>1, <2>2, RequestTypes
  <2>4. Media!Suffix(w) = [w EXCEPT !.buffer = Media!Drop(@, 2), !.state = "done"]
    BY <1>5 DEF Media!Suffix
  <2>5. QED BY <1>4, <1>5, <2>2, <2>3, <2>4
<1>6. CASE /\ ~(Len(w.buffer) < 2) /\ ~Media!Occurs(w.buffer, Media!Dashes, 0)
           /\ Media!Occurs(w.buffer, Media!LineEnd, 0)
  <2>1. Media!Occurs(s.bytes, Media!LineEnd, f)
    BY <1>2, <1>6, Texts
  <2>2. Media!Suffix(w) = [w EXCEPT !.buffer = Media!Drop(@, 2), !.state = "headers"]
    BY <1>6 DEF Media!Suffix
  <2>3. QED BY <1>4, <1>6, <2>1, <2>2
<1>7. CASE /\ ~(Len(w.buffer) < 2) /\ ~Media!Occurs(w.buffer, Media!Dashes, 0)
           /\ ~Media!Occurs(w.buffer, Media!LineEnd, 0)
  <2>1. ~Media!Occurs(s.bytes, Media!Dashes, f) /\ ~Media!Occurs(s.bytes, Media!LineEnd, f)
    BY <1>2, <1>7, Texts
  <2>2. ~s.whole
    BY <1>1, <2>1, Follows
  <2>3. ~Media!Fits(s)
    BY <2>2 DEF Media!Fits
  <2>4. Media!Suffix(w) = Media!Fail(w)
    BY <1>7 DEF Media!Suffix
  <2>5. QED BY <2>3, <2>4, Failing DEF Sound
<1>8. QED BY <1>3, <1>5, <1>6, <1>7

\* The limits are numbers, and a request that fits keeps them.
LEMMA LimitsSay ==
  /\ MaxBytes \in Nat /\ MaxPartBytes \in Nat /\ MaxHeaderBytes \in Nat /\ MaxParts \in Nat
  /\ FileMemoryBytes \in Nat /\ MaxHeaderBytes >= 5 /\ ChunkSizes \subseteq Nat \ {0}
BY UploadAssumption, Texts DEF Media!UploadLimits

LEMMA FitsSays ==
  ASSUME NEW s \in Streams, Media!Fits(s)
  PROVE  /\ s.whole /\ Len(s.bytes) <= MaxBytes /\ Len(s.parts) <= MaxParts /\ s.header + 3 <= MaxHeaderBytes
         /\ \A n \in Nat : n < Len(s.parts) => Len(s.parts[n + 1].data) <= MaxPartBytes
<1>1. /\ s.whole /\ Len(s.bytes) <= MaxBytes /\ Len(s.parts) <= MaxParts
      /\ s.header + Len(Media!HeadersEnd) - 1 <= MaxHeaderBytes
      /\ \A i \in DOMAIN s.parts : Len(s.parts[i].data) <= MaxPartBytes
  BY DEF Media!Fits
<1>2. s.parts \in Seq([header : Media!Bytes, data : Seq(Media!Bytes)]) /\ s.header \in Nat
  BY RequestTypes
<1>3. s.header + 3 <= MaxHeaderBytes
  <2>1. s.header + 4 - 1 <= MaxHeaderBytes
    BY <1>1, Texts
  <2>2. QED BY <1>2, <2>1, LimitsSay
<1>4. ASSUME NEW n \in Nat, n < Len(s.parts) PROVE Len(s.parts[n + 1].data) <= MaxPartBytes
  <2>1. n + 1 \in DOMAIN s.parts
    BY <1>2, <1>4
  <2>2. QED BY <1>1, <2>1
<1>5. QED BY <1>1, <1>3, <1>4

\* The first boundary: found, or not among all bytes but the last three.
LEMMA OpeningSound ==
  ASSUME NEW s \in Streams, NEW a \in 0..Len(s.bytes), NEW w \in WorkType, Parsing(s, w, a),
         w.state = "opening", ~w.more
  PROVE  Sound(s, w, Media!OpeningStep(w), a)
<1> DEFINE f == Consumed(w, a)  at == Media!indexOf(w.buffer, Media!Opening)
<1>1. /\ s.bytes \in Seq(Media!Bytes) /\ Len(s.bytes) \in Nat
      /\ f \in 0..a /\ Len(w.buffer) = a - f /\ w.buffer = Window(s.bytes, f, a)
      /\ w.parts = <<>> /\ w.current = Media!NoPart
      /\ \A j \in 0..(f - 1) : ~Media!Occurs(s.bytes, Media!Opening, j)
  BY RequestTypes, WorkSays DEF Parsing
<1>2. \/ /\ at = -1
         /\ \A j \in f..Len(s.bytes) : j + 3 <= a => ~Media!Occurs(s.bytes, Media!Opening, j)
      \/ /\ at \in Nat /\ f + at + 3 <= a
         /\ Media!First(s.bytes, Media!Opening, f, f + at)
  <2> HIDE DEF f
  <2>1. \/ /\ at = -1
           /\ \A j \in f..Len(s.bytes) : j + Len(Media!Opening) <= a => ~Media!Occurs(s.bytes, Media!Opening, j)
        \/ /\ at \in Nat /\ f + at + Len(Media!Opening) <= a
           /\ Media!First(s.bytes, Media!Opening, f, f + at)
    BY <1>1, Search, Texts
  <2>2. QED BY <2>1, Texts
<1> HIDE DEF f, at
<1>3. CASE at = -1 /\ \A j \in f..Len(s.bytes) : j + 3 <= a => ~Media!Occurs(s.bytes, Media!Opening, j)
  <2> DEFINE k == IF Len(w.buffer) > 3 THEN Len(w.buffer) - 3 ELSE 0
             kept == IF Len(w.buffer) > 3 THEN Media!Drop(w.buffer, Len(w.buffer) - 3) ELSE w.buffer
             v == [w EXCEPT !.more = TRUE, !.buffer = kept]
  <2>1. k \in 0..Len(w.buffer) /\ Len(w.buffer) - k <= 3 /\ (k = 0 \/ k = a - f - 3)
    BY <1>1
  <2>2. kept \in Seq(Media!Bytes) /\ Len(kept) = Len(w.buffer) - k /\ kept = Window(s.bytes, f + k, a)
    <3>1. CASE Len(w.buffer) > 3
      <4>1. kept = Media!Drop(w.buffer, k)
        BY <3>1
      <4> HIDE DEF kept, k
      <4>2. QED BY <2>1, <4>1, Taken DEF f
    <3>2. CASE ~(Len(w.buffer) > 3)
      <4>1. kept = w.buffer /\ k = 0 /\ f + 0 = f /\ Len(w.buffer) - 0 = Len(w.buffer)
        BY <1>1, <3>2
      <4>2. w.buffer \in Seq(Media!Bytes)
        BY DEF WorkType
      <4> HIDE DEF kept, k
      <4>3. QED BY <1>1, <4>1, <4>2
    <3>3. QED BY <3>1, <3>2
  <2> HIDE DEF k, kept
  <2>3. /\ v \in WorkType /\ v.buffer = kept /\ v.state = "opening" /\ v.current = w.current
        /\ v.parts = w.parts /\ v.spills = w.spills /\ v.more
    BY <2>2 DEF WorkType
  <2> HIDE DEF v
  <2>4. Consumed(v, a) = f + k /\ Len(v.buffer) <= 3 /\ Len(v.buffer) <= a
    <3>1. Len(v.buffer) = a - f - k
      BY <1>1, <2>2, <2>3
    <3>2. QED BY <1>1, <2>1, <3>1 DEF Consumed
  <2>5. ASSUME NEW j \in 0..Len(s.bytes), j + 3 <= a PROVE ~Media!Occurs(s.bytes, Media!Opening, j)
    <3>1. j \in 0..(f - 1) \/ j \in f..Len(s.bytes)
      BY <1>1
    <3>2. QED BY <1>1, <1>3, <2>5, <3>1
  <2>6. ASSUME NEW j \in 0..(f + k - 1) PROVE ~Media!Occurs(s.bytes, Media!Opening, j)
    <3>1. CASE k = 0
      <4>1. j \in 0..(f - 1)
        BY <1>1, <3>1
      <4>2. QED BY <1>1, <4>1
    <3>2. CASE k = a - f - 3
      <4>1. j \in 0..Len(s.bytes) /\ j + 3 <= a
        BY <1>1, <3>2
      <4>2. QED BY <2>5, <4>1
    <3>3. QED BY <2>1, <3>1, <3>2
  <2>7. Found(s, v)
    BY <2>3 DEF Found, Parsing
  <2>8. Parsing(s, v, a)
    <3>1. v.buffer = Window(s.bytes, Consumed(v, a), a)
      BY <2>2, <2>3, <2>4
    <3>2. ASSUME NEW j \in 0..(Consumed(v, a) - 1) PROVE ~Media!Occurs(s.bytes, Media!Opening, j)
      <4>1. j \in 0..(f + k - 1)
        BY <1>1, <2>1, <2>4, <3>2
      <4>2. QED BY <2>6, <4>1
    <3>3. QED BY <1>1, <2>3, <2>4, <2>7, <3>1, <3>2 DEF Parsing
  <2>9. Waits(s, v, a)
    BY <2>3, <2>4, <2>5 DEF Waits
  <2>10. Sound(s, w, v, a)
    BY <2>3, <2>8, <2>9 DEF Sound, Good, Media!Returns
  <2>11. Media!OpeningStep(w) = [w EXCEPT !.more = TRUE,
           !.buffer = IF Len(@) > Len(Media!Opening) THEN Media!Drop(@, Len(@) - Len(Media!Opening)) ELSE @]
    BY <1>3 DEF Media!OpeningStep, at
  <2>12. Media!OpeningStep(w) = v
    BY <2>11, Texts DEF v, kept
  <2>13. QED BY <2>10, <2>12
<1>4. CASE at \in Nat /\ f + at + 3 <= a /\ Media!First(s.bytes, Media!Opening, f, f + at)
  <2>1. Media!First(s.bytes, Media!Opening, 0, f + at)
    <3>1. ASSUME NEW j \in 0..(f + at - 1) PROVE ~Media!Occurs(s.bytes, Media!Opening, j)
      <4>1. j \in 0..(f - 1) \/ j \in f..(f + at - 1)
        BY <1>1, <1>4
      <4>2. QED BY <1>1, <1>4, <4>1 DEF Media!First
    <3>2. f + at >= 0
      BY <1>1, <1>4
    <3>3. Media!Occurs(s.bytes, Media!Opening, f + at)
      BY <1>4 DEF Media!First
    <3>4. QED BY <1>1, <1>4, <3>1, <3>2, <3>3 DEF Media!First
  <2>2. s.at # <<>>
    <3>1. f + at \in 0..Len(s.bytes) /\ Media!Occurs(s.bytes, Media!Opening, f + at)
      BY <1>1, <1>4 DEF Media!First
    <3>2. QED BY <3>1, RequestTypes
  <2>3. f + at + 3 = s.at[1]
    <3>1. s.at[1] \in Nat /\ Media!First(s.bytes, Media!Opening, 0, s.at[1] - 3)
      BY <2>2, RequestTypes
    <3>2. f + at = s.at[1] - 3
      BY <1>1, <1>4, <2>1, <3>1, FirstUnique
    <3>3. QED BY <1>1, <1>4, <3>1, <3>2
  <2> DEFINE b == Media!Drop(w.buffer, at + 3)
             v == [w EXCEPT !.buffer = b, !.state = "suffix"]
  <2>4. b \in Seq(Media!Bytes) /\ Len(b) = a - f - at - 3 /\ b = Window(s.bytes, f + at + 3, a)
    <3>1. at + 3 \in 0..Len(w.buffer) /\ f + (at + 3) = f + at + 3
          /\ Len(w.buffer) - (at + 3) = a - f - at - 3
      BY <1>1, <1>4
    <3>2. /\ b \in Seq(Media!Bytes) /\ Len(b) = Len(w.buffer) - (at + 3)
          /\ b = Window(s.bytes, f + (at + 3), a)
      BY <3>1, Taken DEF f
    <3>3. QED BY <3>1, <3>2
  <2> HIDE DEF b
  <2>5. /\ v \in WorkType /\ v.buffer = b /\ v.state = "suffix" /\ v.current = w.current
        /\ v.parts = w.parts /\ v.spills = w.spills /\ ~v.more
    BY <2>4 DEF WorkType
  <2> HIDE DEF v
  <2>6. Consumed(v, a) = f + at + 3 /\ Len(v.buffer) < Len(w.buffer) /\ Len(v.buffer) <= a
    BY <1>1, <1>4, <2>4, <2>5 DEF Consumed
  <2>7. Boundary(s, v) = s.at[1]
    BY <1>1, <2>5 DEF Boundary
  <2>8. Found(s, v)
    BY <2>5 DEF Found, Parsing
  <2>9. Parsing(s, v, a)
    BY <1>1, <2>2, <2>3, <2>4, <2>5, <2>6, <2>7, <2>8 DEF Parsing
  <2>10. Sound(s, w, v, a)
    BY <2>5, <2>6, <2>9 DEF Sound, Good
  <2>11. Media!OpeningStep(w) = [w EXCEPT !.buffer = Media!Drop(@, at + Len(Media!Opening)), !.state = "suffix"]
    <3>1. ~(at < 0)
      BY <1>4
    <3>2. QED BY <3>1 DEF Media!OpeningStep, at
  <2>12. Media!OpeningStep(w) = v
    BY <2>11, Texts DEF v, b
  <2>13. QED BY <2>10, <2>12
<1>5. QED BY <1>2, <1>3, <1>4

\* A part whose headers have arrived: where they end, and what they say.
LEMMA HeadersOf ==
  ASSUME NEW s \in Streams, NEW n \in Nat, n < Len(s.parts), NEW h \in 0..Len(s.bytes), PartAt(s, n, h)
  PROVE  /\ s.at[n + 1] \in Nat /\ s.at[n + 2] \in Nat
         /\ Media!Occurs(s.bytes, Media!LineEnd, s.at[n + 1])
         /\ Media!First(s.bytes, Media!HeadersEnd, s.at[n + 1] + 2, h)
         /\ Media!ValidHeaders(SubSeq(s.bytes, s.at[n + 1] + 3, h))
         /\ h - s.at[n + 1] - 2 <= s.header
         /\ Media!First(s.bytes, Media!Marker, h + 4, s.at[n + 2] - 5)
         /\ s.at[n + 2] <= Len(s.bytes)
         /\ s.parts[n + 1].header = s.bytes[s.at[n + 1] + 3]
         /\ s.parts[n + 1].data = Window(s.bytes, h + 4, s.at[n + 2] - 5)
<1>1. s.at[n + 1] \in Nat /\ s.at[n + 2] \in Nat /\ s.bytes \in Seq(Media!Bytes)
  BY PartThere, RequestTypes
<1>2. s.at[n + 1] + 2 + 1 = s.at[n + 1] + 3
  BY <1>1
<1>3. /\ Media!Occurs(s.bytes, Media!LineEnd, s.at[n + 1])
      /\ Media!First(s.bytes, Media!HeadersEnd, s.at[n + 1] + 2, h)
      /\ Media!ValidHeaders(SubSeq(s.bytes, s.at[n + 1] + 3, h))
      /\ Media!First(s.bytes, Media!Marker, h + 4, s.at[n + 2] - 5)
  BY <1>2, Texts DEF PartAt, Media!Framed
<1>4. s.at[n + 2] <= Len(s.bytes)
  <2>1. Media!Occurs(s.bytes, Media!Marker, s.at[n + 2] - 5)
    BY <1>3 DEF Media!First
  <2>2. s.at[n + 2] - 5 + 5 <= Len(s.bytes)
    BY <2>1, Texts DEF Media!Occurs
  <2>3. QED BY <1>1, <2>2
<1>5. QED BY <1>1, <1>3, <1>4 DEF PartAt

LEMMA SubSeqFirst ==
  ASSUME NEW S, NEW s \in Seq(S), NEW i \in Nat, NEW j \in Nat, 1 <= i, i <= j, j <= Len(s)
  PROVE  SubSeq(s, i, j)[1] = s[i]
OBVIOUS

\* Headers: of the next part, too long, refused, or not all there.
LEMMA HeadersSound ==
  ASSUME NEW s \in Streams, NEW a \in 0..Len(s.bytes), NEW w \in WorkType, Parsing(s, w, a),
         w.state = "headers", ~w.more
  PROVE  Sound(s, w, Media!Headers(w), a)
<1> DEFINE f == Consumed(w, a)  n == Len(w.parts)  end == Media!indexOf(w.buffer, Media!HeadersEnd)
<1>1. /\ s.bytes \in Seq(Media!Bytes) /\ Len(s.bytes) \in Nat /\ s.at # <<>> /\ s.at \in Seq(Nat)
      /\ f \in 0..a /\ Len(w.buffer) = a - f /\ w.buffer = Window(s.bytes, f, a)
      /\ n \in 0..Len(s.parts) /\ Boundary(s, w) = s.at[n + 1] /\ f = s.at[n + 1] + 2
      /\ s.at[n + 1] \in Nat /\ w.current = Media!NoPart /\ Found(s, w)
      /\ Media!Occurs(s.bytes, Media!LineEnd, s.at[n + 1])
  <2>1. /\ s.bytes \in Seq(Media!Bytes) /\ s.at \in Seq(Nat)
        /\ s.parts \in Seq([header : Media!Bytes, data : Seq(Media!Bytes)])
    BY RequestTypes
  <2>2. Len(s.bytes) \in Nat
    BY <2>1
  <2>3. /\ f \in 0..a /\ Len(w.buffer) = a - f /\ w.buffer = Window(s.bytes, f, a)
        /\ n \in 0..Len(s.parts)
    BY WorkSays
  <2>4. /\ s.at # <<>> /\ f = Boundary(s, w) + 2 /\ w.current = Media!NoPart /\ Found(s, w)
        /\ Media!Occurs(s.bytes, Media!LineEnd, Boundary(s, w))
    BY DEF Parsing
  <2>5. Boundary(s, w) = s.at[n + 1]
    BY DEF Boundary
  <2> HIDE DEF f, n
  <2>6. Len(s.at) = Len(s.parts) + 1
    BY <2>4, RequestTypes
  <2>7. n + 1 \in 1..Len(s.at)
    BY <2>1, <2>3, <2>6
  <2>8. s.at[n + 1] \in Nat
    BY <2>1, <2>7
  <2>9. QED BY <2>1, <2>3, <2>4, <2>5, <2>8, <2>2
<1>2. \/ /\ end = -1
         /\ \A j \in f..Len(s.bytes) : j + 4 <= a => ~Media!Occurs(s.bytes, Media!HeadersEnd, j)
      \/ /\ end \in Nat /\ f + end + 4 <= a
         /\ Media!First(s.bytes, Media!HeadersEnd, f, f + end)
  <2> HIDE DEF f
  <2>1. \/ /\ end = -1
           /\ \A j \in f..Len(s.bytes) : j + Len(Media!HeadersEnd) <= a => ~Media!Occurs(s.bytes, Media!HeadersEnd, j)
        \/ /\ end \in Nat /\ f + end + Len(Media!HeadersEnd) <= a
           /\ Media!First(s.bytes, Media!HeadersEnd, f, f + end)
    BY <1>1, Search, Texts
  <2>2. QED BY <2>1, Texts
<1> HIDE DEF f, n, end
<1>3. f \in Nat /\ f <= a /\ a \in Nat /\ a <= Len(s.bytes) /\ Len(s.bytes) \in Nat /\ Len(w.buffer) = a - f
  BY <1>1
<1>4. n \in Nat
  <2>1. Len(s.parts) \in Nat
    BY RequestTypes
  <2>2. QED BY <1>1, <2>1
\* In a request that fits a part stands here.
<1>5. ASSUME Media!Fits(s)
      PROVE  \E h \in 0..Len(s.bytes) : n < Len(s.parts) /\ PartAt(s, n, h)
  <2>1. s.whole
    BY <1>5, FitsSays
  <2>2. n # Len(s.parts)
    BY <1>1, <2>1, Follows
  <2>3. n < Len(s.parts) /\ n \in Nat
    <3>1. Len(s.parts) \in Nat
      BY RequestTypes
    <3>2. QED BY <1>1, <2>2, <3>1
  <2>4. QED BY <2>3, PartThere
<1>6. CASE end = -1 /\ \A j \in f..Len(s.bytes) : j + 4 <= a => ~Media!Occurs(s.bytes, Media!HeadersEnd, j)
  <2>1. CASE Len(w.buffer) > MaxHeaderBytes
    <3>1. ASSUME Media!Fits(s) PROVE FALSE
      <4>1. PICK h \in 0..Len(s.bytes) : n < Len(s.parts) /\ PartAt(s, n, h)
        BY <1>5, <3>1
      <4>2. /\ Media!First(s.bytes, Media!HeadersEnd, s.at[n + 1] + 2, h)
            /\ h - s.at[n + 1] - 2 <= s.header
        BY <1>1, <4>1, <1>4, HeadersOf
      <4>3. h \in f..Len(s.bytes) /\ Media!Occurs(s.bytes, Media!HeadersEnd, h)
        BY <1>1, <4>2 DEF Media!First
      <4>4. ~(h + 4 <= a)
        BY <1>6, <4>3
      <4>5. s.header \in Nat
        BY RequestTypes
      <4>6. h - f <= s.header
        BY SMTT(30), <1>1, <4>2, <4>5
      <4>7. a - f <= s.header + 3
        BY <1>3, <4>4, <4>5, <4>6
      <4>8. s.header + 3 <= MaxHeaderBytes
        BY <3>1, FitsSays
      <4>9. QED BY <1>3, <2>1, <4>7, <4>8, <4>5, LimitsSay
    <3>2. Media!Headers(w) = Media!Fail(w)
      BY <1>6, <2>1 DEF Media!Headers, end
    <3>3. QED BY <3>1, <3>2, Failing DEF Sound
  <2>2. CASE ~(Len(w.buffer) > MaxHeaderBytes)
    <3>1. Len(w.buffer) <= MaxHeaderBytes
      BY <1>1, <2>2, LimitsSay
    <3>2. Waits(s, w, a)
      BY <1>6, <3>1 DEF Waits, f
    <3>3. Good(s, [w EXCEPT !.more = TRUE], a)
      BY <3>2, Waiting
    <3>4. [w EXCEPT !.more = TRUE].more
      BY DEF WorkType
    <3>5. Media!Headers(w) = [w EXCEPT !.more = TRUE]
      BY <1>6, <2>2 DEF Media!Headers, end
    <3>6. QED BY <3>3, <3>4, <3>5 DEF Sound, Media!Returns
  <2>3. QED BY <2>1, <2>2
<1>7. CASE end \in Nat /\ f + end + 4 <= a /\ Media!First(s.bytes, Media!HeadersEnd, f, f + end)
  <2> DEFINE h == f + end  block == Media!Take(w.buffer, end)
  <2>1. h \in Nat /\ h \in 0..Len(s.bytes) /\ h + 4 <= a /\ h \in f..a
    BY <1>3, <1>7
  <2>2. block = SubSeq(s.bytes, s.at[n + 1] + 3, h)
    <3>1. end \in 0..(a - f)
      BY <1>1, <1>7
    <3>2. block = Window(s.bytes, f, h)
      <4>1. s.bytes \in Seq(Media!Bytes) /\ f \in 0..a
        BY <1>1
      <4>2. Media!Take(Window(s.bytes, f, a), end) = Window(s.bytes, f, f + end)
        BY <3>1, <4>1, Consume
      <4>3. QED BY <1>1, <4>2
    <3>3. f + 1 = s.at[n + 1] + 3
      BY <1>1
    <3>4. QED BY <3>2, <3>3 DEF Window
  <2>3. Media!First(s.bytes, Media!HeadersEnd, s.at[n + 1] + 2, h)
    BY <1>1, <1>7
  <2>4. ~(end < 0)
    BY <1>7
  <2>5. CASE ~Media!ValidHeaders(block)
    <3>1. ASSUME Media!Fits(s) PROVE FALSE
      <4>1. PICK k \in 0..Len(s.bytes) : n < Len(s.parts) /\ PartAt(s, n, k)
        BY <1>5, <3>1
      <4>2. /\ Media!First(s.bytes, Media!HeadersEnd, s.at[n + 1] + 2, k)
            /\ Media!ValidHeaders(SubSeq(s.bytes, s.at[n + 1] + 3, k))
        BY <1>1, <4>1, <1>4, HeadersOf
      <4>3. k = h
        <5> HIDE DEF h
        <5>1. s.at[n + 1] + 2 \in Int /\ h \in Int /\ k \in Int
          BY <1>1, <2>1
        <5>2. QED BY <2>3, <4>2, <5>1, FirstUnique
      <4>4. QED BY <2>2, <2>5, <4>2, <4>3
    <3>2. Media!Headers(w) = Media!Fail(w)
      BY <2>4, <2>5 DEF Media!Headers, end
    <3>3. QED BY <3>1, <3>2, Failing DEF Sound
  <2>6. CASE Media!ValidHeaders(block)
    <3> DEFINE b == Media!Drop(w.buffer, end + 4)
               made == Media!headersFromBlock(block)
               v == [w EXCEPT !.current = made, !.buffer = b, !.state = "body"]
    <3>1. b \in Seq(Media!Bytes) /\ Len(b) = a - (h + 4) /\ b = Window(s.bytes, h + 4, a)
      <4>1. end + 4 \in 0..Len(w.buffer) /\ f + (end + 4) = h + 4 /\ Len(w.buffer) - (end + 4) = a - (h + 4)
        BY <1>3, <1>7
      <4> HIDE DEF h
      <4>2. /\ b \in Seq(Media!Bytes) /\ Len(b) = Len(w.buffer) - (end + 4)
            /\ b = Window(s.bytes, f + (end + 4), a)
        BY <4>1, Taken DEF f
      <4>3. QED BY <4>1, <4>2
    <3>2. /\ made \in PartType /\ made.header = s.bytes[s.at[n + 1] + 3] /\ made.data = <<>> /\ ~made.file
      <4>1. made.header = block[1] /\ made.data = <<>> /\ made.file = FALSE
            /\ made = [header |-> block[1], data |-> <<>>, file |-> FALSE]
        BY DEF Media!headersFromBlock
      <4>2. block[1] \in {"field", "file"} /\ Len(block) >= 1
        BY <2>6 DEF Media!ValidHeaders
      <4>3. block[1] = s.bytes[s.at[n + 1] + 3]
        <5>1. s.at[n + 1] + 3 \in Nat /\ s.at[n + 1] + 3 >= 1 /\ s.at[n + 1] + 3 <= h
          <6>1. Window(s.bytes, f, h) \in Seq(Media!Bytes) /\ Len(Window(s.bytes, f, h)) = h - f
            <7> HIDE DEF h
            <7>1. f \in 0..h
              BY <1>1, <2>1
            <7>2. QED BY <1>1, <2>1, <7>1, WindowSays
          <6>2. f + 1 = s.at[n + 1] + 3
            BY <1>1
          <6>3. Len(block) = h - f
            BY <2>2, <6>1, <6>2 DEF Window
          <6>4. h - f >= 1
            BY <4>2, <6>3
          <6>5. s.at[n + 1] \in Nat
            BY <1>1
          <6>6. s.at[n + 1] + 3 \in Nat /\ s.at[n + 1] + 3 >= 1
            BY <6>5
          <6> HIDE DEF h
          <6>7. QED BY <1>3, <2>1, <6>2, <6>4, <6>6
        <5> HIDE DEF h, block
        <5>2. SubSeq(s.bytes, s.at[n + 1] + 3, h)[1] = s.bytes[s.at[n + 1] + 3]
          <6>1. s.bytes \in Seq(Media!Bytes) /\ h \in Nat /\ h <= Len(s.bytes)
            BY <1>1, <2>1
          <6>2. QED BY <5>1, <6>1, SubSeqFirst
        <5>3. QED BY <2>2, <5>2
      <4> HIDE DEF made, block
      <4>4. made \in PartType
        BY <4>1, <4>2 DEF PartType, Media!Bytes
      <4>5. QED BY <4>1, <4>3, <4>4
    <3> HIDE DEF b, made
    <3>3. /\ v \in WorkType /\ v.buffer = b /\ v.state = "body" /\ v.current = made
          /\ v.parts = w.parts /\ v.spills = w.spills /\ ~v.more
      BY <3>1, <3>2 DEF WorkType
    <3> HIDE DEF v
    <3>4. /\ Consumed(v, a) = h + 4 /\ Len(v.buffer) < Len(w.buffer) /\ Len(v.buffer) <= a
          /\ v.buffer = Window(s.bytes, Consumed(v, a), a)
      <4>1. Consumed(v, a) = h + 4 /\ Len(v.buffer) < Len(w.buffer) /\ Len(v.buffer) <= a
        BY <1>3, <2>1, <1>7, <3>1, <3>3 DEF Consumed
      <4>2. QED BY <3>1, <3>3, <4>1
    <3>5. Boundary(s, v) = s.at[n + 1]
      BY <1>1, <3>3 DEF Boundary, n
    <3>6. Found(s, v)
      <4>1. ~w.current.file
        BY <1>1 DEF Media!NoPart
      <4>2. QED BY <1>1, <3>2, <3>3, <4>1 DEF Found
    <3>7. InBody(s, v, a, h)
      <4>1. Window(s.bytes, h + 4, h + 4) = <<>>
        <5>1. h + 4 \in 0..Len(s.bytes) /\ h + 4 \in 0..(h + 4) /\ (h + 4) - (h + 4) = 0
          BY <1>3, <2>1
        <5> HIDE DEF h
        <5>2. Window(s.bytes, h + 4, h + 4) \in Seq(Media!Bytes) /\ Len(Window(s.bytes, h + 4, h + 4)) = 0
          BY SMTT(30), <1>1, <5>1, WindowSays
        <5>3. QED BY <5>2
      <4>2. Sized(v.current)
        <5>1. Len(v.current.data) = 0 /\ ~v.current.file
          BY <3>2, <3>3
        <5>2. QED BY <5>1, LimitsSay DEF Sized
      <4>3. Len(v.current.data) <= MaxPartBytes
        BY <3>2, <3>3, LimitsSay
      <4>4. h + 4 <= h + 4 /\ \A j \in (h + 4)..(h + 4 - 1) : ~Media!Occurs(s.bytes, Media!Marker, j)
        BY <2>1
      <4>5. Media!ValidHeaders(SubSeq(s.bytes, s.at[n + 1] + 3, h))
        BY <2>2, <2>6
      <4> HIDE DEF h, block
      <4> DEFINE p == Boundary(s, v)  c == Consumed(v, a)
      <4> HIDE DEF p, c
      <4>6. p = s.at[n + 1] /\ c = h + 4 /\ v.current = made
        BY <3>3, <3>4, <3>5 DEF p, c
      <4>7. /\ Media!Occurs(s.bytes, Media!LineEnd, p) /\ Media!First(s.bytes, Media!HeadersEnd, p + 2, h)
            /\ Media!ValidHeaders(SubSeq(s.bytes, p + 3, h)) /\ v.current.header = s.bytes[p + 3]
        BY <1>1, <2>3, <3>2, <4>5, <4>6
      <4>8. h + 4 <= c /\ v.current.data = Window(s.bytes, h + 4, c)
        BY <3>2, <4>1, <4>4, <4>6
      <4>9. \A j \in (h + 4)..(c - 1) : ~Media!Occurs(s.bytes, Media!Marker, j)
        BY <4>4, <4>6
      <4>10. QED BY <4>2, <4>3, <4>7, <4>8, <4>9 DEF InBody, p, c
    <3>8. Parsing(s, v, a)
      <4> HIDE DEF h
      <4>1. QED BY <1>1, <2>1, <3>3, <3>4, <3>6, <3>7 DEF Parsing
    <3>9. Sound(s, w, v, a)
      BY <3>3, <3>4, <3>8 DEF Sound, Good
    <3>10. Media!Headers(w) = [w EXCEPT !.current = Media!headersFromBlock(block),
               !.buffer = Media!Drop(@, end + Len(Media!HeadersEnd)), !.state = "body"]
      BY <2>4, <2>6 DEF Media!Headers, end
    <3>11. Media!Headers(w) = v
      BY <3>10, Texts DEF v, b, made
    <3>12. QED BY <3>9, <3>11
  <2>7. QED BY <2>5, <2>6
<1>8. QED BY <1>2, <1>6, <1>7

\* In a whole request the body that is being read is the next part's.
LEMMA BodyOf ==
  ASSUME NEW s \in Streams, s.whole, NEW a, NEW w, Len(w.parts) \in 0..Len(s.parts),
         NEW h \in 0..Len(s.bytes), InBody(s, w, a, h)
  PROVE  Len(w.parts) < Len(s.parts) /\ PartAt(s, Len(w.parts), h)
<1> DEFINE n == Len(w.parts)
<1>1. n \in 0..Len(s.parts)
  OBVIOUS
<1>2. /\ Media!Occurs(s.bytes, Media!LineEnd, s.at[n + 1])
      /\ Media!First(s.bytes, Media!HeadersEnd, s.at[n + 1] + 2, h)
  BY DEF InBody, Boundary
<1> HIDE DEF n
<1>3. Len(s.parts) \in Nat
  BY RequestTypes
<1>4. n < Len(s.parts) /\ n \in Nat
  <2>1. n # Len(s.parts)
    BY <1>1, <1>2, Follows
  <2>2. QED BY <1>1, <1>3, <2>1
<1>5. PICK k \in 0..Len(s.bytes) : PartAt(s, n, k)
  BY <1>4, PartThere
<1>6. /\ s.at[n + 1] \in Nat
      /\ Media!First(s.bytes, Media!HeadersEnd, s.at[n + 1] + 2, k)
  BY <1>4, <1>5, HeadersOf
<1>7. k = h
  <2>1. s.at[n + 1] + 2 \in Int
    BY <1>6
  <2>2. k \in Int /\ h \in Int
    OBVIOUS
  <2>3. QED BY <1>2, <1>6, <2>1, <2>2, FirstUnique
<1>8. QED BY <1>4, <1>5, <1>7 DEF n

\* The first k bytes of the buffer go to the part, or it has become too large.
LEMMA AppendSound ==
  ASSUME NEW s \in Streams, NEW a \in 0..Len(s.bytes), NEW w \in WorkType, Parsing(s, w, a),
         w.state = "body", ~w.more, NEW h \in 0..Len(s.bytes), InBody(s, w, a, h),
         NEW k \in 0..Len(w.buffer),
         \A j \in (h + 4)..(Consumed(w, a) + k - 1) : ~Media!Occurs(s.bytes, Media!Marker, j),
         NEW v, v = Media!Append_(w, Media!Take(w.buffer, k))
  PROVE  \/ v = Media!Fail(w) /\ ~Media!Fits(s)
         \/ /\ v \in WorkType /\ v.state = "body" /\ ~v.more /\ v.buffer = w.buffer /\ v.parts = w.parts
            /\ v.current.header = w.current.header
            /\ v.current.data = Window(s.bytes, h + 4, Consumed(w, a) + k)
            /\ Len(v.current.data) <= MaxPartBytes /\ Sized(v.current) /\ Found(s, v)
<1> DEFINE c == Consumed(w, a)  n == Len(w.parts)  chunk == Media!Take(w.buffer, k)
           size == Len(w.current.data) + Len(chunk)
           moves == w.current.header = "file" /\ chunk # <<>> /\ size > FileMemoryBytes
           data == Window(s.bytes, h + 4, c + k)
<1>1. s.bytes \in Seq(Media!Bytes)
  BY RequestTypes
<1>2. c \in 0..a /\ Len(w.buffer) = a - c /\ w.buffer = Window(s.bytes, c, a) /\ n \in 0..Len(s.parts)
  BY WorkSays
<1>3. h + 4 <= c /\ w.current.data = Window(s.bytes, h + 4, c) /\ Sized(w.current)
  BY DEF InBody
<1>4. w.current \in PartType /\ Found(s, w) /\ n \in Nat
  BY DEF WorkType, Parsing
<1>5. \A j \in (h + 4)..(c + k - 1) : ~Media!Occurs(s.bytes, Media!Marker, j)
  OBVIOUS
<1> HIDE DEF c, n
<1>6. /\ c \in Nat /\ c + k <= a /\ c + k \in Nat /\ c + k <= Len(s.bytes)
      /\ c + k \in 0..Len(s.bytes) /\ h + 4 \in 0..(c + k) /\ c \in (h + 4)..(c + k) /\ k \in 0..(a - c)
      /\ h \in Nat /\ k \in Nat
  <2>1. Len(s.bytes) \in Nat
    BY <1>1
  <2>2. QED BY <1>2, <1>3, <2>1
<1>7. chunk = Window(s.bytes, c, c + k)
  BY <1>1, <1>2, <1>6, Consume
<1>8. chunk \in Seq(Media!Bytes) /\ Len(chunk) = k
  <2>1. c \in 0..(c + k) /\ c + k - c = k
    BY <1>6
  <2>2. Window(s.bytes, c, c + k) \in Seq(Media!Bytes)
    BY <1>1, <1>6, <2>1, WindowSays
  <2>3. Len(Window(s.bytes, c, c + k)) = k
    BY <1>1, <1>6, <2>1, WindowLength
  <2>4. QED BY <1>7, <2>2, <2>3
<1>9. w.current.data \o chunk = data
  BY <1>1, <1>3, <1>6, <1>7, Join
<1>10. data \in Seq(Media!Bytes) /\ Len(data) = c + k - (h + 4)
  <2>1. data \in Seq(Media!Bytes)
    BY <1>1, <1>6, WindowSays
  <2>2. Len(data) = c + k - (h + 4)
    <3>1. c + k - (h + 4) \in Nat /\ c + k = h + 4 + (c + k - (h + 4)) /\ h + 4 \in Nat
      BY <1>6
    <3>2. QED BY ZenonT(60), <1>1, <1>6, <3>1, WindowLength
  <2>3. QED BY <2>1, <2>2
<1>11. Len(w.current.data) = c - (h + 4) /\ size = Len(data) /\ Len(w.current.data) \in Nat
  <2>1. c \in 0..Len(s.bytes) /\ h + 4 \in 0..c
    BY <1>6
  <2>2. Len(Window(s.bytes, h + 4, c)) = c - (h + 4)
    BY <1>1, <2>1, WindowSays
  <2> HIDE DEF data, chunk
  <2>3. Len(w.current.data) = c - (h + 4)
    BY <1>3, <2>2
  <2>4. QED BY <1>6, <1>8, <1>10, <2>3
<1> HIDE DEF chunk, size, data
<1>12. CASE size > MaxPartBytes
  <2>1. ASSUME Media!Fits(s) PROVE FALSE
    <3>1. s.whole
      BY <2>1, FitsSays
    <3>2. n < Len(s.parts) /\ PartAt(s, n, h)
      BY <1>2, <3>1, BodyOf DEF n
    <3> DEFINE q == s.at[n + 2]
    <3>3. /\ q \in Nat /\ q <= Len(s.bytes)
          /\ Media!First(s.bytes, Media!Marker, h + 4, q - 5)
          /\ s.parts[n + 1].data = Window(s.bytes, h + 4, q - 5)
      BY <1>4, <3>2, HeadersOf
    <3> HIDE DEF q
    <3>4. q - 5 >= h + 4 /\ Media!Occurs(s.bytes, Media!Marker, q - 5)
      BY <3>3 DEF Media!First
    <3>5. q - 5 >= c + k
      <4>1. ~(q - 5 \in (h + 4)..(c + k - 1))
        BY <3>4, <1>5
      <4>2. QED BY <1>6, <3>3, <3>4, <4>1
    <3>6. Len(Window(s.bytes, h + 4, q - 5)) = q - 5 - (h + 4)
      <4>1. q - 5 \in 0..Len(s.bytes) /\ h + 4 \in 0..(q - 5)
        BY <1>6, <3>3, <3>4
      <4>2. QED BY <1>1, <4>1, WindowSays
    <3>7. Len(s.parts[n + 1].data) <= MaxPartBytes
      BY <1>4, <2>1, <3>2, FitsSays
    <3>8. q - 5 - (h + 4) <= MaxPartBytes
      BY <3>3, <3>6, <3>7
    <3>9. QED BY <1>6, <1>10, <1>11, <1>12, <3>3, <3>5, <3>8, LimitsSay
  <2>2. v = Media!Fail(w)
    BY <1>12 DEF Media!Append_, size, chunk
  <2>3. QED BY <2>1, <2>2
<1>13. CASE ~(size > MaxPartBytes)
  <2> DEFINE made == [header |-> w.current.header, data |-> data, file |-> w.current.file \/ moves]
             files == IF moves THEN w.spills \cup {n + 1} ELSE w.spills
             u == [w EXCEPT !.current = made, !.spills = files]
  <2>1. v = u
    <3>1. v = [w EXCEPT !.current = [header |-> @.header, data |-> @.data \o chunk,
                                      file |-> @.file \/ moves],
                        !.spills = IF moves THEN @ \cup {Len(w.parts) + 1} ELSE @]
      BY <1>13 DEF Media!Append_, size, chunk
    <3>2. QED BY <3>1, <1>9 DEF n
  <2>2. made \in PartType /\ files \in SUBSET Nat
    <3>1. w.current.header \in Media!Bytes \cup {"none"} /\ w.current.file \in BOOLEAN
      BY <1>4 DEF PartType
    <3>2. made \in PartType
      BY <1>10, <3>1 DEF PartType
    <3>3. files \in SUBSET Nat
      BY <1>4 DEF WorkType
    <3>4. QED BY <3>2, <3>3
  <2>3. made.header = w.current.header /\ made.data = data /\ (made.file <=> w.current.file \/ moves)
    OBVIOUS
  <2>4. Sized(made)
    <3>1. chunk = <<>> => Len(data) = Len(w.current.data)
      BY <1>6, <1>8, <1>10, <1>11
    <3>2. Len(w.current.data) <= Len(data)
      BY <1>6, <1>10, <1>11
    <3>3. Len(data) \in Nat
      BY <1>10
    <3>4. moves <=> w.current.header = "file" /\ chunk # <<>> /\ Len(data) > FileMemoryBytes
      BY <1>11
    <3> HIDE DEF made, moves
    <3>5. QED BY <1>3, <1>11, <2>3, <3>1, <3>2, <3>3, <3>4, LimitsSay DEF Sized
  <2>5. Len(data) <= MaxPartBytes
    BY <1>10, <1>11, <1>13, LimitsSay
  <2>6. w.spills = {i \in 1..n : w.parts[i].file} \cup (IF w.current.file THEN {n + 1} ELSE {})
    BY <1>4 DEF Found, n
  <2>7. files = {i \in 1..n : w.parts[i].file} \cup (IF made.file THEN {n + 1} ELSE {})
    <3>1. CASE moves
      BY <2>3, <2>6, <3>1
    <3>2. CASE ~moves
      BY <2>3, <2>6, <3>2
    <3>3. QED BY <3>1, <3>2
  <2> HIDE DEF made, files
  <2>8. /\ u \in WorkType /\ u.buffer = w.buffer /\ u.state = "body" /\ u.current = made
        /\ u.parts = w.parts /\ u.spills = files /\ ~u.more
    BY <2>2 DEF WorkType
  <2> HIDE DEF u
  <2>9. Found(s, u)
    BY <1>4, <2>7, <2>8 DEF Found, n
  <2>10. QED BY <2>1, <2>3, <2>4, <2>5, <2>8, <2>9 DEF data, c
<1>14. QED BY <1>12, <1>13

\* The boundary after a body is found: the part is the next of the request.
LEMMA FinishSound ==
  ASSUME NEW s \in Streams, NEW a \in 0..Len(s.bytes), NEW x \in WorkType,
         ~x.more, Found(s, x), Sized(x.current), s.at # <<>>,
         Len(x.buffer) <= a, x.buffer = Window(s.bytes, Consumed(x, a), a),
         NEW h \in 0..Len(s.bytes), Media!Framed(s.bytes, Boundary(s, x), h, Consumed(x, a)),
         x.current.header = s.bytes[Boundary(s, x) + 3],
         x.current.data = Window(s.bytes, h + 4, Consumed(x, a) - 5)
  PROVE  /\ Good(s, Media!FinishPart(x), a)
         /\ Media!Returns(Media!FinishPart(x)) \/ Media!FinishPart(x).buffer = x.buffer
<1> DEFINE n == Len(x.parts)  q == Consumed(x, a)
<1>1. n \in Nat /\ n <= Len(s.parts) /\ Len(s.parts) \in Nat /\ n \in 0..Len(s.parts)
  <2>1. n \in Nat /\ n <= Len(s.parts)
    BY DEF WorkType, Found
  <2>2. Len(s.parts) \in Nat
    BY RequestTypes
  <2>3. QED BY <2>1, <2>2
<1>2. q \in 0..Len(s.bytes)
  <2>1. Len(x.buffer) \in Nat /\ Len(s.bytes) \in Nat
    BY RequestTypes DEF WorkType
  <2>2. QED BY <2>1 DEF Consumed
<1>3. Boundary(s, x) = s.at[n + 1]
  BY DEF Boundary
<1>4. x.buffer = Window(s.bytes, q, a)
  OBVIOUS
<1>5. n < Len(s.parts) /\ s.at[n + 2] = q /\ PartAt(s, n, h)
  <2> HIDE DEF q, n
  <2>1. Media!Framed(s.bytes, s.at[n + 1], h, q)
    BY <1>3 DEF q
  <2>2. QED BY <1>1, <1>2, <2>1, PartHere
<1>6. x.current.header = s.parts[n + 1].header /\ x.current.data = s.parts[n + 1].data
  <2> HIDE DEF n
  <2>1. /\ s.parts[n + 1].header = s.bytes[s.at[n + 1] + 3]
        /\ s.parts[n + 1].data = Window(s.bytes, h + 4, s.at[n + 2] - 5)
    BY <1>1, <1>5, HeadersOf
  <2>2. QED BY <1>3, <1>5, <2>1
<1>7. CASE n + 1 > MaxParts
  <2>1. ASSUME Media!Fits(s) PROVE FALSE
    BY <1>1, <1>5, <1>7, <2>1, FitsSays, LimitsSay
  <2>2. Media!FinishPart(x) = Media!Fail(x)
    BY <1>7 DEF Media!FinishPart
  <2>3. QED BY <2>1, <2>2, Failing
<1>8. CASE ~(n + 1 > MaxParts)
  <2> DEFINE ps == Append(x.parts, x.current)
             u == [x EXCEPT !.parts = ps, !.current = Media!NoPart, !.state = "suffix"]
  <2>1. Media!FinishPart(x) = u
    BY <1>8 DEF Media!FinishPart
  <2>2. x.parts \in Seq(PartType) /\ x.current \in PartType
    BY DEF WorkType
  <2>3. /\ ps \in Seq(PartType) /\ Len(ps) = n + 1 /\ ps[n + 1] = x.current
        /\ \A i \in 1..n : ps[i] = x.parts[i]
    BY <2>2
  <2> HIDE DEF ps
  <2>4. ~Media!NoPart.file
    BY DEF Media!NoPart
  <2>5. x.buffer \in Seq(Media!Bytes) /\ x.spills \in SUBSET Nat /\ x.more \in BOOLEAN
    BY DEF WorkType
  <2>6. /\ u.buffer = x.buffer /\ u.state = "suffix" /\ u.current = Media!NoPart
        /\ u.parts = ps /\ u.spills = x.spills /\ ~u.more
    BY DEF WorkType
  <2>7. u \in WorkType
    <3>1. Media!NoPart \in PartType
      BY DEF Media!NoPart, PartType
    <3>2. QED BY <2>3, <3>1 DEF WorkType
  <2> HIDE DEF u
  <2>8. Consumed(u, a) = q /\ Boundary(s, u) = q
    <3>1. Consumed(u, a) = q
      BY <2>6 DEF Consumed
    <3>2. Boundary(s, u) = s.at[n + 1 + 1] /\ n + 1 + 1 = n + 2
      <4>1. n + 1 + 1 = n + 2
        BY <1>1
      <4>2. QED BY <2>3, <2>6, <4>1 DEF Boundary
    <3>3. QED BY <1>5, <3>1, <3>2
  <2>9. Found(s, u)
    <3> HIDE DEF n
    <3>1. Len(u.parts) = n + 1 /\ n + 1 <= Len(s.parts)
      BY <1>1, <1>5, <2>3, <2>6
    <3>2. ASSUME NEW i \in 1..(n + 1)
          PROVE  /\ u.parts[i].header = s.parts[i].header /\ u.parts[i].data = s.parts[i].data
                 /\ Sized(u.parts[i])
      <4>1. CASE i = n + 1
        BY <1>6, <2>3, <2>6, <4>1
      <4>2. CASE i # n + 1
        <5>1. i \in 1..n
          BY <1>1, <3>2, <4>2
        <5>2. QED BY <2>3, <2>6, <5>1 DEF Found, n
      <4>3. QED BY <4>1, <4>2
    <3>3. x.spills = {i \in 1..n : x.parts[i].file} \cup (IF x.current.file THEN {n + 1} ELSE {})
      BY DEF Found, n
    <3>4. u.spills = {i \in 1..(n + 1) : u.parts[i].file}
      <4>1. 1..(n + 1) = 1..n \cup {n + 1}
        BY <1>1
      <4>2. \A i \in 1..n : u.parts[i] = x.parts[i]
        BY <2>3, <2>6
      <4>3. u.parts[n + 1] = x.current
        BY <2>3, <2>6
      <4>4. QED BY <2>6, <3>3, <4>1, <4>2, <4>3, Zenon
    <3>5. QED BY <2>4, <2>6, <3>1, <3>2, <3>4 DEF Found
  <2>10. Parsing(s, u, a)
    BY <1>4, <2>6, <2>8, <2>9 DEF Parsing
  <2>11. QED BY <2>1, <2>6, <2>7, <2>10 DEF Good
<1>9. QED BY <1>7, <1>8

\* A body: to the next boundary, or all but the bytes that may begin one.
LEMMA BodySound ==
  ASSUME NEW s \in Streams, NEW a \in 0..Len(s.bytes), NEW w \in WorkType, Parsing(s, w, a),
         w.state = "body", ~w.more
  PROVE  Sound(s, w, Media!Body(w), a)
<1> DEFINE c == Consumed(w, a)  at == Media!indexOf(w.buffer, Media!Marker)
           len == Len(w.buffer)  loose == len - Media!Held(w)
<1>1. s.bytes \in Seq(Media!Bytes) /\ s.at # <<>> /\ Found(s, w)
  BY RequestTypes DEF Parsing
<1>2. Len(s.bytes) \in Nat
  BY <1>1
<1>3. c \in 0..a /\ len = a - c /\ w.buffer = Window(s.bytes, c, a) /\ Len(w.parts) \in 0..Len(s.parts)
  BY WorkSays
<1>4. PICK h \in 0..Len(s.bytes) : InBody(s, w, a, h)
  BY DEF Parsing
<1>5. /\ h + 4 <= c
      /\ \A j \in (h + 4)..(c - 1) : ~Media!Occurs(s.bytes, Media!Marker, j)
  BY <1>4 DEF InBody
<1>6. \/ /\ at = -1
         /\ \A j \in c..Len(s.bytes) : j + 5 <= a => ~Media!Occurs(s.bytes, Media!Marker, j)
      \/ /\ at \in Nat /\ c + at + 5 <= a
         /\ Media!First(s.bytes, Media!Marker, c, c + at)
  <2> HIDE DEF c
  <2>1. \/ /\ at = -1
           /\ \A j \in c..Len(s.bytes) : j + Len(Media!Marker) <= a => ~Media!Occurs(s.bytes, Media!Marker, j)
        \/ /\ at \in Nat /\ c + at + Len(Media!Marker) <= a
           /\ Media!First(s.bytes, Media!Marker, c, c + at)
    BY <1>1, <1>3, Search, Texts
  <2>2. QED BY <2>1, Texts
<1>7. loose = IF len < 5 THEN 0 ELSE len - 5
  <2>1. len \in Nat
    BY DEF WorkType
  <2>2. Media!Held(w) = IF len < 5 THEN len ELSE 5
    BY Texts DEF Media!Held
  <2> HIDE DEF len
  <2>3. QED BY <2>1, <2>2
<1>8. len \in Nat /\ c \in Nat /\ c <= a /\ a \in Nat /\ a <= Len(s.bytes) /\ h \in Nat
  BY <1>2, <1>3 DEF WorkType
<1>9. len = Len(w.buffer) /\ c = Consumed(w, a)
  OBVIOUS
<1> HIDE DEF c, at, len, loose
<1>10. CASE at = -1 /\ \A j \in c..Len(s.bytes) : j + 5 <= a => ~Media!Occurs(s.bytes, Media!Marker, j)
  <2> DEFINE v == Media!Append_(w, Media!Take(w.buffer, loose))
             b == Media!Drop(v.buffer, loose)
             u == [v EXCEPT !.buffer = b, !.more = TRUE]
  <2>1. loose \in 0..len /\ len - loose <= 5 /\ (loose = 0 \/ c + loose = a - 5) /\ loose \in Nat
    BY <1>3, <1>7, <1>8
  <2>2. Media!Body(w) = IF v.state = "error" THEN v ELSE u
    BY <1>10 DEF Media!Body, at, loose, len
  <2>3. \A j \in (h + 4)..(c + loose - 1) : ~Media!Occurs(s.bytes, Media!Marker, j)
    <3>1. ASSUME NEW j \in (h + 4)..(c + loose - 1) PROVE ~Media!Occurs(s.bytes, Media!Marker, j)
      <4>1. CASE j < c
        <5>1. j \in (h + 4)..(c - 1)
          BY <1>8, <2>1, <4>1
        <5>2. QED BY <1>5, <5>1
      <4>2. CASE ~(j < c)
        <5>1. j \in c..Len(s.bytes) /\ j + 5 <= a
          BY <1>2, <1>5, <1>8, <2>1, <4>2
        <5>2. QED BY <1>10, <5>1
      <4>3. QED BY <4>1, <4>2
    <3>2. QED BY <3>1
  <2>4. \/ v = Media!Fail(w) /\ ~Media!Fits(s)
        \/ /\ v \in WorkType /\ v.state = "body" /\ ~v.more /\ v.buffer = w.buffer /\ v.parts = w.parts
           /\ v.current.header = w.current.header
           /\ v.current.data = Window(s.bytes, h + 4, c + loose)
           /\ Len(v.current.data) <= MaxPartBytes /\ Sized(v.current) /\ Found(s, v)
    <3>1. loose \in 0..Len(w.buffer)
      BY <1>9, <2>1
    <3>2. \A j \in (h + 4)..(Consumed(w, a) + loose - 1) : ~Media!Occurs(s.bytes, Media!Marker, j)
      BY <1>9, <2>3
    <3> HIDE DEF v
    <3>3. v = Media!Append_(w, Media!Take(w.buffer, loose))
      BY DEF v
    <3>4. QED BY <1>4, <1>9, <3>1, <3>2, <3>3, AppendSound
  <2> HIDE DEF v
  <2>5. CASE v = Media!Fail(w) /\ ~Media!Fits(s)
    <3>1. v.state = "error"
      BY <2>5 DEF Media!Fail, WorkType
    <3>2. QED BY <2>2, <2>5, <3>1, Failing DEF Sound
  <2>6. CASE /\ v \in WorkType /\ v.state = "body" /\ ~v.more /\ v.buffer = w.buffer /\ v.parts = w.parts
             /\ v.current.header = w.current.header
             /\ v.current.data = Window(s.bytes, h + 4, c + loose)
             /\ Len(v.current.data) <= MaxPartBytes /\ Sized(v.current) /\ Found(s, v)
    <3>1. b \in Seq(Media!Bytes) /\ Len(b) = len - loose /\ b = Window(s.bytes, c + loose, a)
      BY SMTT(30), <1>9, <2>1, <2>6, Taken
    <3> HIDE DEF b
    <3>2. /\ u \in WorkType /\ u.buffer = b /\ u.state = "body" /\ u.more /\ u.current = v.current
          /\ u.parts = w.parts /\ u.spills = v.spills
      BY <2>6, <3>1 DEF WorkType
    <3> HIDE DEF u
    <3>3. Consumed(u, a) = c + loose /\ Len(u.buffer) <= 5 /\ Len(u.buffer) <= a
      BY <1>3, <1>8, <2>1, <3>1, <3>2 DEF Consumed
    <3>4. Boundary(s, u) = Boundary(s, w)
      BY <3>2 DEF Boundary
    <3>5. Found(s, u)
      BY <2>6, <3>2 DEF Found
    <3>6. h + 4 <= c + loose
      BY <1>5, <1>8, <2>1
    <3>7. InBody(s, u, a, h)
      <4>1. /\ Media!Occurs(s.bytes, Media!LineEnd, Boundary(s, w))
            /\ Media!First(s.bytes, Media!HeadersEnd, Boundary(s, w) + 2, h)
            /\ Media!ValidHeaders(SubSeq(s.bytes, Boundary(s, w) + 3, h))
            /\ w.current.header = s.bytes[Boundary(s, w) + 3]
        BY <1>4 DEF InBody
      <4>2. u.current.header = w.current.header /\ u.current.data = Window(s.bytes, h + 4, Consumed(u, a))
        BY <2>6, <3>2, <3>3
      <4>3. Len(u.current.data) <= MaxPartBytes /\ Sized(u.current)
        BY <2>6, <3>2
      <4>4. \A j \in (h + 4)..(Consumed(u, a) - 1) : ~Media!Occurs(s.bytes, Media!Marker, j)
        <5>1. ASSUME NEW j \in (h + 4)..(Consumed(u, a) - 1) PROVE ~Media!Occurs(s.bytes, Media!Marker, j)
          <6>1. j \in (h + 4)..(c + loose - 1)
            BY <1>8, <2>1, <3>3, <5>1
          <6>2. QED BY <2>3, <6>1
        <5>2. QED BY <5>1
      <4>5. h + 4 <= Consumed(u, a)
        BY <3>3, <3>6
      <4>6. QED BY <3>4, <4>1, <4>2, <4>3, <4>4, <4>5 DEF InBody
    <3>8. u.buffer = Window(s.bytes, Consumed(u, a), a)
      BY <3>1, <3>2, <3>3
    <3>9. Parsing(s, u, a)
      BY <1>1, <3>2, <3>3, <3>5, <3>7, <3>8 DEF Parsing
    <3>10. \A j \in (c + loose)..Len(s.bytes) : j + 5 <= a => ~Media!Occurs(s.bytes, Media!Marker, j)
      <4>1. \A j \in (c + loose)..Len(s.bytes) : j \in c..Len(s.bytes)
        BY <1>2, <1>8, <2>1
      <4>2. QED BY <1>10, <4>1
    <3>11. Waits(s, u, a)
      BY <3>2, <3>3, <3>10 DEF Waits
    <3>12. QED BY <2>2, <2>6, <3>2, <3>9, <3>11 DEF Sound, Good, Media!Returns
  <2>7. QED BY <2>4, <2>5, <2>6
<1>11. CASE at \in Nat /\ c + at + 5 <= a /\ Media!First(s.bytes, Media!Marker, c, c + at)
  <2> DEFINE v == Media!Append_(w, Media!Take(w.buffer, at))
             b == Media!Drop(v.buffer, at + 5)
             x == [v EXCEPT !.buffer = b]
  <2>1. at \in 0..len /\ at + 5 \in 0..len /\ c + (at + 5) = c + at + 5 /\ ~(at < 0)
    BY <1>3, <1>8, <1>11
  <2>2. Media!Body(w) = IF v.state = "error" THEN v ELSE Media!FinishPart(x)
    <3>1. Media!Body(w) = IF v.state = "error" THEN v
            ELSE Media!FinishPart([v EXCEPT !.buffer = Media!Drop(@, at + Len(Media!Marker))])
      BY <2>1 DEF Media!Body, at
    <3>2. QED BY <3>1, Texts
  <2>3. /\ Media!Occurs(s.bytes, Media!Marker, c + at)
        /\ \A j \in c..(c + at - 1) : ~Media!Occurs(s.bytes, Media!Marker, j)
    BY <1>8, <1>11 DEF Media!First
  <2>4. ASSUME NEW j \in (h + 4)..(c + at - 1) PROVE ~Media!Occurs(s.bytes, Media!Marker, j)
    <3>1. CASE j < c
      <4>1. j \in (h + 4)..(c - 1)
        BY <1>8, <1>11, <3>1
      <4>2. QED BY <1>5, <4>1
    <3>2. CASE ~(j < c)
      <4>1. j \in c..(c + at - 1)
        BY <1>8, <1>11, <3>2
      <4>2. QED BY <2>3, <4>1
    <3>3. QED BY <3>1, <3>2
  <2>5. \/ v = Media!Fail(w) /\ ~Media!Fits(s)
        \/ /\ v \in WorkType /\ v.state = "body" /\ ~v.more /\ v.buffer = w.buffer /\ v.parts = w.parts
           /\ v.current.header = w.current.header
           /\ v.current.data = Window(s.bytes, h + 4, c + at)
           /\ Len(v.current.data) <= MaxPartBytes /\ Sized(v.current) /\ Found(s, v)
    <3>1. at \in 0..Len(w.buffer)
      BY <1>9, <2>1
    <3>2. \A j \in (h + 4)..(Consumed(w, a) + at - 1) : ~Media!Occurs(s.bytes, Media!Marker, j)
      BY <1>9, <2>4
    <3> HIDE DEF v
    <3>3. v = Media!Append_(w, Media!Take(w.buffer, at))
      BY DEF v
    <3>4. QED BY <1>4, <1>9, <3>1, <3>2, <3>3, AppendSound
  <2> HIDE DEF v
  <2>6. CASE v = Media!Fail(w) /\ ~Media!Fits(s)
    <3>1. v.state = "error"
      BY <2>6 DEF Media!Fail, WorkType
    <3>2. QED BY <2>2, <2>6, <3>1, Failing DEF Sound
  <2>7. CASE /\ v \in WorkType /\ v.state = "body" /\ ~v.more /\ v.buffer = w.buffer /\ v.parts = w.parts
             /\ v.current.header = w.current.header
             /\ v.current.data = Window(s.bytes, h + 4, c + at)
             /\ Len(v.current.data) <= MaxPartBytes /\ Sized(v.current) /\ Found(s, v)
    <3>1. b \in Seq(Media!Bytes) /\ Len(b) = len - (at + 5) /\ b = Window(s.bytes, c + at + 5, a)
      <4>1. b = Media!Drop(w.buffer, at + 5)
        BY <2>7
      <4> HIDE DEF b
      <4>2. /\ b \in Seq(Media!Bytes) /\ Len(b) = len - (at + 5)
            /\ b = Window(s.bytes, c + (at + 5), a)
        BY <1>9, <2>1, <4>1, Taken
      <4>3. QED BY <2>1, <4>2
    <3> HIDE DEF b
    <3>2. /\ x \in WorkType /\ x.buffer = b /\ ~x.more /\ x.current = v.current
          /\ x.parts = w.parts /\ x.spills = v.spills
      BY <2>7, <3>1 DEF WorkType
    <3> HIDE DEF x
    <3>3. Consumed(x, a) = c + at + 5 /\ Len(x.buffer) < Len(w.buffer) /\ Len(x.buffer) <= a
      BY SMTT(30), <1>3, <1>8, <1>9, <1>11, <3>1, <3>2 DEF Consumed
    <3>4. Boundary(s, x) = Boundary(s, w)
      BY <3>2 DEF Boundary
    <3>5. Found(s, x)
      BY <2>7, <3>2 DEF Found
    <3>6. c + at + 5 - 5 = c + at /\ c + at >= h + 4
      BY <1>5, <1>8, <1>11
    <3>7. Media!Framed(s.bytes, Boundary(s, x), h, Consumed(x, a))
      <4>1. Media!First(s.bytes, Media!Marker, h + 4, c + at)
        <5>1. \A j \in (h + 4)..(c + at - 1) : ~Media!Occurs(s.bytes, Media!Marker, j)
          BY <2>4
        <5>2. QED BY <1>8, <1>11, <2>3, <3>6, <5>1 DEF Media!First
      <4>2. Boundary(s, w) + 2 + 1 = Boundary(s, w) + 3
        <5>1. Boundary(s, w) \in Nat
          <6>1. s.at \in Seq(Nat) /\ Len(s.at) = Len(s.parts) + 1
            BY <1>1, RequestTypes
          <6>2. Len(w.parts) + 1 \in 1..Len(s.at)
            BY <1>3, <6>1
          <6>3. QED BY <6>1, <6>2 DEF Boundary
        <5>2. QED BY <5>1
      <4>3. /\ Media!Occurs(s.bytes, Media!LineEnd, Boundary(s, w))
            /\ Media!First(s.bytes, Media!HeadersEnd, Boundary(s, w) + 2, h)
            /\ Media!ValidHeaders(SubSeq(s.bytes, Boundary(s, w) + 2 + 1, h))
        BY <1>4, <4>2 DEF InBody
      <4> DEFINE q == c + at + 5  p == Boundary(s, w)
      <4>4. Media!First(s.bytes, Media!Marker, h + 4, q - 5)
        BY <1>8, <1>11, <3>6, <4>1
      <4> HIDE DEF q, p
      <4>5. Media!Framed(s.bytes, p, h, q)
        BY <4>3, <4>4, Texts DEF Media!Framed, p
      <4>6. QED BY <3>3, <3>4, <4>5 DEF p, q
    <3>8. /\ x.current.header = s.bytes[Boundary(s, x) + 3]
          /\ x.current.data = Window(s.bytes, h + 4, Consumed(x, a) - 5) /\ Sized(x.current)
      <4>1. w.current.header = s.bytes[Boundary(s, w) + 3]
        BY <1>4 DEF InBody
      <4>2. Consumed(x, a) - 5 = c + at
        BY <1>8, <1>11, <3>3, <3>6
      <4>3. QED BY <2>7, <3>2, <3>4, <4>1, <4>2, Zenon
    <3>9. x.buffer = Window(s.bytes, Consumed(x, a), a)
      BY <3>1, <3>2, <3>3
    <3>10. /\ Good(s, Media!FinishPart(x), a)
           /\ Media!Returns(Media!FinishPart(x)) \/ Media!FinishPart(x).buffer = x.buffer
      BY <1>1, <3>2, <3>3, <3>5, <3>7, <3>8, <3>9, FinishSound
    <3>11. QED BY <2>2, <2>7, <3>3, <3>10 DEF Sound
  <2>8. QED BY <2>5, <2>6, <2>7
<1>12. QED BY <1>6, <1>10, <1>11

\* A turn is sound, whatever its state.
LEMMA TurnSound ==
  ASSUME NEW s \in Streams, NEW a \in 0..Len(s.bytes), NEW w, Good(s, w, a)
  PROVE  IF Media!Returns(w) THEN Media!Turn(w) = w ELSE Sound(s, w, Media!Turn(w), a)
<1>1. CASE Media!Returns(w)
  BY <1>1 DEF Media!Turn
<1>2. CASE ~Media!Returns(w)
  <2>1. w \in WorkType /\ ~w.more /\ w.state \notin {"done", "error"} /\ Parsing(s, w, a)
    BY <1>2 DEF Good, Media!Returns
  <2>2. w.state \in {"opening", "suffix", "headers", "body"}
    BY <2>1 DEF WorkType
  <2>3. CASE w.state = "opening"
    <3>1. Media!Turn(w) = Media!OpeningStep(w)
      BY <1>2, <2>3 DEF Media!Turn
    <3>2. QED BY <1>2, <2>1, <2>3, <3>1, OpeningSound
  <2>4. CASE w.state = "suffix"
    <3>1. Media!Turn(w) = Media!Suffix(w)
      BY <1>2, <2>4 DEF Media!Turn
    <3>2. QED BY <1>2, <2>1, <2>4, <3>1, SuffixSound
  <2>5. CASE w.state = "headers"
    <3>1. Media!Turn(w) = Media!Headers(w)
      BY <1>2, <2>5 DEF Media!Turn
    <3>2. QED BY <1>2, <2>1, <2>5, <3>1, HeadersSound
  <2>6. CASE w.state = "body"
    <3>1. Media!Turn(w) = Media!Body(w)
      BY <1>2, <2>6 DEF Media!Turn
    <3>2. QED BY <1>2, <2>1, <2>6, <3>1, BodySound
  <2>7. QED BY <2>2, <2>3, <2>4, <2>5, <2>6
<1>3. QED BY <1>1, <1>2

\* After n turns the work is sound, and the loop has returned or taken n bytes off the buffer.
LEMMA TurnsSound ==
  ASSUME NEW s \in Streams, NEW a \in 0..Len(s.bytes), NEW w, Good(s, w, a), NEW n \in Nat
  PROVE  LET v == Media!turns(w)[n]
         IN  Good(s, v, a) /\ (Media!Returns(v) \/ Len(v.buffer) + n <= Len(w.buffer))
<1> DEFINE t == Media!turns(w)
           P(i) == Good(s, t[i], a) /\ (Media!Returns(t[i]) \/ Len(t[i].buffer) + i <= Len(w.buffer))
           T == {i \in Nat : ~P(i)}
<1>1. SUFFICES ASSUME T # {} PROVE FALSE
  OBVIOUS
<1>2. t[0] = w /\ \A i \in Nat : t[i + 1] = Media!Turn(t[i])
  BY TurnsSay
<1>3. w \in WorkType /\ Len(w.buffer) \in Nat
  BY DEF Good, WorkType
<1> HIDE DEF t
<1>4. PICK m \in T : \A k \in T : m <= k
  <2>1. T \in SUBSET Nat
    OBVIOUS
  <2> HIDE DEF T
  <2>2. QED BY <1>1, <2>1, LeastNat
<1>5. P(0)
  BY <1>2, <1>3
<1> DEFINE j == m - 1
<1>6. m # 0 /\ j \in Nat /\ m = j + 1 /\ P(j)
  <2>1. m \in Nat /\ ~P(m)
    BY <1>4
  <2> HIDE DEF P
  <2>2. m # 0
    BY <1>5, <2>1
  <2>3. j \in Nat /\ m = j + 1 /\ ~(m <= j)
    BY <2>1, <2>2
  <2> HIDE DEF j
  <2>4. P(j)
    BY <1>4, <2>3
  <2>5. QED BY <2>2, <2>3, <2>4
<1> HIDE DEF j
<1> DEFINE u == t[j]  v == t[m]
<1>7. v = Media!Turn(u) /\ Good(s, u, a) /\ (Media!Returns(u) \/ Len(u.buffer) + j <= Len(w.buffer))
  BY <1>2, <1>6
<1>8. ~P(m)
  BY <1>4
<1> HIDE DEF u, v
<1>9. ~(Good(s, v, a) /\ (Media!Returns(v) \/ Len(v.buffer) + m <= Len(w.buffer)))
  BY <1>8 DEF v
<1>10. CASE Media!Returns(u)
  <2>1. v = u
    BY <1>7, <1>10, TurnSound
  <2>2. QED BY <1>7, <1>9, <1>10, <2>1
<1>11. CASE ~Media!Returns(u)
  <2>1. Sound(s, u, v, a)
    BY <1>7, <1>11, TurnSound
  <2>2. Good(s, v, a) /\ (Media!Returns(v) \/ Len(v.buffer) < Len(u.buffer))
    BY <2>1 DEF Sound
  <2>3. Len(v.buffer) \in Nat /\ Len(u.buffer) \in Nat
    BY <1>7, <2>2 DEF Good, WorkType
  <2>4. Len(v.buffer) < Len(u.buffer) => Len(v.buffer) + m <= Len(w.buffer)
    <3>1. m = j + 1 /\ j \in Nat
      BY <1>6
    <3>2. Len(u.buffer) + j <= Len(w.buffer)
      BY <1>7, <1>11
    <3> DEFINE x == Len(v.buffer)  y == Len(u.buffer)  z == Len(w.buffer)
    <3>3. x \in Nat /\ y \in Nat /\ z \in Nat /\ y + j <= z
      BY <1>3, <2>3, <3>2
    <3> HIDE DEF x, y, z
    <3>4. x < y => x + m <= z
      BY <3>1, <3>3
    <3>5. QED BY <3>4 DEF x, y, z
  <2>5. QED BY <1>9, <2>2, <2>4
<1>12. QED BY <1>10, <1>11

\* The parser's loop returns before its buffer is used up, at a point that depends on the bytes
\* that have arrived and not on how they were cut; and when it fails, the request was not
\* complete or not within the limits (metaMediaMultipart.js:79-150).
THEOREM ProcessSound ==
  ASSUME NEW s \in Streams, NEW a \in 0..Len(s.bytes), NEW w, Good(s, w, a)
  PROVE  Good(s, Media!process(w), a) /\ Media!Returns(Media!process(w))
<1> DEFINE n == Len(w.buffer) + 1  v == Media!turns(w)[n]
<1>1. n \in Nat /\ Len(w.buffer) \in Nat
  BY DEF Good, WorkType
<1>2. Media!process(w) = v
  BY DEF Media!process
<1>3. Good(s, v, a) /\ (Media!Returns(v) \/ Len(v.buffer) + n <= Len(w.buffer))
  <2> HIDE DEF n
  <2>1. QED BY <1>1, TurnsSound
<1> HIDE DEF v
<1>4. Len(v.buffer) \in Nat
  BY <1>3 DEF Good, WorkType
<1>5. ~(Len(v.buffer) + n <= Len(w.buffer))
  <2> DEFINE x == Len(v.buffer)  z == Len(w.buffer)
  <2>1. x \in Nat /\ z \in Nat /\ n = z + 1
    BY <1>1, <1>4
  <2> HIDE DEF x, z, n
  <2>2. ~(x + n <= z)
    BY <2>1
  <2>3. QED BY <2>2 DEF x, z
<1>6. QED BY <1>2, <1>3, <1>5

-----------------------------------------------------------------------------
(***************************************************************************)
(* The upload: chunk by chunk, to its end.                                 *)
(***************************************************************************)

\* What is known of the work does not depend on whether it has returned.
LEMMA Kept ==
  ASSUME NEW s, NEW a, NEW w, NEW v, Parsing(s, w, a), v.buffer = w.buffer, v.state = w.state,
         v.current = w.current, v.parts = w.parts, v.spills = w.spills
  PROVE  Parsing(s, v, a) /\ (Waits(s, w, a) => Waits(s, v, a))
<1>1. Consumed(v, a) = Consumed(w, a) /\ Boundary(s, v) = Boundary(s, w)
  BY DEF Consumed, Boundary
<1>2. Found(s, v)
  BY DEF Found, Parsing
<1>3. \A h : InBody(s, w, a, h) => InBody(s, v, a, h)
  BY <1>1 DEF InBody
<1>4. Parsing(s, v, a)
  BY <1>1, <1>2, <1>3 DEF Parsing
<1>5. Waits(s, w, a) => Waits(s, v, a)
  BY <1>1 DEF Waits
<1>6. QED BY <1>4, <1>5

\* When more bytes arrive, what is known stays.
LEMMA Extended ==
  ASSUME NEW s \in Streams, NEW a \in 0..Len(s.bytes), NEW b \in a..Len(s.bytes),
         NEW w \in WorkType, NEW v \in WorkType, Parsing(s, w, a), w.state # "error", ~v.more,
         v.buffer = w.buffer \o Window(s.bytes, a, b),
         v.state = w.state, v.current = w.current, v.parts = w.parts, v.spills = w.spills
  PROVE  Good(s, v, b)
<1> DEFINE c == Consumed(w, a)
<1>1. s.bytes \in Seq(Media!Bytes)
  BY RequestTypes
<1>2. c \in 0..a /\ Len(w.buffer) = a - c /\ w.buffer = Window(s.bytes, c, a)
  BY WorkSays
<1>3. w.buffer \in Seq(Media!Bytes)
  BY DEF WorkType
<1>4. c = Consumed(w, a)
  OBVIOUS
<1> HIDE DEF c
<1>5. Len(s.bytes) \in Nat
  BY <1>1
<1>6. b \in Nat /\ a \in Nat /\ a <= b /\ b <= Len(s.bytes) /\ c \in Nat /\ c <= a
  BY <1>2, <1>5
<1>7. v.buffer = Window(s.bytes, c, b)
  <2>1. b \in 0..Len(s.bytes) /\ c \in 0..b /\ a \in c..b
    BY <1>5, <1>6
  <2>2. QED BY <1>1, <1>2, <2>1, Join
<1>8. Len(v.buffer) = b - c
  <2>1. b \in 0..Len(s.bytes) /\ c \in 0..b
    BY <1>5, <1>6
  <2>2. QED BY ZenonT(60), <1>1, <1>7, <2>1, WindowSays
<1>9. Consumed(v, b) = Consumed(w, a) /\ Consumed(v, b) = c
  BY <1>8, <1>4, <1>6 DEF Consumed
<1>10. Boundary(s, v) = Boundary(s, w)
  BY DEF Boundary
<1>11. Found(s, v)
  BY DEF Found, Parsing
<1>12. \A h : InBody(s, w, a, h) => InBody(s, v, b, h)
  BY <1>9, <1>10 DEF InBody
<1>13. Len(v.buffer) <= b /\ v.buffer = Window(s.bytes, Consumed(v, b), b)
  BY <1>7, <1>8, <1>9, <1>6
<1>14. Parsing(s, v, b)
  BY <1>9, <1>10, <1>11, <1>12, <1>13 DEF Parsing
<1>15. QED BY <1>14 DEF Good

\* Of a whole request that has arrived nothing is waited for.
LEMMA WholeIsDone ==
  ASSUME NEW s \in Streams, s.whole, NEW w \in WorkType, Parsing(s, w, Len(s.bytes)),
         w.state \notin {"done", "error"}, Waits(s, w, Len(s.bytes))
  PROVE  FALSE
<1> DEFINE a == Len(s.bytes)  c == Consumed(w, a)  n == Len(w.parts)
<1>1. /\ s.bytes \in Seq(Media!Bytes) /\ s.at # <<>>
      /\ s.parts \in Seq([header : Media!Bytes, data : Seq(Media!Bytes)])
  BY RequestTypes
<1>2. a \in Nat /\ a \in 0..Len(s.bytes)
  BY <1>1
<1>3. c \in 0..a /\ Len(w.buffer) = a - c /\ n \in 0..Len(s.parts) /\ n \in Nat
  BY <1>2, WorkSays
<1>4. Len(s.parts) \in Nat /\ s.at[n + 1] \in Nat /\ Boundary(s, w) = s.at[n + 1]
  BY <1>1, <1>3, Follows DEF Boundary
<1>5. c = Consumed(w, a)
  OBVIOUS
<1> HIDE DEF c, n
<1>6. CASE w.state = "opening"
  <2>1. s.at[1] \in Nat /\ Media!First(s.bytes, Media!Opening, 0, s.at[1] - 3)
    BY <1>1, RequestTypes
  <2>2. s.at[1] - 3 >= 0 /\ Media!Occurs(s.bytes, Media!Opening, s.at[1] - 3)
    BY <2>1 DEF Media!First
  <2>3. s.at[1] - 3 + 3 <= a
    BY <2>2, Texts DEF Media!Occurs
  <2>4. s.at[1] - 3 \in 0..a
    BY <1>2, <2>1, <2>2, <2>3
  <2>5. \A j \in 0..a : j + 3 <= a => ~Media!Occurs(s.bytes, Media!Opening, j)
    BY <1>6 DEF Waits
  <2>6. QED BY <2>2, <2>3, <2>4, <2>5
<1>7. CASE w.state = "suffix"
  <2>1. c = s.at[n + 1] /\ Len(w.buffer) < 2
    BY <1>4, <1>5, <1>7 DEF Parsing, Waits
  <2>2. Media!Occurs(s.bytes, Media!LineEnd, s.at[n + 1]) \/ Media!Occurs(s.bytes, Media!Dashes, s.at[n + 1])
    <3>1. n < Len(s.parts) \/ n = Len(s.parts)
      BY <1>3, <1>4
    <3>2. QED BY <1>3, <3>1, Follows
  <2>3. s.at[n + 1] + 2 <= a
    BY <2>2, Texts DEF Media!Occurs
  <2>4. QED BY <1>2, <1>3, <1>4, <2>1, <2>3
<1>8. CASE w.state = "headers"
  <2>1. c = s.at[n + 1] + 2 /\ Media!Occurs(s.bytes, Media!LineEnd, s.at[n + 1])
    BY <1>4, <1>5, <1>8 DEF Parsing
  <2>2. n < Len(s.parts)
    <3>1. n # Len(s.parts)
      BY <1>3, <2>1, Follows
    <3>2. QED BY <1>3, <1>4, <3>1
  <2>3. PICK h \in 0..Len(s.bytes) : PartAt(s, n, h)
    BY <1>3, <2>2, PartThere
  <2>4. Media!First(s.bytes, Media!HeadersEnd, c, h)
    BY <1>3, <2>1, <2>2, <2>3, HeadersOf
  <2>5. h >= c /\ Media!Occurs(s.bytes, Media!HeadersEnd, h)
    BY <2>4 DEF Media!First
  <2>6. h + 4 <= a
    BY <2>5, Texts DEF Media!Occurs
  <2>7. \A j \in c..a : j + 4 <= a => ~Media!Occurs(s.bytes, Media!HeadersEnd, j)
    BY <1>5, <1>8 DEF Waits
  <2>8. h \in c..a
    BY <1>2, <1>3, <2>5
  <2>9. QED BY <2>5, <2>6, <2>7, <2>8
<1>9. CASE w.state = "body"
  <2>1. PICK h \in 0..Len(s.bytes) : InBody(s, w, a, h)
    BY <1>9 DEF Parsing
  <2>2. n < Len(s.parts) /\ PartAt(s, n, h)
    BY <1>3, <2>1, BodyOf DEF n
  <2> DEFINE q == s.at[n + 2]
  <2>3. q \in Nat /\ q <= a /\ Media!First(s.bytes, Media!Marker, h + 4, q - 5)
    BY <1>3, <2>2, HeadersOf
  <2> HIDE DEF q
  <2>4. q - 5 >= h + 4 /\ Media!Occurs(s.bytes, Media!Marker, q - 5)
    BY <2>3 DEF Media!First
  <2>5. \A j \in (h + 4)..(c - 1) : ~Media!Occurs(s.bytes, Media!Marker, j)
    BY <1>5, <2>1 DEF InBody
  <2>6. \A j \in c..a : j + 5 <= a => ~Media!Occurs(s.bytes, Media!Marker, j)
    BY <1>5, <1>9 DEF Waits
  <2>7. q - 5 \in (h + 4)..(c - 1) \/ (q - 5 \in c..a /\ q - 5 + 5 <= a)
    BY <1>2, <1>3, <2>3, <2>4
  <2>8. QED BY <2>4, <2>5, <2>6, <2>7
<1>10. QED BY <1>6, <1>7, <1>8, <1>9 DEF WorkType

\* The fields of the work between chunks, and their types.
LEMMA WorkIs ==
  /\ MediaWork.buffer = buffer /\ MediaWork.state = state /\ MediaWork.current = current
  /\ MediaWork.parts = parts /\ MediaWork.spills = spilled /\ ~MediaWork.more
BY DEF MediaWork, Media!Work

LEMMA WorkNext ==
  /\ MediaWork'.buffer = buffer' /\ MediaWork'.state = state' /\ MediaWork'.current = current'
  /\ MediaWork'.parts = parts' /\ MediaWork'.spills = spilled' /\ ~MediaWork'.more
BY DEF MediaWork, Media!Work

LEMMA WorkTyped ==
  /\ MediaWork \in WorkType <=>
       /\ buffer \in Seq(Media!Bytes) /\ state \in {"opening", "suffix", "headers", "body", "done", "error"}
       /\ current \in PartType /\ parts \in Seq(PartType) /\ spilled \in SUBSET Nat
  /\ MediaWork' \in WorkType <=>
       /\ buffer' \in Seq(Media!Bytes) /\ state' \in {"opening", "suffix", "headers", "body", "done", "error"}
       /\ current' \in PartType /\ parts' \in Seq(PartType) /\ spilled' \in SUBSET Nat
BY DEF MediaWork, Media!Work, WorkType

\* The invariant holds at first, and every step keeps it.
LEMMA UploadInit == Media!Init => MediaInv
<1> SUFFICES ASSUME Media!Init PROVE MediaInv
  OBVIOUS
<1>1. /\ sent \in Streams /\ rest = sent.bytes /\ buffer = <<>> /\ state = "opening"
      /\ current = Media!NoPart /\ parts = <<>> /\ spilled = {} /\ result = "parsing"
  BY DEF Media!Init
<1>2. sent.bytes \in Seq(Media!Bytes) /\ Len(sent.bytes) \in Nat
  BY <1>1, RequestTypes
<1>3. Arrived = 0
  BY <1>1, <1>2 DEF Arrived
<1>4. Window(sent.bytes, 0, Len(sent.bytes)) = sent.bytes
  <2> DEFINE all == Window(sent.bytes, 0, Len(sent.bytes))
  <2>1. /\ all \in Seq(Media!Bytes) /\ Len(all) = Len(sent.bytes) - 0
        /\ \A i \in 1..(Len(sent.bytes) - 0) : all[i] = sent.bytes[0 + i]
    <3>1. Len(sent.bytes) \in 0..Len(sent.bytes) /\ 0 \in 0..Len(sent.bytes)
      BY <1>2
    <3>2. QED BY ZenonT(60), <1>2, <3>1, WindowSays
  <2> HIDE DEF all
  <2>2. Len(all) = Len(sent.bytes) /\ \A i \in 1..Len(all) : all[i] = sent.bytes[i]
    BY <1>2, <2>1
  <2>3. all = sent.bytes
    BY <1>2, <2>1, <2>2, SameSeq
  <2>4. QED BY <2>3 DEF all
<1>5. Window(sent.bytes, 0, 0) = <<>>
  BY <1>2 DEF Window
<1> DEFINE w == MediaWork
<1>6. /\ w.buffer = <<>> /\ w.state = "opening" /\ w.current = Media!NoPart
      /\ w.parts = <<>> /\ w.spills = {} /\ ~w.more
  BY <1>1, WorkIs
<1>7. w \in WorkType
  <2>1. Media!NoPart \in PartType
    BY DEF Media!NoPart, PartType
  <2>2. QED BY <1>1, <2>1, WorkTyped
<1> HIDE DEF w
<1>8. Consumed(w, 0) = 0 /\ Len(w.buffer) = 0 /\ Len(w.parts) = 0
  <2>1. Len(w.buffer) = 0 /\ Len(w.parts) = 0
    BY <1>6
  <2>2. QED BY <2>1 DEF Consumed
<1>9. Found(sent, w)
  <2>1. Len(sent.parts) \in Nat
    BY <1>1, RequestTypes
  <2>2. ~Media!NoPart.file
    BY DEF Media!NoPart
  <2>3. 1..Len(w.parts) = {}
    BY <1>8
  <2>4. QED BY <1>6, <1>8, <2>1, <2>2, <2>3 DEF Found
<1>10. Parsing(sent, w, 0)
  <2>1. \A j \in 0..(0 - 1) : FALSE
    OBVIOUS
  <2>2. QED BY <1>5, <1>6, <1>8, <1>9, <2>1 DEF Parsing
<1>11. Waits(sent, w, 0)
  <2>1. \A j \in 0..Len(sent.bytes) : ~(j + 3 <= 0)
    BY <1>2
  <2>2. QED BY <1>6, <1>8, <2>1 DEF Waits
<1>12. Len(buffer) <= MaxHeaderBytes
  BY <1>1, LimitsSay
<1>13. QED BY <1>1, <1>2, <1>3, <1>4, <1>7, <1>10, <1>11, <1>12 DEF MediaInv, w

\* What an upload has been through when its files are deleted.
LEMMA Cleaned ==
  ASSUME MediaInv, spilled' = {}, UNCHANGED <<sent, buffer, state, current, parts>>,
         result' \in {"cleaned", "error", "broken"}, result' = "error" => ~Media!Fits(sent),
         rest' \in Seq(Media!Bytes), Len(rest') <= Len(sent.bytes), rest' = Window(sent.bytes, Arrived', Len(sent.bytes))
  PROVE  MediaInv'
<1>1. MediaWork' \in WorkType
  BY WorkTyped DEF MediaInv
<1>2. QED BY <1>1 DEF MediaInv

\* A chunk: the loop has either failed, and rightly, or waits for the next one.
LEMMA ChunkSound ==
  ASSUME MediaInv, NEW n \in ChunkSizes, Media!Chunk(n)
  PROVE  MediaInv'
<1> DEFINE s == sent  a == Arrived
           size == IF n > Len(rest) THEN Len(rest) ELSE n
           next == Media!Take(rest, size)
           w == MediaWork
           v == Media!Work(buffer \o next)
           u == Media!process(v)
           b == a + size
<1>1. /\ s \in Streams /\ w \in WorkType /\ state # "error" /\ result = "parsing" /\ rest # <<>>
      /\ Parsing(s, w, a) /\ rest \in Seq(Media!Bytes) /\ Len(rest) <= Len(s.bytes) /\ rest = Window(s.bytes, a, Len(s.bytes))
  BY DEF MediaInv, Media!Chunk
<1>2. /\ s.bytes \in Seq(Media!Bytes) /\ Len(s.bytes) \in Nat /\ a = Len(s.bytes) - Len(rest)
  BY <1>1, RequestTypes DEF Arrived
<1>3. rest \in Seq(Media!Bytes) /\ Len(rest) \in Nat /\ a \in 0..Len(s.bytes)
  <2>1. Len(rest) \in Nat
    BY <1>1
  <2>2. Len(rest) <= Len(s.bytes) /\ rest \in Seq(Media!Bytes)
    BY <1>1
  <2> HIDE DEF a, s
  <2>3. a \in 0..Len(s.bytes)
    BY <1>2, <2>1, <2>2
  <2>4. QED BY <2>1, <2>2, <2>3
<1>4. size \in 1..Len(rest)
  <2>1. n \in Nat \ {0} /\ Len(rest) # 0
    BY <1>1, <1>3, LimitsSay
  <2>2. QED BY <1>3, <2>1
<1>5. b \in a..Len(s.bytes) /\ b \in 0..Len(s.bytes) /\ size \in 0..(Len(s.bytes) - a)
  <2> HIDE DEF size, a, s
  <2>1. QED BY <1>2, <1>3, <1>4
<1>6. next = Window(s.bytes, a, b) /\ Media!Drop(rest, size) = Window(s.bytes, b, Len(s.bytes))
      /\ Len(Media!Drop(rest, size)) = Len(s.bytes) - b
  <2> HIDE DEF size, a, s
  <2>1. Len(s.bytes) \in 0..Len(s.bytes) /\ a \in 0..Len(s.bytes) /\ b \in 0..Len(s.bytes)
    BY <1>2, <1>3, <1>5
  <2>2. /\ Media!Drop(Window(s.bytes, a, Len(s.bytes)), size) = Window(s.bytes, a + size, Len(s.bytes))
        /\ Media!Take(Window(s.bytes, a, Len(s.bytes)), size) = Window(s.bytes, a, a + size)
    BY ZenonT(60), <1>2, <1>5, <2>1, Consume
  <2>3. Len(Window(s.bytes, b, Len(s.bytes))) = Len(s.bytes) - b
    BY <1>2, <2>1, WindowSays
  <2>4. QED BY <1>1, <2>2, <2>3
<1>7. Good(s, v, b)
  <2>1. v.buffer = w.buffer \o Window(s.bytes, a, b) /\ v.state = w.state /\ v.current = w.current
        /\ v.parts = w.parts /\ v.spills = w.spills /\ ~v.more
    <3> HIDE DEF next, a, b, s
    <3>1. QED BY <1>6 DEF Media!Work, MediaWork
  <2>2. next \in Seq(Media!Bytes)
    <3> HIDE DEF next, a, b, s
    <3>1. QED BY <1>2, <1>3, <1>5, <1>6, WindowSays
  <2>3. buffer \in Seq(Media!Bytes) /\ current \in PartType /\ parts \in Seq(PartType)
        /\ spilled \in SUBSET Nat /\ state \in {"opening", "suffix", "headers", "body", "done", "error"}
    BY <1>1, WorkTyped
  <2>4. buffer \o next \in Seq(Media!Bytes)
    <3> HIDE DEF next
    <3>1. QED BY <2>2, <2>3
  <2>5. v \in WorkType
    <3> HIDE DEF next
    <3>1. QED BY <2>3, <2>4 DEF Media!Work, WorkType
  <2>6. w.state # "error"
    BY <1>1, WorkIs
  <2> HIDE DEF v, w, a, b, s
  <2>7. QED BY <1>1, <1>3, <1>5, <2>1, <2>5, <2>6, Extended
<1>8. Good(s, u, b) /\ Media!Returns(u)
  <2> HIDE DEF v, a, b, s
  <2>1. QED BY <1>1, <1>5, <1>7, ProcessSound
<1>9. /\ rest' = Media!Drop(rest, size) /\ sent' = s
      /\ IF b > MaxBytes \/ u.state = "error"
         THEN result' = "error" /\ spilled' = {} /\ UNCHANGED <<buffer, state, current, parts>>
         ELSE /\ buffer' = u.buffer /\ state' = u.state /\ current' = u.current
              /\ parts' = u.parts /\ spilled' = u.spills /\ result' = result
  BY DEF Media!Chunk, Media!cleanup, Arrived
<1>10. /\ rest' = Window(s.bytes, b, Len(s.bytes)) /\ Len(rest') = Len(s.bytes) - b
       /\ Arrived' = b /\ Len(rest') <= Len(s.bytes) /\ rest' \in Seq(Media!Bytes)
  <2>1. rest' = Window(s.bytes, b, Len(s.bytes)) /\ Len(rest') = Len(s.bytes) - b
    BY <1>6, <1>9
  <2>2. Arrived' = Len(s.bytes) - Len(rest')
    BY <1>9 DEF Arrived
  <2> HIDE DEF b, s
  <2>3. rest' \in Seq(Media!Bytes)
    <3>1. Len(s.bytes) \in 0..Len(s.bytes) /\ b \in 0..Len(s.bytes)
      BY <1>2, <1>5
    <3>2. Window(s.bytes, b, Len(s.bytes)) \in Seq(Media!Bytes)
      BY <1>2, <3>1, WindowSays
    <3>3. QED BY <2>1, <3>2
  <2>4. QED BY <1>2, <1>5, <2>1, <2>2, <2>3
<1> HIDE DEF size, next, v, u, b, w, a
<1>11. CASE b > MaxBytes \/ u.state = "error"
  <2>1. ~Media!Fits(s)
    <3>1. CASE b > MaxBytes
      <4>1. Len(s.bytes) > MaxBytes
        BY <1>2, <1>5, <3>1, LimitsSay
      <4>2. QED BY <1>1, <1>2, <4>1, FitsSays, LimitsSay
    <3>2. CASE u.state = "error"
      BY <1>8, <3>2 DEF Good
    <3>3. QED BY <1>11, <3>1, <3>2
  <2>2. QED BY <1>9, <1>10, <1>11, <2>1, Cleaned
<1>12. CASE ~(b > MaxBytes \/ u.state = "error")
  <2> DEFINE x == MediaWork'
  <2>1. u \in WorkType /\ Parsing(s, u, b) /\ (u.state # "done" => Waits(s, u, b))
    BY <1>8, <1>12 DEF Good, Media!Returns
  <2>2. /\ x.buffer = u.buffer /\ x.state = u.state /\ x.current = u.current
        /\ x.parts = u.parts /\ x.spills = u.spills
    BY <1>9, <1>12, WorkNext
  <2>3. x \in WorkType
    <3>1. /\ u.buffer \in Seq(Media!Bytes) /\ u.state \in {"opening", "suffix", "headers", "body", "done", "error"}
          /\ u.current \in PartType /\ u.parts \in Seq(PartType) /\ u.spills \in SUBSET Nat
      BY <2>1 DEF WorkType
    <3>2. QED BY <1>9, <1>12, <3>1, WorkTyped
  <2>4. Parsing(s, x, b) /\ (u.state # "done" => Waits(s, x, b))
    <3> HIDE DEF x
    <3>1. QED BY <2>1, <2>2, Kept
  <2>5. Len(u.buffer) <= MaxHeaderBytes \/ u.state = "done"
    <3>1. Len(u.buffer) \in Nat /\ u.state \in {"opening", "suffix", "headers", "body", "done"}
      BY <1>12, <2>1 DEF WorkType
    <3>2. u.state # "done" => Len(u.buffer) <= 5 \/ Len(u.buffer) <= MaxHeaderBytes
      BY <2>1, <3>1 DEF Waits
    <3>3. QED BY <3>1, <3>2, LimitsSay
  <2>6. result' = "parsing"
    BY <1>1, <1>9, <1>12
  <2>7. sent' = s /\ buffer' = u.buffer /\ state' = u.state
    BY <1>9, <1>12
  <2> HIDE DEF s
  <2>8. QED BY <1>1, <1>10, <1>12, <2>2, <2>3, <2>4, <2>5, <2>6, <2>7 DEF MediaInv
<1>13. QED BY <1>11, <1>12

LEMMA UploadStepKeeps == MediaInv /\ [Media!Next]_(Media!vars) => MediaInv'
<1> SUFFICES ASSUME MediaInv, [Media!Next]_(Media!vars) PROVE MediaInv'
  OBVIOUS
<1>1. /\ sent \in Streams /\ rest \in Seq(Media!Bytes) /\ Len(rest) <= Len(sent.bytes)
      /\ rest = Window(sent.bytes, Arrived, Len(sent.bytes))
      /\ MediaWork \in WorkType /\ state # "error"
  BY DEF MediaInv
<1>2. CASE \E n \in ChunkSizes : Media!Chunk(n)
  BY <1>2, ChunkSound
<1>3. CASE Media!End
  <2>1. /\ result = "parsing" /\ rest = <<>> /\ UNCHANGED <<sent, rest, buffer, state, current, parts>>
        /\ Parsing(sent, MediaWork, Arrived) /\ (state # "done" => Waits(sent, MediaWork, Arrived))
    BY <1>3 DEF Media!End, MediaInv
  <2>2. Arrived = Len(sent.bytes)
    <3>1. Len(sent.bytes) \in Nat /\ Len(rest) = 0
      <4>1. sent.bytes \in Seq(Media!Bytes)
        BY <1>1, RequestTypes
      <4>2. QED BY <2>1, <4>1
    <3>2. QED BY <3>1 DEF Arrived
  <2>3. Arrived' = Arrived
    BY <2>1 DEF Arrived
  <2>4. CASE state = "done"
    <3>1. result' = "parsed" /\ spilled' = spilled
      BY <1>3, <2>4 DEF Media!End
    <3>2. MediaWork' = MediaWork
      BY <2>1, <3>1 DEF MediaWork, Media!Work
    <3>3. QED BY <1>1, <2>1, <2>3, <2>4, <3>1, <3>2 DEF MediaInv
  <2>5. CASE state # "done"
    <3>1. result' = "error" /\ spilled' = {}
      BY <1>3, <2>5 DEF Media!End, Media!cleanup
    <3>2. ~sent.whole
      <4>1. MediaWork.state \notin {"done", "error"}
        BY <1>1, <2>5, WorkIs
      <4>2. QED BY <1>1, <2>1, <2>2, <2>5, <4>1, WholeIsDone
    <3>3. ~Media!Fits(sent)
      BY <3>2 DEF Media!Fits
    <3>4. QED BY <1>1, <2>1, <2>3, <3>1, <3>3, Cleaned
  <2>6. QED BY <2>4, <2>5
<1>4. CASE Media!Break \/ Media!Respond
  <2>1. /\ result' \in {"broken", "cleaned"} /\ spilled' = {}
        /\ UNCHANGED <<sent, rest, buffer, state, current, parts>>
    BY <1>4 DEF Media!Break, Media!Respond, Media!cleanup
  <2>2. Arrived' = Arrived
    BY <2>1 DEF Arrived
  <2>3. QED BY <1>1, <2>1, <2>2, Cleaned
<1>5. CASE UNCHANGED Media!vars
  <2>1. /\ UNCHANGED <<sent, rest, buffer, state, current, parts>> /\ spilled' = spilled /\ result' = result
    BY <1>5 DEF Media!vars
  <2>2. Arrived' = Arrived /\ MediaWork' = MediaWork
    BY <2>1 DEF Arrived, MediaWork, Media!Work
  <2>3. QED BY <2>1, <2>2 DEF MediaInv
<1>6. QED BY <1>2, <1>3, <1>4, <1>5 DEF Media!Next

\* An upload that is parsed is what it was made of.
LEMMA ChunksInvisible == MediaInv => ChunkingIsInvisible
<1> SUFFICES ASSUME MediaInv PROVE Media!ChunkingIsInvisible
  BY DEF ChunkingIsInvisible
<1>1. ASSUME result = "parsed"
      PROVE  /\ sent.whole
             /\ [i \in DOMAIN parts |-> [header |-> parts[i].header, data |-> parts[i].data]] = sent.parts
             /\ spilled = {i \in DOMAIN parts : parts[i].file}
             /\ \A i \in DOMAIN parts :
                  parts[i].file <=> parts[i].header = "file" /\ Len(parts[i].data) > FileMemoryBytes
  <2>1. /\ sent \in Streams /\ MediaWork \in WorkType /\ state = "done"
        /\ Parsing(sent, MediaWork, Arrived)
    BY <1>1 DEF MediaInv
  <2>2. sent.whole /\ Len(parts) = Len(sent.parts) /\ current = Media!NoPart /\ Found(sent, MediaWork)
    BY <2>1, WorkIs DEF Parsing
  <2>3. parts \in Seq(PartType) /\ sent.parts \in Seq([header : Media!Bytes, data : Seq(Media!Bytes)])
    BY <2>1, WorkTyped, RequestTypes
  <2>4. DOMAIN parts = 1..Len(parts) /\ DOMAIN sent.parts = DOMAIN parts
    BY <2>2, <2>3
  <2>5. \A i \in DOMAIN parts :
          /\ parts[i].header = sent.parts[i].header /\ parts[i].data = sent.parts[i].data
          /\ Sized(parts[i])
    BY <2>2, <2>4, WorkIs DEF Found
  <2>6. spilled = {i \in DOMAIN parts : parts[i].file}
    <3>1. ~current.file
      BY <2>2 DEF Media!NoPart
    <3>2. QED BY <2>2, <2>4, <3>1, WorkIs DEF Found
  <2>7. [i \in DOMAIN parts |-> [header |-> parts[i].header, data |-> parts[i].data]] = sent.parts
    <3>1. \A i \in DOMAIN parts : [header |-> parts[i].header, data |-> parts[i].data] = sent.parts[i]
      <4>1. ASSUME NEW i \in DOMAIN parts
            PROVE  [header |-> parts[i].header, data |-> parts[i].data] = sent.parts[i]
        <5>1. sent.parts[i] \in [header : Media!Bytes, data : Seq(Media!Bytes)]
          <6> DEFINE S == [header : Media!Bytes, data : Seq(Media!Bytes)]
          <6> HIDE DEF S
          <6>1. sent.parts \in Seq(S) /\ i \in DOMAIN sent.parts
            BY <2>3, <2>4 DEF S
          <6>2. sent.parts[i] \in S
            BY <6>1
          <6>3. QED BY <6>2 DEF S
        <5>2. sent.parts[i] = [header |-> sent.parts[i].header, data |-> sent.parts[i].data]
          BY <5>1
        <5>3. QED BY <2>5, <5>2
      <4>2. QED BY <4>1
    <3>2. sent.parts = [i \in DOMAIN parts |-> sent.parts[i]]
      <4> DEFINE S == [header : Media!Bytes, data : Seq(Media!Bytes)]
      <4> HIDE DEF S
      <4>1. sent.parts \in Seq(S)
        BY <2>3 DEF S
      <4>2. sent.parts = [i \in DOMAIN sent.parts |-> sent.parts[i]]
        BY <4>1
      <4>3. QED BY <2>4, <4>2
    <3>3. QED BY <3>1, <3>2
  <2>8. QED BY <2>2, <2>5, <2>6, <2>7 DEF Sized
<1>2. /\ result = "error" => ~Media!Fits(sent)
      /\ result \in {"cleaned", "error", "broken"} => spilled = {}
      /\ Len(buffer) <= MaxHeaderBytes \/ state = "done"
  BY DEF MediaInv
<1>3. QED BY <1>1, <1>2, Zenon DEF Media!ChunkingIsInvisible
=============================================================================
