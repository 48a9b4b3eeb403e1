---------------------------- MODULE MediaMultipart ----------------------------
(***************************************************************************)
(* The streaming parser of media uploads (metaMediaMultipart.js).  The     *)
(* request arrives in chunks cut anywhere, inside a boundary too.  Bytes   *)
(* are abstracted to the few the parser tells apart: "r" "n" for the line  *)
(* end, "-", "b" for the boundary's own text, and the contents of          *)
(* a header or a body.  Where the boundaries of a request end, and which   *)
(* parts stand between them, is said of its bytes as a whole (Laid): what  *)
(* the parser has to find, however they arrive.                            *)
(***************************************************************************)
EXTENDS Integers, Sequences, SequencesExt

CONSTANTS Contents,       \* the bytes of headers and bodies that mean nothing to the parser
          Streams,        \* the requests tried: their bytes and what Laid says of them
          ChunkSizes, MaxBytes, MaxPartBytes, MaxHeaderBytes, MaxParts, FileMemoryBytes

VARIABLES
  sent,      \* the request
  rest,      \* what has not arrived of it
  buffer, state, current,
  parts,     \* the parts parsed so far
  spilled,   \* parts whose bytes are in a temporary file that still exists
  result     \* "parsing", "parsed", "cleaned", or the error

vars == <<sent, rest, buffer, state, current, parts, spilled, result>>

Bytes == {"r", "n", "-", "b", "field", "file"} \cup Contents
LineEnd == <<"r", "n">>
Dashes == <<"-", "-">>
Opening == <<"-", "-", "b">>
Marker == LineEnd \o Opening
HeadersEnd == LineEnd \o LineEnd

NoPart == [header |-> "none", data |-> <<>>, file |-> FALSE]
\* The part of a header block: a field, or a file; other blocks are refused.
headersFromBlock(block) == [header |-> block[1], data |-> <<>>, file |-> FALSE]
ValidHeaders(block) == Len(block) >= 1 /\ block[1] \in {"field", "file"}

Drop(s, n) == SubSeq(s, n + 1, Len(s))
Take(s, n) == SubSeq(s, 1, n)
\* A needle stands in s after its first i bytes.
Occurs(s, needle, i) ==
  i + Len(needle) <= Len(s) /\ \A k \in 1..Len(needle) : s[i + k] = needle[k]
\* buffer.indexOf, from 0; -1 when it is not there.
indexOf(s, needle) ==
  LET At == {i \in 0..Len(s) : Occurs(s, needle, i)}
  IN IF At = {} THEN -1 ELSE CHOOSE i \in At : \A j \in At : i <= j

-----------------------------------------------------------------------------
(* What a request holds, by all its bytes at once.                          *)

First(s, needle, from, i) ==
  i >= from /\ Occurs(s, needle, i) /\ \A j \in from..(i - 1) : ~Occurs(s, needle, j)

\* After the boundary that ends at p come a line end, headers up to h and data, and the next
\* boundary ends at q.
Framed(bytes, p, h, q) ==
  /\ Occurs(bytes, LineEnd, p)
  /\ First(bytes, HeadersEnd, p + Len(LineEnd), h)
  /\ ValidHeaders(SubSeq(bytes, p + Len(LineEnd) + 1, h))
  /\ First(bytes, Marker, h + Len(HeadersEnd), q - Len(Marker))

\* at: where the boundaries end, up to the first that no part follows; parts: what stands
\* between them; header: no header of theirs is longer; whole: the last boundary ends it all.
Laid(s) ==
  /\ s.bytes \in Seq(Bytes) /\ s.at \in Seq(Nat) /\ s.header \in Nat /\ s.whole \in BOOLEAN
  /\ s.parts \in Seq([header : Bytes, data : Seq(Bytes)])
  /\ IF s.at = <<>> THEN s.parts = <<>> /\ \A i \in 0..Len(s.bytes) : ~Occurs(s.bytes, Opening, i)
     ELSE Len(s.at) = Len(s.parts) + 1 /\ First(s.bytes, Opening, 0, s.at[1] - Len(Opening))
  /\ \A i \in DOMAIN s.parts : \E h \in 0..Len(s.bytes) :
       /\ Framed(s.bytes, s.at[i], h, s.at[i + 1])
       /\ h - s.at[i] - Len(LineEnd) <= s.header
       /\ s.parts[i] = [header |-> s.bytes[s.at[i] + Len(LineEnd) + 1],
                        data |-> SubSeq(s.bytes, h + Len(HeadersEnd) + 1, s.at[i + 1] - Len(Marker))]
  /\ s.whole <=> s.at # <<>> /\ Occurs(s.bytes, Dashes, s.at[Len(s.at)])
  /\ s.at # <<>> => \A h, q \in 0..Len(s.bytes) : ~Framed(s.bytes, s.at[Len(s.at)], h, q)

\* The parser never needs to hold back more than it may hold of a header.
UploadLimits ==
  /\ ChunkSizes \subseteq Nat \ {0}
  /\ {MaxBytes, MaxPartBytes, MaxHeaderBytes, MaxParts, FileMemoryBytes} \subseteq Nat
  /\ MaxHeaderBytes >= Len(Marker)

-----------------------------------------------------------------------------

Init ==
  /\ sent \in Streams
  /\ rest = sent.bytes
  /\ buffer = <<>> /\ state = "opening" /\ current = NoPart
  /\ parts = <<>> /\ spilled = {} /\ result = "parsing"

-----------------------------------------------------------------------------
(* process(), as a function of what it works on: it runs until it needs more bytes.       *)

Fail(w) == [w EXCEPT !.state = "error"]

\* appendPart: a file moves to disk once it is larger than FileMemoryBytes.
Append_(w, chunk) ==
  LET size == Len(w.current.data) + Len(chunk)
      moves == w.current.header = "file" /\ chunk # <<>> /\ size > FileMemoryBytes IN
  IF size > MaxPartBytes THEN Fail(w)
  ELSE [w EXCEPT !.current = [header |-> @.header, data |-> @.data \o chunk, file |-> @.file \/ moves],
                 !.spills = IF moves THEN @ \cup {Len(w.parts) + 1} ELSE @]

FinishPart(w) ==
  IF Len(w.parts) + 1 > MaxParts THEN Fail(w)
  ELSE [w EXCEPT !.parts = Append(@, w.current), !.current = NoPart, !.state = "suffix"]

\* After a boundary: the end of the request, or of the line.
Suffix(w) ==
  IF Len(w.buffer) < 2 THEN [w EXCEPT !.more = TRUE]
  ELSE IF Occurs(w.buffer, Dashes, 0) THEN [w EXCEPT !.buffer = Drop(@, 2), !.state = "done"]
  ELSE IF Occurs(w.buffer, LineEnd, 0) THEN [w EXCEPT !.buffer = Drop(@, 2), !.state = "headers"]
  ELSE Fail(w)

OpeningStep(w) ==
  LET at == indexOf(w.buffer, Opening) IN
  IF at < 0
  THEN [w EXCEPT !.more = TRUE,
                 !.buffer = IF Len(@) > Len(Opening) THEN Drop(@, Len(@) - Len(Opening)) ELSE @]
  ELSE [w EXCEPT !.buffer = Drop(@, at + Len(Opening)), !.state = "suffix"]

Headers(w) ==
  LET end == indexOf(w.buffer, HeadersEnd) IN
  IF end < 0
  THEN IF Len(w.buffer) > MaxHeaderBytes THEN Fail(w) ELSE [w EXCEPT !.more = TRUE]
  ELSE IF ~ValidHeaders(Take(w.buffer, end)) THEN Fail(w)
  ELSE [w EXCEPT !.current = headersFromBlock(Take(w.buffer, end)),
                 !.buffer = Drop(@, end + Len(HeadersEnd)), !.state = "body"]

\* Plausible bug: the bytes held back are one too few for a marker cut by a chunk.
Held_Short(w) == IF Len(w.buffer) < Len(Marker) - 2 THEN Len(w.buffer) ELSE Len(Marker) - 2

\* What the body keeps back, for it may be the beginning of a marker.
Held(w) == IF Len(w.buffer) < Len(Marker) THEN Len(w.buffer) ELSE Len(Marker)

Body(w) ==
  LET at == indexOf(w.buffer, Marker)
      loose == Len(w.buffer) - Held(w)
      kept == Append_(w, Take(w.buffer, IF at < 0 THEN loose ELSE at)) IN
  IF kept.state = "error" THEN kept
  ELSE IF at < 0 THEN [kept EXCEPT !.buffer = Drop(@, loose), !.more = TRUE]
  ELSE FinishPart([kept EXCEPT !.buffer = Drop(@, at + Len(Marker))])

\* A turn of the loop, which returns when it needs more bytes and when it is done.
Returns(w) == w.more \/ w.state \in {"done", "error"}
Turn(w) ==
  IF Returns(w) THEN w
  ELSE IF w.state = "opening" THEN OpeningStep(w)
  ELSE IF w.state = "suffix" THEN Suffix(w)
  ELSE IF w.state = "headers" THEN Headers(w)
  ELSE Body(w)

\* The loop; every turn that goes on takes bytes off the buffer.
turns(w) == LET run[n \in Nat] == IF n = 0 THEN w ELSE Turn(run[n - 1]) IN run
process(w) == turns(w)[Len(w.buffer) + 1]

-----------------------------------------------------------------------------
cleanup == spilled' = {}

Work(bytes) == [buffer |-> bytes, state |-> state, current |-> current, parts |-> parts,
                spills |-> spilled, more |-> FALSE]

\* The next chunk, or the whole rest.
Chunk(n) ==
  LET size == IF n > Len(rest) THEN Len(rest) ELSE n
      w == process(Work(buffer \o Take(rest, size)))
      total == Len(sent.bytes) - Len(rest) + size IN
  /\ result = "parsing" /\ rest # <<>>
  /\ rest' = Drop(rest, size)
  /\ IF total > MaxBytes \/ w.state = "error"
     THEN /\ result' = "error" /\ cleanup
          /\ UNCHANGED <<buffer, state, current, parts>>
     ELSE /\ buffer' = w.buffer /\ state' = w.state /\ current' = w.current
          /\ parts' = w.parts /\ spilled' = w.spills
          /\ UNCHANGED result
  /\ UNCHANGED sent

\* The request ends, or breaks off.
End ==
  /\ result = "parsing" /\ rest = <<>>
  /\ IF state = "done" THEN result' = "parsed" /\ UNCHANGED spilled ELSE result' = "error" /\ cleanup
  /\ UNCHANGED <<sent, rest, buffer, state, current, parts>>

Break ==
  /\ result = "parsing"
  /\ result' = "broken" /\ cleanup
  /\ UNCHANGED <<sent, rest, buffer, state, current, parts>>

\* The route has used the files, or refused the fields.
Respond ==
  /\ result = "parsed"
  /\ result' = "cleaned" /\ cleanup
  /\ UNCHANGED <<sent, rest, buffer, state, current, parts>>

Next == (\E n \in ChunkSizes : Chunk(n)) \/ End \/ Break \/ Respond

Spec == Init /\ [][Next]_vars

-----------------------------------------------------------------------------
TypeOK ==
  /\ sent \in Streams /\ IsSuffix(rest, sent.bytes)
  /\ state \in {"opening", "suffix", "headers", "body", "done"}
  /\ \A i \in DOMAIN parts : parts[i].header \in {"field", "file"}
  /\ spilled \subseteq 1..(MaxParts + 1)
  /\ result \in {"parsing", "parsed", "cleaned", "error", "broken"}

Fits(s) ==
  /\ s.whole /\ Len(s.bytes) <= MaxBytes /\ Len(s.parts) <= MaxParts
  /\ s.header + Len(HeadersEnd) - 1 <= MaxHeaderBytes
  /\ \A i \in DOMAIN s.parts : Len(s.parts[i].data) <= MaxPartBytes

\* However a request is cut into chunks, what is parsed of it are the parts it was made of,
\* and one that is complete and within the limits is parsed; a file is on disk exactly when it
\* is large, nothing stays there after an answer, and the parser never holds more bytes than
\* its header limit allows (metaMediaMultipart.js:79-150).
ChunkingIsInvisible ==
  /\ result = "parsed" =>
       /\ sent.whole
       /\ [i \in DOMAIN parts |-> [header |-> parts[i].header, data |-> parts[i].data]] = sent.parts
       /\ spilled = {i \in DOMAIN parts : parts[i].file}
       /\ \A i \in DOMAIN parts :
            parts[i].file <=> parts[i].header = "file" /\ Len(parts[i].data) > FileMemoryBytes
  /\ result = "error" => ~Fits(sent)
  /\ result \in {"cleaned", "error", "broken"} => spilled = {}
  /\ Len(buffer) <= MaxHeaderBytes \/ state = "done"
=============================================================================
