------------------------------ MODULE ByteRuns -------------------------------
(***************************************************************************)
(* Byte strings as sequences of runs: a run is a number, a key, a text or  *)
(* zeros, with its width in bytes.  What the codecs differ in is the order *)
(* and the width of the fields they write and read, so that is what a run  *)
(* keeps; the bytes themselves are not.  A reader that cuts through a run  *)
(* gets bytes of which nothing is known.                                   *)
(***************************************************************************)
EXTENDS Integers, SequencesExt

Run(width, kind, value) == << <<width, kind, value>> >>
Width(run) == run[1]
Kind(run) == run[2]
Value(run) == run[3]

\* A byte string is made of runs of a byte at least, and a number's value is
\* not negative.
IsRun(run) ==
  /\ Width(run) \in Nat \ {0}
  /\ Kind(run) \in {"be", "le"} => Value(run) \in Nat
IsBytes(bytes) ==
  /\ bytes \in Seq(ToSet(bytes))
  /\ \A i \in DOMAIN bytes : IsRun(bytes[i])

\* Where each run ends, Ends(bytes)[i - 1] being where run i starts.
Ends(bytes) ==
  LET end[i \in 0..Len(bytes)] == IF i = 0 THEN 0 ELSE end[i - 1] + Width(bytes[i])
  IN  end
Size(bytes) == Ends(bytes)[Len(bytes)]
Start(bytes, i) == Ends(bytes)[i - 1]

\* Numbers in both byte orders, zeros, and the keys and hashes.
Be(width, n) == Run(width, "be", n)
Le(width, n) == Run(width, "le", n)
Zeros(width) == IF width = 0 THEN <<>> ELSE Run(width, "zeros", 0)
Key(k) == Run(32, "key", k)
Nul == Zeros(1)

\* Runs of ASCII bytes: an http or https URL, letters and digits, these with
\* spaces and dashes, any other; and a run of bytes that are not ASCII.
AsciiKinds == {"http", "word", "phrase", "ascii"}
IsAscii(run) == Kind(run) \in AsciiKinds
IsText(bytes) ==
  \A i \in DOMAIN bytes : IsAscii(bytes[i]) \/ Kind(bytes[i]) = "wide"

\* Bytes cut out of runs, of which nothing is known.
Cut(width) == IF width = 0 THEN <<>> ELSE Run(width, "cut", 0)

\* The n bytes at an offset: the runs that lie there as a whole, between
\* what is cut off the runs around them.
Slice(bytes, offset, n) ==
  LET ends == Ends(bytes)
      inside == {i \in DOMAIN bytes :
                   ends[i - 1] >= offset /\ ends[i] <= offset + n}
      runs == SubSeq(bytes, Min(inside), Max(inside))
      head == ends[Min(inside) - 1] - offset
  IN  IF inside = {} THEN Cut(n)
      ELSE Cut(head) \o runs \o Cut(n - head - Size(runs))

\* The number at an offset; Unknown when the bytes there are no number.
Unknown == -1
NumberIn(order, field) ==
  IF Len(field) = 1 /\ Kind(field[1]) = order THEN Value(field[1]) ELSE Unknown
Number(order, bytes, offset, width) ==
  NumberIn(order, Slice(bytes, offset, width))

\* All but the first of a set of positions.
AfterFirst(positions) == {i \in positions : \E j \in positions : j < i}

\* A string of n bytes can be read at an offset.  A length read from bytes
\* that are no length is that of no string: it leaves the byte string.
HasString(bytes, offset, n) ==
  /\ n # Unknown
  /\ offset + n <= Size(bytes)
  /\ IsText(Slice(bytes, offset, n))
=============================================================================
