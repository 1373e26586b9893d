----------------------------- MODULE MCFastboot -----------------------------
(***************************************************************************)
(* Fastboot with three partitions on a device of twenty blocks, ten of     *)
(* which are 4 GiB: the last partition is longer than that.                *)
(***************************************************************************)
EXTENDS Fastboot, SequencesExt

P(name, start, length) == [name |-> name, start |-> start, length |-> length]
\* The second "boot" is never found.
MCParts == <<P("boot", 1, 2), P("system", 3, 6), P("userdata", 9, 11), P("boot", 5, 1)>>
MCNames == {"boot", "system", "userdata", "nosuch"}

Raw(im, len) ==
  [size |-> len, sparse |-> FALSE, total |-> 0, chunks |-> <<>>,
   cells |-> [i \in 1..Cells(len) |-> Data(im, i - 1)]]

\* The chunks <<kind, n>> laid out one after the other behind the header.
C(kind, n) == [kind |-> kind, n |-> n]
Put(im, I, c) ==
  [I EXCEPT !.total = @ + c.n,
     !.size = @ + BlkSize * (1 + RawLen(c)),
     !.chunks = Append(@, [kind |-> c.kind, n |-> c.n, off |-> Len(I.cells), blk |-> I.total]),
     !.cells = @ \o <<Cell(c.kind, im, Len(I.chunks) + 1, c.n)>>
                 \o [j \in 1..RawLen(c) |-> Data(im, I.total + j - 1)]]
Sparse(im, chunks) ==
  LET header == [size |-> BlkSize, sparse |-> TRUE, total |-> 0, chunks |-> <<>>,
                 cells |-> <<Cell("sparse", im, 0, Len(chunks))>>]
  IN  FoldLeft(LAMBDA I, c : Put(im, I, c), header, chunks)

\* Raw images that end inside a block and at its end, the second too large for
\* the download buffer.  The first sparse image, with a hole, fits into "system",
\* headers and all; the second has a chunk that is not supported, and says that
\* its output is larger than "boot".
MCImages ==
  <<Raw(1, 3), Raw(2, 14), Sparse(3, <<C("raw", 1), C("dont_care", 1), C("raw", 1)>>),
    Sparse(4, <<C("raw", 1), C("fill", 4)>>)>>

=============================================================================
