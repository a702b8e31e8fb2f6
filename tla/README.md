# A verification development for oxideav-magicyuv

oxideav-magicyuv is a lossless MagicYUV (version 7) video codec in Rust: a
decoder, an encoder, and their adapters to a media framework. It is
single-threaded and keeps nothing on disk. Its difficulty is elsewhere: byte
strings that nobody vouches for decide sizes and indices; buffers are reused
from frame to frame; one accumulator of 64 bits is refilled by two paths that
must agree bit by bit; passes run in place over the data they read; and several
conditions are stated twice, in an encoder and a decoder, or in a checking pass
and a pass that trusts it.

This directory holds TLA+ modules of the parts where that can go wrong, TLC
configurations that check them on small instances, and TLAPS proofs for all
instances of what matters most. Everything is translated from the source under
`src/src`; `PROJECT.json` maps each definition to the lines it stands for.

## 1. The system

| Part | Source | State it keeps | Operations | What makes it correct |
|---|---|---|---|---|
| Frame header | `header.rs`, `encoder.rs` | none | `write_header`, `parse`, the accessors | what is written field by field is read by offset; rejects sizes and formats the rest cannot handle |
| Pixel-format table | `tables.rs` | a static table | lookup by byte | planes, depth and subsampling agree with the format |
| Frame decoder | `decoder.rs` | the caller's `DecodedFrame`, drained and refilled | `decode_into`, `decode_frame` | slices map one to one to planes, tile their rows, lie in the packet, pay for the memory; a failed call leaves no torn frame |
| Bit reader | `bitreader.rs` | `acc`, `fill`, `pos` | `refill`, `peek_bits`, `consume`, `read_bits`, the batch loop | delivers the input bits, in order, each once, zeros after the end |
| Raw unpacker | `bitreader.rs` | the same window, locally | `unpack_raw_bits_to_u16` | the same |
| Huffman descriptor | `huffman.rs`, `encoder.rs` | cursor in the preamble | `encode_descriptor`, `parse_lengths` | lengths survive the round trip and the next descriptor starts where this one ends |
| Huffman table | `huffman.rs` | primary and secondary tables | `build`, the lookups | overfull lengths are refused, others give a prefix code that is decoded exactly |
| Predictors | `encoder.rs`, `predict.rs` | the slice, in place | residual and reconstruction passes | decoding undoes encoding |
| Code lengths | `encoder.rs` | none | `canonical_huffman_lengths`, `package_merge_lengths` | complete, length-limited, optimal |
| Slice and frame encoder | `encoder.rs` | two scratch buffers per slice | `encode_frame`, Dynamic, Auto, `assemble_frame`, `write_header` | what it writes passes every check of the decoder |
| Bit writers | `encoder.rs` | an accumulator | `BitWriter`, `pack_*` | mirror images of the readers |
| Framework adapters | `registry.rs` | one pending packet each, `eof`, `next_pts` | `send_packet`, `receive_frame`, `flush`, `send_frame`, `receive_packet` | nothing lost or repeated, timestamps follow, flush is answered |
| Probe, trace, errors, root | `registry.rs`, `trace.rs`, `error.rs`, `lib.rs` | none | | |

How they interact. `Decoder::receive_frame` takes the pending packet and calls
`decode_into`, which parses the header, looks up the format, maps slices to
planes, lets `parse_lengths` and `HuffmanTable::build` make a table for each
plane, checks every slice against its table and then, slice by slice, runs the
bit reader (or the raw unpacker) and a predictor over a part of a plane. The
encoder goes the other way: predictor, histogram, code lengths, descriptor,
bit writer, assembled packet. All calls are synchronous; the interleavings are
those of the framework's calls on the two adapters.

What is hard here:

* *Early returns over shared state.* `decode_into` can return early at seventeen
  places and assigns the fields of `dst` one by one. The old planes are drained
  before the decode loop, which can still fail.
* *Two passes, one check.* `validate_slices` decides, the decode loop trusts.
* *Ordering in place.* Encoder passes run backwards, decoder passes forwards,
  over the samples they predict from; the interlaced ones skip a field.
* *Boundaries.* The last slice of a plane, chroma planes, one-row slices, ends
  of data inside a code, unused code space, lengths at the cap, runs at 256.
* *Protocol.* Two codecs with one slot each, driven by a caller in any order.

`PROJECT.json` lists each hazard at its line, with the properties that cover
it, or why none does yet.

## 2. The modules

| Module | What it is | Composed of |
|---|---|---|
| `FrameSlot` | abstract: what `decode_into` promises the owner of a `DecodedFrame` | |
| `Fourcc` | the format table, plane geometry and slice rows | |
| `FrameDecoder` | `decode_into` over a series of calls | `Fourcc`; implements `FrameSlot` |
| `BitWindow` | the accumulator, over symbolic bits | |
| `BitStream` | abstract: a cursor over zero-extended input | `BitWindow` |
| `BitReader` | `struct BitReader` | `BitWindow`; implements `BitStream` |
| `RawUnpack` | `unpack_raw_bits_to_u16` | `BitWindow`; implements `BitStream` |
| `HuffmanTable` | `HuffmanTable::build` and lookups | |
| `Descriptor` | `encode_descriptor`, `parse_lengths` | |
| `Predict` | the predictors of both sides on one slice | |
| `BitSink` | abstract: bits that go in come out in order as bytes | `BitWindow` |
| `BitWriter` | `BitWriter`, `pack_raw_bits_from_u16`, `pack_huffman_residuals_*` | `BitWindow`; implements `BitSink` |
| `CodeLengths` | `canonical_huffman_lengths`, `package_merge_lengths` | |
| `EncodedTable` | a plane's table from its histogram, or from lengths nobody vouches for, to the decoder's lookups; the encoder's numbering of codes | `CodeLengths`, `HuffmanTable` |
| `SliceResiduals` | `build_slice_residuals_*_into` over a series of slices | |
| `Encoder` | one call of `encode_frame` | `Fourcc` |
| `EncodeDecode` | `encode_frame`, then `decode_into` on its packet | `Encoder`, `FrameDecoder` |
| `Header` | `write_header`, `parse`, the accessors | `Fourcc` |
| `Registry` | the two adapters and a transcoding caller | |
| `FrameLayout` | `make_encoder`, the layouts of `send_frame` and `map_to_video_frame`, the RGB decorrelation | `Fourcc`, `Encoder` (its input checks) |
| `MC*` | instances for TLC | the module of that name |
| `MCCodecParts` | the parts that share no state, one per behaviour | `BitWriter`, `RawUnpack`, `Descriptor`, `Header`, `SliceResiduals` |
| `Sums` | the running totals of the loops and the powers of two, recursive functions | used by `FrameDecoder`, `Encoder`, `Header`, `SliceResiduals`, `HuffmanTable`, `CodeLengths` |
| `Lemmas` | facts several proofs cite: the bit window, induction, sums, sequences, division | about `BitWindow`, `Fourcc`, `Sums` |
| `RegistryProofs`, `FrameLayoutProofs`, `EncodeDecodeProofs` | theorems | the module of that name |
| `DecoderProofs` | theorems | `BitReader` and `FrameDecoder` |
| `CodeLengthsProofs` | theorems | `CodeLengths` |
| `HuffmanTableProofs` | theorems | `HuffmanTable` and `EncodedTable` |
| `CodecPartsProofs` | theorems | the modules of `MCCodecParts`, and `Predict` |

**FrameDecoder.** `pc` names the part of `decode_into` that runs next; each loop
of the function is an action that does one turn (`MapSlice`, `BuildTable`,
`ValidateSlice`, `DecodeSlice`), and the straight parts are one action each
(`ParseHeader`, `ReadLayout`, `TakeBuffers`, `Finish`). A list of checks in the
order of the code (`HeaderChecks`, `LayoutChecks`, `DescriptorChecks`,
`SliceChecks`, `DecodeChecks`) decides between going on and `Reject`, which
returns the error of the first check that fails and leaves `dst` as it is at
that moment. A byte read by a loop is chosen by the step that reads it; the
fields read before are chosen with the packet. A sample is abstracted to the
number of the call that wrote it, 0 for the zero fill: enough to see a torn or
stale frame. What a descriptor means is abstracted to its size, its shortest
code and whether it leaves code space unused, which is all the frame decoder
looks at; `Descriptor` and `HuffmanTable` say how these come about.

**BitWindow, BitReader, RawUnpack.** A bit of the accumulator is the *index* of
the input bit it was loaded from, or `Zero`, or `Clash` when two different
input bits were ORed together. One run then speaks for every content of the
data. `Lookup` is a peek, a table lookup and a consume, `BatchSymbol` one round
of `decode_single_level_into_u8`. `taken` and `out` are history variables.

**HuffmanTable.** One step per round: `Tier`, `AssignCode`, then `SkipUnused`,
`FillTerminal` or `FillDeferred` per symbol. The accumulator has its width
(`AccSpace`), since it starts at -1 modulo it.

**Descriptor.** `EncodeRun` is a round of the encoder's loop, `ParseLiteral` and
`ParseRun` of the parser's. The preamble continues with the next descriptor.

**Predict.** `Encode` replaces one sample by its residual, from the last to the
first; `Decode` goes the other way. The neighbours are those of the code,
including the header row or rows, the first column and the median of 8 bits
(which wraps) and of more (which does not).

**BitWriter.** The three packing loops share one shape; `loop` says which runs.
`AppendCode` ORs a code into the accumulator, `DrainByte` is one round of the
drain loop, `Finish` the partial byte. A bit is again an index, here of the bit
handed over; a bit of a sample above its depth is `Stray`, so a missing mask
shows. `byte` and `pushed` are history: the last byte that came out.

**CodeLengths, EncodedTable.** Pure operators. `Heaps` is the heap after each
number of rounds, a set of nodes: sorting and removing the first two entries is
`First`, twice. A node carries the depth of the symbols below it instead of child
indices, so `walk` is a field. In package-merge lists stay sequences: `Levels` is
the list of each level, and a merge is described by how many leaf items
are among its first p (`LeavesAmong`, the cursor `a` of the code, decided by the
comparison `LeafNext`). `EncodedTable` starts the decoder's
`build` on the lengths of every histogram and asks its lookups for the
encoder's codes; `FromElsewhere` starts it on any lengths a packet may hold.

**SliceResiduals.** One action per trial. What a predictor makes of a slice is
any block of residuals; a buffer knows the slice and the predictor it was
filled for, so a stale or overwritten buffer shows.

**Encoder, EncodeDecode.** `stage` names the part of `encode_frame` that runs.
The u8 and u16 functions are one: they differ in the sample width. A residual is
the slice and the predictor it was made for, a table its descriptor size and its
shortest and longest code, a payload the number of its bytes.
`EncodeDecode` runs the actions of `FrameDecoder` on the emitted packet: where
those leave a byte open, `DecodeStep` reads the encoder's byte if the decoder
looks where the encoder wrote it (`Found`), and any byte if not.

**Header.** Bytes are bytes here. `Written` is the sequence `write_header`
pushes, `Fields` what `parse` picks out by offset; between the two a header may
lose its end or have one byte changed. A flags dword is the set of its bits.

**FrameLayout.** The data path of the adapters on frames of a few samples: the
caller composes a frame, `SendFrame` takes or refuses it and decorrelates, the
decoder reverses that, `MapToVideoFrame` lays the planes out, and the result is
sent again.

**Registry.** One action per call the framework may make; `hand`, `accepted`,
`failed` and `received` belong to the caller or are history.

## 3. What the runs show

Passing runs:

| Run | Instance | Shows |
|---|---|---|
| `FrameDecoder` | two calls on one `DecodedFrame`. 4:2:0 frames of two slices per plane, the last one short, with every sequence of plane-index bytes, and shapes that are refused; one plane of 8 or 10 bits with every end of the first slice and of the packet around the smallest legal one; RGB and RGBA; a header for each check; descriptors that fit, end with the preamble, run past it, assign no code, are refused or leave code space unused | `TypeOK`, `MapExact`, `RowsTiled`, `SlicesInPacket`, `MemoryBounded`, `NoLateTruncation`, `SlotSpec` |
| `BitReader` | slice lengths on both sides of the 8-byte load, peeks and codes of odd and of the largest widths, 72 bits beyond the end | `ReaderTypeOK`, `WindowFaithful`, `Buffered`, `StreamSpec` |
| `EncodedTable` | six symbols, a primary table of 2 bits: every length table with lengths up to 4; and the encoder's lengths under caps of 2 to 4 for every histogram with counts up to 3, for rising, falling and folded ones with counts up to 4 and for rising ones of Fibonacci numbers | `TypeOK`, `KraftDecides`, `DecodeExact`, `WrittenOnce`, `LengthsValid`, `LengthsOptimal`, `CodesRoundTrip` |
| `Predict` | every content of a slice of 3 rows by 2 samples modulo 4, three predictors, two depths, two field strides | `Restored` |
| `CodecParts`, bit writers | codes of length 0 to 18, 31 and 32, samples of 0 to 17 bits with bits above the depth, up to 70 bits | `AccFaithful`, `SinkSpec` |
| `CodecParts`, raw unpacker | every payload of up to 36 bytes at 10, 12 and 14 bits | `WindowFaithful`, `StreamSpec` |
| `CodecParts`, descriptor | every length table of six symbols with lengths up to 2, runs capped at 3, alone and before another descriptor; every preamble of up to four bytes of the interesting kinds | `RoundTrip` |
| `CodecParts`, header | 17 formats, sizes at the bounds, every flag; unchanged, cut, or with one byte changed | `HeaderSurvives`, `KnobsIndependent` |
| `CodecParts`, residuals | three slices, every block each predictor may yield out of a few, Dynamic and Fixed | `ResidualsMatchId`, `ChoiceMinimal` |
| `Registry` | streams of up to three packets, with and without timestamps, that decode or fail at either codec; every order of calls | `Conserved`, `EofComplete`, `PtsFollow`, `FlushAnswered`, `AllAnswered` |
| `EncodeDecode` | one to four planes, one to four slices, short last slices, 3 samples of 10 bits, all modes, inputs to refuse | `BlocksIntact`, `AutoNeverLonger`, `EmittedDecodes`, `SlicesFound` |
| `FrameLayout` | 18 parameter sets over all families, five of them refused by `make_encoder` or by every `send_frame`; samples over the whole container, frames that lack a plane or a byte, two rounds | `ChannelsSurvive`, `LabelTruthful`, `Reencodes` |

`CodecParts` is one run over five modules: nothing joins their state in the
program, so a behaviour runs one of them from each of its initial states while
the others rest, and the state spaces add up instead of multiplying.

Runs that find a disagreement between the code and its documentation:

* `BitReaderMixed`: the batch loop's doc says that a later reader call resumes
  exactly where it left off. A per-symbol peek does not refill, so it may read
  bits that are not there. Nothing in the crate mixes the two on one slice,
  which is what the run `BitReader` assumes (`use`).
* `HuffmanTableComplete`: the doc of `is_empty` says that a built table is
  always complete. `build` accepts under-full tables, as a test and the
  repository's README say; the decode loop handles them.
* `EncodeZeroSlice`: a comment in `encode_frame` exempts a slice height of 0
  from a check because it "is normalised ... by the callers below". They divide
  by it as it is. `make_encoder` normalises it, so the adapters are not affected.
* `EncodeLong`: slice offsets are cut to 32 bits. `MAX_DIMENSION` allows frames
  of 7 GiB, whose table then points elsewhere; the frame is returned as if it
  were good. The run has 64 in place of 2^32.

Three more disagreements, met while modelling, that need no run:

* The doc of `acc` in `BitReader` says that its bits below `fill` are zero. After
  the fast refill they are not, as a comment further down says. The stream is
  right all the same; `WindowFaithful` is what is true instead.
* "Every emitted frame is a well-formed v7 stream that round-trips":
  `encode_frame` has no check of a width of 0 or of a size above
  `MAX_DIMENSION`; the decoder refuses such frames. The run `EncodeDecode` keeps
  to sizes the decoder takes.
* "Every combination [of options] produces a stream the decoder round-trips"
  (`registry.rs`). An odd `slice_height` on 4:2:0 gives an encoder that refuses
  every frame; a test of the repository expects that, so it is the doc that
  overstates. `EncodeDecode` has such a request among those it refuses.

**Why the bounds are enough.** Each bound keeps the case it is about:

* A slice map is decided by counters per plane. Two slices per plane and three
  planes give every order of bytes, a plane named once too often, and a byte
  that names no plane. The last slice has half of its rows, which is one row of
  chroma.
* Slices are related pairwise by the chain of their table entries, so two slices
  meet every case: out of order, pointing back, too short, at the end.
* Two calls are the shortest history in which storage and header of one frame
  meet those of another: the second finds a whole frame, or one emptied by a
  failure, or an untouched one.
* The readers' window repeats with the phase of the data in the 64-bit
  accumulator; lengths up to 25 and 36 bytes give several fast loads, the
  change to the slow path at every phase, and the padding. `Beyond` only stops
  the counters.
* Six symbols of up to four bits, with two bits in the primary table, give
  terminal codes, several subtables, shared subtables, unused space in both and
  every way to be overfull by one. `AccSpace` is 64 instead of 2^32; only
  the wrap below zero matters, and the assumption on it says how large it must
  be.
* Runs are cut at 3 instead of 256, and count bytes wrap at 4: the ratio is that
  of the code, in which the longest run still fits.
* Three rows are the fewest with a row below the two header rows of an
  interlaced slice; two columns have a first and a later one.
* A code of 32 bits behind seven waiting ones is the longest the writers may
  meet; 70 bits let every phase of a byte precede it, and let the accumulator
  have been shifted through.
* A histogram of six symbols has trees of depth 5 and flat ones; a cap of 4 or 3
  sends the deep ones through package-merge, and one of 2 leaves one code length
  to choose for four symbols. `LengthsOptimal` compares with every
  length-limited code, so it needs no bound of its own. Six Fibonacci counts
  make package-merge carry packages of packages. A counts-up-to-3 histogram has
  every order of its symbols; the higher counts come in three orders only.
* Three slices are the fewest in which each scratch buffer is written, left and
  reused with another role.
* A packet is decided by which slice of which plane comes where: two slices per
  plane, one of them short, over one, three and four planes. Extra code bits
  of 0, 9 and 30 make Huffman win, tie and lose against raw. `OffsetSpace` is
  above every packet in the passing run, and below in `EncodeLong`.
* A header is 32 bytes whatever the frame; six values for the changed byte
  include every value that some check compares with.
* Byte values are cut to `ByteSpace`, a u16 sample to two of them, and
  `DeepModulus` lies between the two, as 10, 12 and 14 bits do.

`CHECK_DEADLOCK FALSE` is set where the program stops: a table that is built, a
descriptor that is parsed, a slice that is done, a reader past its bound, bytes
that are taken, a header that is parsed, a frame that is refused or sent the last
time. The
frame decoder and the adapters have no such state: a call in progress always
has a next step (`FrameDecoder!Rest` stands for a caller who stops calling).

**Fairness.** Only `Registry` states any. Its code is passive; what happens
depends on the caller, so the fairness is the caller's: it keeps calling
`receive_frame` while it holds no frame, keeps offering the frame it holds, and
keeps calling `receive_packet`. These are the loops a transcoding pipeline
consists of. Nothing is assumed about `send_packet` and `flush`: a caller may
never end its input, and the two liveness properties only speak of accepted
packets and of a flush that was made.

## 4. What is proved

TLAPS checks these for every value of the constants under the named assumptions
of each module (types of the constants, and the widths that the code fixes).
Every invariant, action property and refinement of the passing runs is a theorem.

* **BitReader and RawUnpack**: `ReaderTypeOK` (`RawTypeOK`), `WindowFaithful` (and `Buffered`), and
  that both implement `BitStream`. The invariant is `Faithful` of `BitWindow`:
  every bit of the accumulator is the next input bit or, only below `fill`, zero;
  and `pos` accounts for all of them. It is inductive because a refill loads
  at each place the very bit that may be there as residue, so the OR never
  clashes. `Lemmas` proves this once of `Load` and `Shl`, and the two
  readers cite it. Refinement then follows step by step: what is peeked is
  above `fill` or beyond the end of the data, where both are zero.
* **FrameDecoder**: `TypeOK`, `SlicesInPacket`, `MapExact`, `RowsTiled`,
  `NoLateTruncation`. None is inductive alone. `Inv` adds: while the map is
  being read, the slices of a plane seen so far are exactly those below its
  counter, and the counters sum up to the length of the map (so when all bytes
  are read and no counter is above the quota, all are at it); a packet beyond
  `ReadLayout` has the divisibility that `LayoutChecks` tests; each accepted
  range starts where the last one ends, and a raw one holds its samples. The
  tiling needs a division lemma only, k < ceil(a/b) iff k*b < a.
* **FrameDecoder, memory** (`MemoryBounded`): buffers are only taken when the
  packet pays for them. `MemInv` counts samples as a set, `Covered`: those of the
  ranges accepted so far are at most eight for each byte up to `SliceStart`,
  since a Huffman slice spends at least one bit on a sample and a raw one its
  depth. A whole map covers every sample of every plane (`RowsTiled`), so what is
  allocated is bounded by the length of the packet.
* **FrameDecoder implements `FrameSlot`** (`SlotSpec`): `BufsInv` adds that the
  buffers have the geometry of the packet and that the rows of the slices
  decoded so far carry the number of this call. With `RowsTiled`, the last slice
  completes every row, so `Finish` hands over a whole frame of one call; every
  other return keeps the old frame or leaves it emptied, as the abstract slot
  allows.
* **Predict**: `PredictTypeOK` and `Restored`, so losslessness for all sizes, sample
  ranges, predictors, depths and strides. The invariant says of the encoder that
  samples not yet visited are pixels and the visited ones are residuals of
  predictions *from the original slice*, of the decoder that visited samples
  are pixels and the others still those residuals. The lemma that carries both is
  locality: a prediction depends only on samples before its own.
* **BitWriter**: `TypeOK`, `AccFaithful`, and that the three loops implement
  `BitSink`. `AccFaithful` with `TypeOK` is inductive: the accumulator is the
  window on what was written and not pushed. A merge puts bit k of the input at
  slot k - 8 * pushed because nothing else is there, which is where the mask is
  needed; a drain shifts both sides by eight. A byte that comes out is then the
  byte of the abstract sink, the last one included.
* **SliceResiduals**: `ResidualsMatchId` and `ChoiceMinimal`. The first
  invariant adds that from the second trial on the buffer `bestInA` points at
  holds the best kind's residuals of this slice; the third trial keeps it because
  it writes to the other buffer and only then may turn the pointer. The second
  adds that `bestScore` is the score of the best kind's residuals, and that this
  kind beats every kind tried so far, ties going to the earlier one.
* **Descriptor**: `RoundTrip`, for any number of symbols and any longest run.
  The encoder's rounds and the parser's do not correspond: a run above the cap is
  several tokens, and the parser sees no more than bytes. `DescriptorInv`
  says that the encoder leaves a set of boundaries <<lengths covered, bytes used>>
  in which each but the last has a token to another, and that the parser always
  stands on one of them, with the lengths before it read. What follows the
  descriptor moves no boundary, so the next one is found.
* **Header**: `HeaderSurvives` and `KnobsIndependent`, for every size of 32 bits,
  every format and every set of flags. `parse` is a function of the bytes, so the
  invariant only says what the bytes are: as written, a prefix of that, or that
  with one byte changed. The work is in the offsets, in the four bytes of a dword
  and in the bits of a byte.
* **HuffmanTable**: `TypeOK`, `KraftDecides`, `WrittenOnce`, `DecodeExact`, for
  any alphabet, any lengths and any widths of the tables, with the accumulator
  as a signed number wrapped to its width. One conjunct of `Inv` for each phase:
  * `TierInv`: at tier t the accumulator is one less than the number of t-bit
    codes that the longer codes take up, rounded up. Rounding at each tier adds
    up to the same as rounding once, so it leaves the tier exactly if the
    lengths overfill the code space.
  * `NumberInv`: `cur` of a tier is its first code plus the symbols numbered.
  * `CodesInv`: the codes, as intervals of keys, are disjoint and below the end.
    That is prefix-freedom.
  * `FillInv`: every key is in one of three states: untouched and in no code
    done so far; held whole by the primary table; or redirected to the subtable
    of its prefix, where the same holds of the rest of its bits. A subtable
    belongs to one prefix, and a redirect only exists because some done code is
    longer than the primary table is wide; so a later short code cannot fall on it.

  `WrittenOnce` and `DecodeExact` follow by reading a key's state.
  `Spread` grows its table if an entry lies outside, so `TypeOK`, which says that
  no table grows, also speaks of out-of-range writes.
* **CodeLengths, the tree** (`TreeBest`), for every histogram. `HeapInv` holds
  of the heap after every round: the nodes cover the occurring symbols once each, a
  node weighs what its symbols weigh together, its depths fill its share of the
  code space exactly (joining two halves both), and tags are distinct, so that
  `First` is well defined. Optimality is an induction from the last heap back to
  the first (`TreeLeast`): what the finished tree costs is no more than what the
  forest of any round costs so far plus any code for its nodes. A step of it
  (`TreeStep`) turns a code for the nodes before a round into one for those after
  it that saves at least the weight the round adds: two nodes may be swapped so
  that the lighter is deeper (`Swap`), the deepest level has room for the two
  lightest side by side, and there they become one node (`Contract`). Other codes
  need only fit the code space, not fill it.
* **CodeLengths, package-merge** (`PackageMergeBest`), for every cap that leaves
  room for the symbols. The first t items of a level are some lightest leaves and
  the first items of the level below, in pairs, and no such choice is lighter
  (`LevelStep`). Unfolded level by level they are layers of leaves, one for each
  level, each layer within the next (`Nested`, `Picks`): a symbol's length
  is the number of layers that hold it, so it is at most the cap, and 2m - 2 items
  are worth exactly the code space. Any other lengths under the cap are
  such layers too (`Layers`), worth no less if they fit the code space, and by
  induction over the levels layers worth t items weigh at least as much as the
  first t (`PicksLeast`).
* **CodeLengths, both** (`CanonicalBest`): the tree where it fits under the cap, and
  there it is best even among longer codes; package-merge where it does not. This
  includes the `debug_assert` of `package_merge_lengths`, and shows that its
  `max(1)` never acts for two symbols or more.
* **EncodedTable**: `LengthsValid` and `LengthsOptimal` follow. The histogram and
  the lengths stay as they started (`OriginKept`). `CodeLengthsProofs` measures a
  code in units of 2^-cap and the decoder's `KraftSum` in units of 2^-`MaxLen`:
  `EncodedKraft` converts one into the other, and with `KraftDecides` `build` never
  finds the lengths over-full.
* **EncodedTable**: `CodesRoundTrip`. The lemma `SameCodes` shows that the
  encoder's loop, which numbers codes from its own counters, gives each symbol
  the code that `build` gives it, whatever the lengths; the lookup then finds it
  by `DecodeExact`. The theorem needs nothing of the histogram.
* **Encoder and EncodeDecode**: `BlocksIntact`, `AutoNeverLonger` for all frames.
  `EmittedDecodes` and `SlicesFound` for all that the format can express
  (`Representable`: sizes up to `MaxDimension`, a packet no longer than a slice
  offset can say). The encoder checks neither; the run `EncodeLong` shows that
  without the second the properties fail. `EncInv` says what the residual
  planes, tables and payloads hold after s slices; `DecInv` that each of the
  decoder's locals is what the encoder had: its slice map the encoder's order, its
  cursor the sum of the descriptor sizes, its ranges the places payloads were
  written to. No check of the decoder then fails: a payload has room for the
  shortest code of each residual because each code has at least that length.
* **FrameLayout**: `ChannelsSurvive`, `Reencodes`, `LabelTruthful`, for frames
  of every size and content. `Inv` says what the frame in flight has to do with
  the samples the caller meant: laid out, accepted, decorrelated, cut to the
  depth, restored. Of the format table it needs only that chroma is subsampled in
  YUV alone and that RGB has three planes. Decorrelation and correlation are
  inverse modulo the depth; laying out and reading back is the identity on a frame
  whose planes have the sizes that both sides compute.
* **Registry**: `TypeOK`, `Conserved`, `EofComplete` and `PtsFollow`, for any
  number of packets. `Conserved` needs that no id fails that was not accepted, so
  that a new packet is new; a failing call then takes one element out of the
  chain (the lemma `Removed`) and every other call moves or renames none.
  `PtsFollow` needs that a waiting packet is still the one accepted under its id
  and that `nextPts` is one tick after the last packet made, which a refused
  frame must not disturb. `EofComplete` needs `eof` to follow the caller's flush.

The type invariants of `Predict`, `BitWriter`, `RawUnpack` and `Registry` are
proved and therefore in no run.

Induction. The library's induction theorems take a predicate as a parameter,
which the installed provers cannot instantiate. `NatSetInduction` states induction for a
*set* of numbers instead, and rests on the library's well-founded minimum.
That a recursive function (`Sum`, `Pow2`, the encoder's accumulator) is what its
equation says is itself proved with it: the beginnings of such a function exist up to
every n and agree where they overlap, so their union is the function.

Only model-checked: `FlushAnswered` and `AllAnswered` of `Registry`, since
liveness is out of the prover's reach.

## 5. Not modelled, and why

* Sample values in `FrameDecoder`, and the final RGB sum: only which planes of
  which call a row is made from.
* The text of the CSV tables and of the options, error wording, the trace
  emitter, registration, and the container probe (one comparison of four bytes).
* Heights of 0 given to the public `encode_frame`: they leave no slices, and
  `assemble_frame` then indexes an empty table. `make_encoder` refuses them.
* Contents of payloads in `EncodeDecode`: which bits they hold is `BitWriter`'s
  and `EncodedTable`'s matter, what residuals mean `Predict`'s.
* Tests, benches, fuzz targets and examples: read for what they say.
* The width of timestamps: nothing in the repository says what should happen at
  the end of their range, so the overflow of `next_pts` is a hazard without a
  property. Nor does it say whether an encoder should answer Eof after a flush.
* Crashes, restarts, lost messages: nothing is persisted or sent, a failed call
  is the only fault, and it is modelled where calls can fail.

## 6. Plan

Done, in this order: `FrameDecoder` with `FrameSlot` and `Fourcc`; the bit
readers; `Registry`; `HuffmanTable` and `Descriptor`; `Predict`; `BitWriter`
with `BitSink`; `CodeLengths` and `EncodedTable`; `SliceResiduals`; `Encoder`
and `EncodeDecode`; `Header`; `FrameLayout`; the proofs, module by module, up to
those of the composition, of the memory bound, of the refinement of `FrameSlot`,
of the Huffman tables and of the code lengths.

What could follow: a second encoder-decoder composition in which
payloads have contents, so that `Lossless`, `CodesRoundTrip` and the bit
writers' and readers' refinements are joined in one theorem about a frame. So far
they meet only where one's output is the other's input.

## 7. Running

    tlc -workers 2 -config FrameDecoder.cfg MCFrameDecoder
    tlapm DecoderProofs.tla

Each run of `PROJECT.json` names its module and its configuration; the passing
ones take from a few seconds to a minute. A proof module takes up to some minutes
from nothing; `CodeLengthsProofs` and `HuffmanTableProofs` take longest.
