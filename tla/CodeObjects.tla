---------------------------- MODULE CodeObjects ----------------------------
(***************************************************************************)
(* The code-object loader of hsa/src/code_object.cpp: the MessagePack      *)
(* decoder its metadata goes through, and the layout of an image: its      *)
(* segments, kernels and relocations.  Names, notes, sections and header   *)
(* constants are left out; addresses are numbers below Limit, so that      *)
(* their arithmetic can wrap.                                              *)
(*                                                                         *)
(* A byte of MessagePack stands for a tag and the length it announces: an  *)
(* "int" with count more bytes, a "str" of count bytes, an "array" or a    *)
(* "map" of count elements, or a tag that is refused.  Inside a string or  *)
(* an integer any byte is data.                                            *)
(***************************************************************************)
EXTENDS Naturals, Integers, Sequences, FiniteSets

CONSTANTS MaxDepth,    \* nesting accepted, 32 in the code
          MaxNodes,    \* values accepted, 100000 in the code
          Limit,       \* number of addresses, 2^64 in the code
          Page,        \* alignment of an image, 16384 in the code
          MaxImage,    \* largest image, 256 MiB in the code
          Descriptor,  \* bytes of a kernel descriptor, 64 in the code
          Instruction, \* bytes an entry point needs, 4 in the code
          Word         \* bytes a relocation changes, 4 or 8 in the code

ASSUME CodeObjectsAssumption ==
    {MaxDepth, MaxNodes, Limit, Page, MaxImage, Descriptor, Instruction, Word} \subseteq Nat \ {0}

VARIABLES metadata,  \* bytes handed to the decoder
          decoded,   \* what the decoder said
          elf,       \* program headers, a kernel and relocations
          loadedAt,  \* GPU address the image is relocated for
          imageBytes \* the image: "none", or offset -> who wrote the byte last

codeVars == <<metadata, decoded, elf, loadedAt, imageBytes>>

-----------------------------------------------------------------------------
(* MessagePack                                                             *)

PackBytes == [kind : {"int", "str", "array", "map", "refused"}, count : Nat]

\* The bytes of the string whose tag is at byte pos.
Text(b, pos) == SubSeq(b, pos + 2, pos + 1 + b[pos + 1].count)

\* Where the decoder stands: the bytes and values behind it, and the keys of the map it is in.
At(pos, nodes, keys) == [ok |-> TRUE, pos |-> pos, nodes |-> nodes, keys |-> keys]
Refused == [ok |-> FALSE, pos |-> 0, nodes |-> 0, keys |-> {}]

\* An element of a container, read by inner: a value, or a new key, which is a string, and a value.
ParseElement(inner, b, kind, p) ==
    LET k == inner[p.pos][p.nodes]
        v == inner[k.pos][k.nodes]
    IN  IF p.ok /\ k.ok /\ kind = "array" THEN At(k.pos, k.nodes, {})
        ELSE IF p.ok /\ k.ok /\ kind = "map" /\ b[p.pos + 1].kind = "str" /\ v.ok /\ Text(b, p.pos) \notin p.keys
             THEN At(v.pos, v.nodes, p.keys \cup {Text(b, p.pos)})
        ELSE Refused

\* Its elements one after the other.
ParseElements(inner, b, tag, pos, nodes) ==
    LET after[e \in 0 .. tag.count] ==
          IF e = 0 THEN At(pos, nodes, {}) ELSE ParseElement(inner, b, tag.kind, after[e - 1])
    IN  after[tag.count]

\* MessagePack::parse of the value at byte pos, its elements read by inner.  The length it announces
\* is compared with the bytes left, and that of a container with the values still allowed.
ParseValue(inner, b, pos, nodes) ==
    IF nodes + 1 > MaxNodes \/ pos = Len(b) THEN Refused
    ELSE LET tag == b[pos + 1]
         IN  IF tag.kind = "refused" \/ tag.count > Len(b) - (pos + 1) THEN Refused
             ELSE IF tag.kind \in {"int", "str"} THEN At(pos + 1 + tag.count, nodes + 1, {})
             ELSE IF tag.count > MaxNodes - (nodes + 1) THEN Refused
             ELSE ParseElements(inner, b, tag, pos + 1, nodes + 1)

\* The decoder with a number of levels of nesting left; none is left beyond depth MaxDepth.
Parse(b) ==
    LET level[l \in 0 .. MaxDepth + 1] ==
          [pos \in 0 .. Len(b) |-> [nodes \in 0 .. MaxNodes |->
              IF l = 0 THEN Refused ELSE ParseValue(level[l - 1], b, pos, nodes)]]
    IN  level[MaxDepth + 1]

\* Mutant: bytes after the value are ignored.
DecodePrefix(b) == Parse(b)[0][0].ok

\* MessagePack::decode: one value, and nothing after it.
Decode(b) == Parse(b)[0][0].ok /\ Parse(b)[0][0].pos = Len(b)

\* The grammar.  Steps from lo to hi in k jumps.
Chains(k, lo, hi) == {c \in [0 .. k -> lo .. hi] : c[0] = lo /\ c[k] = hi}

\* A key, which is a string, and its value.
EncodesPair(inner, b, i, j, n) ==
    \E q \in i .. j : <<i, q, 1>> \in inner /\ b[i + 1].kind = "str" /\ <<q, j, n - 1>> \in inner

\* Elements of a container, the e-th up to byte cut[e] and value sum[e]; in a map no key twice.
EncodesElements(inner, b, tag, cut, sum) ==
    \A e \in 1 .. tag.count :
        LET i == cut[e - 1]  j == cut[e]  n == sum[e] - sum[e - 1]
        IN  /\ tag.kind = "array" => <<i, j, n>> \in inner
            /\ tag.kind = "map" => EncodesPair(inner, b, i, j, n)
            /\ tag.kind = "map" => \A f \in 1 .. e - 1 : Text(b, cut[f - 1]) # Text(b, i)

\* Bytes i + 1 .. j of b are one value of n values in all, where inner has its elements as <<i, j, n>>.
Encodes(inner, b, i, j, n) ==
    /\ i < Len(b)
    /\ LET tag == b[i + 1]
       IN  \/ tag.kind \in {"int", "str"} /\ j = i + 1 + tag.count /\ n = 1
           \/ /\ tag.kind \in {"array", "map"}
              /\ \E cut \in Chains(tag.count, i + 1, j), sum \in Chains(tag.count, 1, n) :
                    EncodesElements(inner, b, tag, cut, sum)

\* The values in b that nest at most MaxDepth deep, as <<i, j, n>>.
ValuesIn(b) ==
    LET level[l \in 0 .. MaxDepth + 1] ==
          {v \in (0 .. Len(b)) \X (0 .. Len(b)) \X (1 .. MaxNodes) :
              l # 0 /\ Encodes(level[l - 1], b, v[1], v[2], v[3])}
    IN  level[MaxDepth + 1]

-----------------------------------------------------------------------------
(* Segments, kernels, relocations                                          *)

InRange(offset, size, capacity) == offset <= capacity /\ size <= capacity - offset

\* A loadable segment of parseCodeObject: no more file than memory, and an end that does not wrap.
SegmentFits(s) == s.file <= s.mem /\ s.address <= (Limit - 1) - s.mem

Apart(s, r) == ~(s.address < (r.address + r.mem) % Limit /\ r.address < (s.address + s.mem) % Limit)

Smallest(S) == CHOOSE x \in S : \A y \in S : x <= y
Largest(S) == CHOOSE x \in S : \A y \in S : x >= y

Begin(e) == Smallest({s.address : s \in e.segments})
EndsAt(e) == Largest({(s.address + s.mem) % Limit : s \in e.segments})

ImageSize(e) == EndsAt(e) - Begin(e)

LoadedRange(e, address, size, executable) ==
    \E s \in e.segments : /\ executable => s.exec
                          /\ address >= s.address /\ InRange(address - s.address, size, s.mem)

\* parseCodeObject's conditions on the layout: segments apart, a page-aligned base, a kernel whose
\* descriptor is loaded and whose entry is executable, relocations of loaded words.
Parses(e) ==
    /\ e.segments # {} /\ \A s \in e.segments : SegmentFits(s)
    /\ \A s, r \in e.segments : s # r => Apart(s, r)
    /\ ImageSize(e) <= MaxImage /\ Begin(e) % Page = 0
    /\ LoadedRange(e, e.kernel, Descriptor, FALSE)
    /\ LET entry == e.kernel + e.displacement
       IN  entry >= 0 /\ entry < Limit /\ LoadedRange(e, entry, Instruction, TRUE)
    /\ \A r \in e.relocations : LoadedRange(e, r.offset, Word, FALSE)

\* evaluate: the word stays clear of the descriptor, and the relocated value fits.
Evaluates(e, r, base) ==
    LET offset     == r.offset - Begin(e)
        descriptor == e.kernel - Begin(e)
        value      == base - Begin(e) + r.addend
    IN  /\ InRange(offset, Word, ImageSize(e))
        /\ ~(offset < descriptor + Descriptor /\ descriptor < offset + Word)
        /\ value >= 0 /\ value < Limit

\* relocateCodeObject: every relocation is evaluated before the first is applied.
Fixups(e, base) == IF \A r \in e.relocations : Evaluates(e, r, base) THEN e.relocations ELSE {}

\* The bytes of a freshly parsed image: the file's, or zero; then what the relocations wrote.
ParsedImage(e) ==
    [i \in 0 .. ImageSize(e) - 1 |->
        IF \E s \in e.segments : i + Begin(e) >= s.address /\ i + Begin(e) < s.address + s.file
        THEN "file" ELSE "zero"]
Relocated(e, base) ==
    [i \in 0 .. ImageSize(e) - 1 |->
        IF \E r \in Fixups(e, base) : i >= r.offset - Begin(e) /\ i < r.offset - Begin(e) + Word
        THEN "fixup" ELSE ParsedImage(e)[i]]

-----------------------------------------------------------------------------

AddressRange == 0 .. Limit - 1
IsELF(e) ==
    /\ e.segments \in SUBSET [address : AddressRange, mem : AddressRange \ {0}, file : AddressRange, exec : BOOLEAN]
    /\ e.kernel \in AddressRange /\ e.displacement \in Int
    /\ e.relocations \in SUBSET [offset : AddressRange, addend : Int]

\* metadata is what a note of the file holds; the rest of the file is parsed by itself.
CodeObjectsInit ==
    /\ metadata \in Seq(PackBytes) /\ IsELF(elf) /\ loadedAt \in AddressRange
    /\ decoded = "none" /\ imageBytes = <<>>

DecodeMetadata ==
    /\ metadata # <<>> /\ decoded = "none"
    /\ decoded' = IF Decode(metadata) THEN "accepted" ELSE "refused"
    /\ UNCHANGED <<metadata, elf, loadedAt, imageBytes>>

ParseCodeObject ==
    /\ metadata = <<>> /\ decoded = "none"
    /\ decoded' = IF Parses(elf) THEN "parsed" ELSE "refused"
    /\ imageBytes' = IF Parses(elf) THEN ParsedImage(elf) ELSE <<>>
    /\ UNCHANGED <<metadata, elf, loadedAt>>

\* Refused below the image's own base, and where the image would not end below the limit.
RelocateCodeObject ==
    /\ decoded = "parsed"
    /\ LET placed == loadedAt >= Begin(elf) /\ ImageSize(elf) <= (Limit - 1) - loadedAt
           ok == placed /\ \A r \in elf.relocations : Evaluates(elf, r, loadedAt)
       IN  /\ decoded' = IF ok THEN "relocated" ELSE "refused"
           /\ imageBytes' = IF placed THEN Relocated(elf, loadedAt) ELSE imageBytes
    /\ UNCHANGED <<metadata, elf, loadedAt>>

CodeObjectsNext == DecodeMetadata \/ ParseCodeObject \/ RelocateCodeObject

CodeObjectsSpec == CodeObjectsInit /\ [][CodeObjectsNext]_codeVars

-----------------------------------------------------------------------------
(* Properties                                                              *)

\* The decoder accepts exactly the MessagePack values within its bounds on nesting and number,
\* whatever lengths containers announce, and reads no byte past the end.
DecodesGrammar ==
    (metadata # <<>> /\ decoded # "none") =>
        (decoded = "accepted" <=> \E n \in 1 .. MaxNodes : <<0, Len(metadata), n>> \in ValuesIn(metadata))

\* What is loaded lies inside the image, though addresses can wrap: each segment's bytes, the
\* kernel's descriptor and its entry; a relocation that is refused changes no byte, and none
\* changes a descriptor that was checked against the metadata.
ImageInBounds ==
    /\ decoded \in {"parsed", "relocated"} =>
        /\ \A s \in elf.segments : s.address - Begin(elf) + s.mem <= ImageSize(elf)
        /\ \A d \in 0 .. Descriptor - 1 : imageBytes[elf.kernel - Begin(elf) + d] # "fixup"
        /\ \A d \in 0 .. Instruction - 1 : elf.kernel + elf.displacement - Begin(elf) + d \in DOMAIN imageBytes
    /\ decoded = "refused" => \A i \in DOMAIN imageBytes : imageBytes[i] # "fixup"

\* What parseCodeObject accepts is well formed, and lies where it says it does.
CodeObjectsSound == DecodesGrammar /\ ImageInBounds

=============================================================================
