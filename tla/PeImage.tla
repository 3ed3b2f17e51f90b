------------------------------ MODULE PeImage ------------------------------
(***************************************************************************)
(* parse_pe32, raw_offset and the two comparisons of the profile gate: a   *)
(* file's headers and section table are accepted or refused field by       *)
(* field; the bytes of a profile's anchors are found in the file; the      *)
(* system maps the file by its own rules and the mapping is read back.     *)
(* Sizes are scaled: words are below Word, and the constants give the      *)
(* sizes of the parts.  The file's byte at offset o is the number o, so    *)
(* that a byte says where it came from.                                    *)
(***************************************************************************)
EXTENDS Integers, FiniteSets, Sequences

CONSTANTS
  Headers,   \* what the header of a file may say
  Sections,  \* what a line of the section table may say
  Anchors,   \* the anchors that a profile may list
  Word,      \* 2^32
  MaxImage, MaxSections, MaxDirectories, MaxAnchors, ChunkBytes,
  DosBytes, NtBytes, OptionalBytes, DirectoryBytes, LineBytes,
  MinAlignment, MaxAlignment, BaseUnit

VARIABLES
  step, header,
  sections,  \* the lines that were accepted so far
  entered,   \* one of them is executable and holds the entry point
  anchors,   \* the profile's, once the file is known
  index, changed,  \* a byte of the mapping that is not the file's, or none
  error

vars == <<step, header, sections, entered, anchors, index, changed, error>>

None == -1

Init ==
  /\ header \in Headers
  /\ step = "header" /\ sections = << >> /\ entered = FALSE
  /\ anchors = << >> /\ index = 1 /\ changed = None /\ error = "none"

Larger(a, b) == IF a >= b THEN a ELSE b

\* Mutant of fits: the sum in 32 bits.
fits32(offset, length, limit) == (offset + length) % Word <= limit

fits(offset, length, limit) == offset <= limit /\ length <= limit - offset

\* Whether [a, a + an) and [b, b + bn) meet.
overlaps(a, an, b, bn) == an > 0 /\ bn > 0 /\ a < b + bn /\ b < a + an

power2(n) == \E k \in 0 .. 30 : n = 2 ^ k

Table == header.pe + NtBytes + header.optional
TableEnd == Table + header.count * LineBytes

\* Nothing of a file that is refused is kept.
Refuse(reason) ==
  /\ error' = reason /\ step' = "refused"
  /\ sections' = << >> /\ entered' = FALSE /\ UNCHANGED <<anchors, index, changed>>

-----------------------------------------------------------------------------
\* What is wrong with the header; all signatures and machine types are one
\* field, all marks of a library or a managed image another.
SizeWrong == header.size < DosBytes \/ header.size > MaxImage
NtWrong == header.pe < DosBytes \/ ~ fits(header.pe, NtBytes, header.size)
CountWrong == header.count = 0 \/ header.count > MaxSections
OptionalWrong ==
  \/ header.optional < OptionalBytes
  \/ ~ fits(header.pe + NtBytes, header.optional, header.size)
  \/ header.directories > MaxDirectories
  \/ OptionalBytes + header.directories * DirectoryBytes > header.optional
TableWrong == ~ fits(Table, header.count * LineBytes, header.size)
LayoutWrong ==
  \/ ~ power2(header.file_alignment) \/ header.file_alignment \notin MinAlignment .. MaxAlignment
  \/ ~ power2(header.section_alignment) \/ header.section_alignment < header.file_alignment
  \/ header.image_size = 0 \/ header.image_size > MaxImage
  \/ header.image_size % header.section_alignment # 0
  \/ header.headers_size = 0 \/ header.headers_size % header.file_alignment # 0
  \/ header.headers_size > header.size \/ header.headers_size > header.image_size
  \/ TableEnd > header.headers_size
  \/ header.image_base = 0 \/ header.image_base % BaseUnit # 0
  \/ header.image_base + header.image_size > Word

Header ==
  /\ step = "header"
  /\ IF SizeWrong THEN Refuse("engine_file_size")
     ELSE IF NtWrong THEN Refuse("header_bounds")
     ELSE IF ~ header.pe32 THEN Refuse("unsupported_engine_architecture")
     ELSE IF CountWrong THEN Refuse("section_count")
     ELSE IF ~ header.native THEN Refuse("unsupported_executable_kind")
     ELSE IF OptionalWrong THEN Refuse("optional_header")
     ELSE IF TableWrong THEN Refuse("header_bounds")
     ELSE IF LayoutWrong THEN Refuse("image_layout")
     ELSE step' = "sections" /\ UNCHANGED <<sections, entered, anchors, index, changed, error>>
  /\ UNCHANGED header

Extent(s) == Larger(s.virtual_size, s.raw_size)

OutOfBounds(s) ==
  \/ Extent(s) = 0 \/ s.rva < header.headers_size \/ s.rva % header.section_alignment # 0
  \/ ~ fits(s.rva, Extent(s), header.image_size)
  \/ ~ fits(s.raw_offset, s.raw_size, header.size)
  \/ /\ s.raw_size # 0
     /\ \/ s.raw_offset < header.headers_size
        \/ s.raw_offset % header.file_alignment # 0 \/ s.raw_size % header.file_alignment # 0

Overlapping(s, t) ==
  \/ overlaps(s.rva, Extent(s), t.rva, Extent(t))
  \/ overlaps(s.raw_offset, s.raw_size, t.raw_offset, t.raw_size)

\* One line of the section table.
Section ==
  /\ step = "sections" /\ Len(sections) < header.count
  /\ \E s \in Sections :
       IF OutOfBounds(s) THEN Refuse("section_bounds")
       ELSE IF \E j \in DOMAIN sections : Overlapping(s, sections[j]) THEN Refuse("section_overlap")
       ELSE /\ sections' = Append(sections, s)
            /\ entered' = (entered \/ (/\ s.executable
                                       /\ header.entry \in s.rva .. s.rva + s.raw_size - 1))
            /\ UNCHANGED <<step, anchors, index, changed, error>>
  /\ UNCHANGED header

\* The file is parsed; the profile is the file's, or is of another file.
Parsed ==
  /\ step = "sections" /\ Len(sections) = header.count
  /\ IF ~ entered THEN Refuse("entry_point")
     ELSE \/ Refuse("unknown_fingerprint")
          \/ \E n \in 0 .. MaxAnchors : \E list \in [1 .. n -> Anchors] :
               /\ anchors' = list /\ step' = "file"
               /\ UNCHANGED <<sections, entered, index, changed, error>>
  /\ UNCHANGED header

-----------------------------------------------------------------------------
\* The offset of the only section whose bytes in the file hold the range.
raw_offset(rva, length) ==
  LET held == {s \in {sections[i] : i \in DOMAIN sections} :
                 rva >= s.rva /\ fits(rva - s.rva, length, s.raw_size)}
  IN IF length > 0 /\ Cardinality(held) = 1
     THEN LET s == CHOOSE t \in held : TRUE IN s.raw_offset + (rva - s.rva)
     ELSE None

valid_anchor(a) ==
  /\ a.length > 0 /\ a.section_index \in DOMAIN sections
  /\ LET s == sections[a.section_index]
     IN s.executable /\ a.rva >= s.rva /\ (a.rva - s.rva) + a.length <= s.raw_size

Span(from, length) == from .. from + length - 1

Deny(reason) ==
  /\ error' = reason /\ step' = "denied"
  /\ UNCHANGED <<header, sections, entered, anchors, index, changed>>

\* match_file_observation, one anchor at a time; the profile's bytes are those
\* of the file at that offset, or others.
MatchFile ==
  /\ step = "file"
  /\ \/ anchors = << >> /\ Deny("invalid_anchor")
     \/ /\ index <= Len(anchors)
        /\ LET a == anchors[index]
               offset == raw_offset(a.rva, a.length)
           IN IF ~ valid_anchor(a) \/ offset = None THEN Deny("invalid_anchor")
              ELSE IF ~ a.genuine THEN Deny("anchor_mismatch")
              ELSE /\ index' = index + 1
                   /\ UNCHANGED <<step, header, sections, entered, anchors, changed, error>>

\* The system's mapping: the headers, and of each section the bytes of the
\* file up to the page in which its virtual size ends, zeros after them.
RoundUp(n) == ((n + header.section_alignment - 1) \div header.section_alignment) * header.section_alignment
PagesOf(s) == RoundUp(IF s.virtual_size = 0 THEN s.raw_size ELSE s.virtual_size)
InPages(s, rva) == rva \in Span(s.rva, PagesOf(s))
Mapped(rva) ==
  IF rva = changed THEN None
  ELSE IF rva < header.headers_size THEN rva
  ELSE LET in == {i \in DOMAIN sections : InPages(sections[i], rva)}
       IN IF in = {} THEN None
          ELSE LET s == sections[CHOOSE i \in in : TRUE]
               IN IF rva - s.rva < s.raw_size THEN s.raw_offset + (rva - s.rva) ELSE None

\* The file is mapped; a byte of the image may be another one since.
Map ==
  /\ step = "file" /\ anchors # << >> /\ index > Len(anchors)
  /\ changed' \in {None} \cup 0 .. header.image_size - 1
  /\ step' = "headers" /\ index' = 0
  /\ UNCHANGED <<header, sections, entered, anchors, error>>

\* check_mapped_observation: the headers in chunks, ...
MatchHeaders ==
  /\ step = "headers" /\ index < header.headers_size
  /\ LET count == IF header.headers_size - index < ChunkBytes THEN header.headers_size - index ELSE ChunkBytes
     IN \/ Deny("unreadable_image")
        \/ /\ \A rva \in Span(index, count) : Mapped(rva) = rva
           /\ index' = index + count /\ UNCHANGED <<step, header, sections, entered, anchors, changed, error>>
        \/ (\E rva \in Span(index, count) : Mapped(rva) # rva) /\ Deny("profile_layout_mismatch")

HeadersMatch ==
  /\ step = "headers" /\ index = header.headers_size
  /\ step' = "image" /\ index' = 1
  /\ UNCHANGED <<header, sections, entered, anchors, changed, error>>

Covered(a) == Span(a.rva, a.length)
Bytes(a) == [k \in 0 .. a.length - 1 |-> raw_offset(a.rva, a.length) + k]

\* ... then each anchor's bytes in the image, if the image can be read there.
MatchImage ==
  /\ step = "image" /\ index <= Len(anchors)
  /\ LET a == anchors[index]
     IN \/ ~ valid_anchor(a) /\ Deny("invalid_anchor")
        \/ valid_anchor(a) /\ Deny("unreadable_image")
        \/ /\ valid_anchor(a) /\ \A rva \in Covered(a) : InPages(sections[a.section_index], rva)
           /\ IF [k \in 0 .. a.length - 1 |-> Mapped(a.rva + k)] # Bytes(a) THEN Deny("anchor_mismatch")
              ELSE index' = index + 1 /\ UNCHANGED <<step, header, sections, entered, anchors, changed, error>>

ImageMatches ==
  /\ step = "image" /\ index > Len(anchors)
  /\ step' = "matched"
  /\ UNCHANGED <<header, sections, entered, anchors, index, changed, error>>

Next ==
  \/ Header \/ Section \/ Parsed \/ MatchFile \/ Map \/ MatchHeaders \/ HeadersMatch
  \/ MatchImage \/ ImageMatches
  \/ (step \in {"refused", "denied", "matched"} /\ UNCHANGED vars)

Spec == Init /\ [][Next]_vars

-----------------------------------------------------------------------------
\* No address of an accepted image passes the end of the address space; no
\* two sections, nor one and the headers, share a page of the image or a byte
\* of the file, although only their unrounded extents were compared.
Placed ==
  /\ header.image_base + header.image_size <= Word
  /\ \A i \in DOMAIN sections :
       LET s == sections[i]
       IN /\ s.rva >= RoundUp(header.headers_size)
          /\ s.rva + RoundUp(Extent(s)) <= header.image_size
          /\ s.raw_size > 0 => s.raw_offset >= TableEnd /\ s.raw_offset + s.raw_size <= header.size
          /\ \A j \in DOMAIN sections : j # i =>
               LET t == sections[j]
               IN /\ ~ overlaps(s.rva, RoundUp(Extent(s)), t.rva, RoundUp(Extent(t)))
                  /\ Span(s.raw_offset, s.raw_size) \cap Span(t.raw_offset, t.raw_size) = {}

\* What the comparison with the mapping covers.
Watched == (0 .. header.headers_size - 1) \cup UNION {Covered(anchors[i]) : i \in DOMAIN anchors}

\* The places in the file that the parser computes are the ones the system
\* maps: a file and mapping that match agree on every byte of the headers and
\* the anchors, wherever each section was moved to; and a mapping that can be
\* read is denied only for a changed byte among those.
FileMatchesMapping ==
  /\ step \notin {"header", "refused"} => Placed
  /\ step = "matched" => changed \notin Watched
  /\ error \in {"profile_layout_mismatch", "anchor_mismatch"} =>
       changed \in Watched \/ \E i \in DOMAIN anchors : ~ anchors[i].genuine
=============================================================================
