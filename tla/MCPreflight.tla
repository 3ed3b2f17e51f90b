---------------------------- MODULE MCPreflight ----------------------------
\* Two checks the observer makes before it trusts a file: the loader policy's
\* recipe and the engine's image.  They share no state; in one behaviour one of
\* them runs.
EXTENDS LoaderPolicy

CONSTANTS Headers, Sections, Anchors, Word, MaxImage, MaxSections, MaxDirectories, MaxAnchors,
          ChunkBytes, DosBytes, NtBytes, OptionalBytes, DirectoryBytes, LineBytes,
          MinAlignment, MaxAlignment, BaseUnit
VARIABLES part, image_step, header, sections, entered, anchors, image_index, changed, image_error

\* The fields of a PE file are unsigned, and no alignment of sections is zero.
ASSUME ImageAssumption ==
  /\ \A h \in Headers :
       {h.size, h.pe, h.count, h.optional, h.file_alignment, h.section_alignment,
        h.image_size, h.headers_size, h.image_base} \subseteq Nat
  /\ \A s \in Sections : {s.rva, s.virtual_size, s.raw_size, s.raw_offset} \subseteq Nat
  /\ \A a \in Anchors : {a.rva, a.length} \subseteq Nat
  /\ {Word, MaxAnchors, ChunkBytes, NtBytes, LineBytes, MaxAlignment} \subseteq Nat
  /\ MinAlignment \in Nat \ {0}

Image == INSTANCE PeImage WITH step <- image_step, index <- image_index, error <- image_error

-----------------------------------------------------------------------------
CONSTANTS game, system, dll_a, dll_b, dll_c, bytes_x, bytes_y
MCOrigins == {game, system}
MCNames == {dll_a, dll_b, dll_c}
MCContents == {bytes_x, bytes_y}
Pin(o, f, n) == [origin |-> o, name |-> f, bytes |-> n, content |-> bytes_x, valid |-> TRUE]
\* Every total around the budget of six, a name twice, and lines that are not valid.
MCRecipes ==
  {<<Pin(game, dll_a, n), Pin(system, dll_b, m)>> : n \in 0 .. 5, m \in 1 .. 4}
  \cup {<<Pin(game, dll_a, n), Pin(game, dll_b, m), Pin(system, dll_c, k)>> : n \in 1 .. 4, m \in 1 .. 3, k \in 1 .. 3}
  \cup {<<Pin(game, dll_a, 1), Pin(system, dll_a, 2)>>, << >>,
        <<Pin(game, dll_a, 1), [Pin(game, dll_b, 1) EXCEPT !.valid = FALSE]>>,
        [i \in 1 .. 4 |-> Pin(game, dll_a, i)]}
File(f, n, content) == [name |-> f, bytes |-> n, content |-> content]
MCFiles == {File(f, n, bytes_x) : f \in MCNames, n \in {0, 2, 4, 5}} \cup {File(dll_a, 2, bytes_y)}

-----------------------------------------------------------------------------
Good == [size |-> 14, pe |-> 2, pe32 |-> TRUE, native |-> TRUE, count |-> 2, optional |-> 2,
         directories |-> 1, file_alignment |-> 2, section_alignment |-> 4, image_size |-> 16,
         headers_size |-> 8, image_base |-> 8, entry |-> 9]
\* One or two fields off the good header, at and past each bound.
MCHeaders ==
  {Good}
  \cup {[Good EXCEPT !.size = n] : n \in {1, 2, 7, 8, 12, 17, 63}}
  \cup {[Good EXCEPT !.pe = n] : n \in {1, 3, 4, 13, 62, 63}}
  \cup {[Good EXCEPT !.pe32 = FALSE], [Good EXCEPT !.native = FALSE]}
  \cup {[Good EXCEPT !.count = n] : n \in {0, 1, 3}}
  \cup {[Good EXCEPT !.optional = n, !.directories = d] : n \in {0, 1, 2, 3, 60}, d \in {0, 1, 2, 3, 63}}
  \cup {[Good EXCEPT !.file_alignment = n, !.section_alignment = m] : n \in {1, 2, 4, 6, 16}, m \in {0, 2, 4, 8, 12}}
  \cup {[Good EXCEPT !.image_size = n] : n \in {0, 4, 10, 12, 20}}
  \cup {[Good EXCEPT !.headers_size = n] : n \in {0, 4, 6, 7, 10, 20}}
  \cup {[Good EXCEPT !.image_base = n] : n \in {0, 4, 48, 56}}
  \cup {[Good EXCEPT !.entry = n] : n \in {0, 12}}
Line(rva, virtual, raw, offset, exec) ==
  [rva |-> rva, virtual_size |-> virtual, raw_size |-> raw, raw_offset |-> offset, executable |-> exec]
\* Executable lines around every bound, and data among the acceptable ones.
MCSections ==
  {Line(rva, virtual, raw, offset, TRUE) :
     rva \in {4, 8, 10, 12, 60}, virtual \in {0, 1, 4, 5, 60}, raw \in {0, 2, 3, 4, 6, 62},
     offset \in {0, 6, 8, 10, 11, 12, 62}}
  \cup {Line(rva, virtual, raw, offset, FALSE) :
     rva \in {8, 12}, virtual \in {0, 4}, raw \in {0, 2, 4}, offset \in {8, 10, 12}}
MCAnchors ==
  {[rva |-> rva, length |-> n, section_index |-> i, genuine |-> TRUE] : rva \in {9, 13}, n \in {1, 2}, i \in {1, 2}}
  \cup {[rva |-> 8, length |-> n, section_index |-> 1, genuine |-> FALSE] : n \in 0 .. 1}

-----------------------------------------------------------------------------
imageVars == <<image_step, header, sections, entered, anchors, image_index, changed, image_error>>
allVars == <<part, vars, imageVars>>

MCInit ==
  /\ Init /\ Image!Init
  /\ \/ part = "policy" /\ header = Good
     \/ part = "image" /\ recipe = << >>
MCNext ==
  \/ Next /\ part = "policy" /\ UNCHANGED <<part, imageVars>>
  \/ Image!Next /\ part = "image" /\ UNCHANGED <<part, vars>>
MCSpec == MCInit /\ [][MCNext]_allVars

\* A file and mapping that match agree on every byte that is compared, and a
\* readable mapping is denied only for a changed one (pe_image.cpp, profile_gate.cpp).
FileMatchesMapping == Image!FileMatchesMapping
=============================================================================
