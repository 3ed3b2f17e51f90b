------------------------------ MODULE GameCode ------------------------------
(***************************************************************************)
(* The pinned bytes of the game that the CD-stream stops of the loader run *)
(* through, as instructions with their sizes, and where they and the data  *)
(* they name lie.  Addresses and sizes of data are scaled (Entries table   *)
(* entries for 32, Request bytes for 2048); every offset inside the code,  *)
(* a frame or a table header is the one of the source.                     *)
(***************************************************************************)
EXTENDS X86

CONSTANTS
  Low,       \* where a process's memory begins, the image's own first byte
  Request,   \* bytes the game asks for, before the alignment
  Entries    \* entries of the handle and name tables

\* Where the pinned code and data of the image lie; the spans do not overlap.
caller == Low
target == Low + 16
allocator == Low + 220
malloc == Low + 256
nh == Low + 276
heap == Low + 320
prologue == Low + 432
epilogue == Low + 492
open == Low + 512
handler == Low + 520
scope == Low + 524
filename == Low + 540
new_mode == Low + 556
threshold == Low + 560
heap_handle == Low + 564
heap_mode == Low + 568
disk_iat == Low + 572
heap_iat == Low + 576
error_iat == Low + 580
local_iat == Low + 584
disk_flags == Low + 592
pointer == Low + 612
handles == Low + 624
names == handles + 4 * Entries + 8
names_end == names + 64 * Entries

\* The head of the thread's exception list (fs:0), and its last error.
tib_head == Low - 8
last_error == Low - 4

-----------------------------------------------------------------------------
Push(size, o) == Instruction(size, "push", I(0), o)
Pop(name) == Instruction(1, "pop", R(name), I(0))
Mov(size, to, from) == Instruction(size, "mov", to, from)
Lea(size, name, from) == Instruction(size, "lea", R(name), from)
Jump(op, to) == Instruction(2, op, I(0), I(to))
Call(to) == Instruction(5, "call", I(0), I(to))
CallAt(slot) == Instruction(6, "call", I(0), At(slot))
Ret == Instruction(1, "ret", I(0), I(0))

\* The program that a listing of instructions makes from address base on.
Placed(base, listing) ==
  LET at[i \in 1 .. Len(listing)] ==
        IF i = 1 THEN base ELSE at[i - 1] + listing[i - 1].size
  IN [a \in {at[i] : i \in DOMAIN listing} |-> listing[CHOOSE i \in DOMAIN listing : at[i] = a]]

\* push 5; call target
CallerCode == Placed(caller, <<Push(2, I(5)), Call(target)>>)

\* The tables are cleared, then the sector size of the disk is asked for.
TablesCode == <<
  Instruction(3, "sub", R("esp"), I(16)), Push(1, R("edi")), Mov(5, R("ecx"), I(Entries)),
  Instruction(2, "xor", R("eax"), R("eax")), Mov(5, R("edi"), I(handles)),
  Mov(5, R("edx"), I(names)), Instruction(2, "stos", I(0), I(0)), Jump("jmp", target + 32),
  Lea(7, "esp", M("esp", 0)),
  Mov(3, M("edx", 0), I(0)), Instruction(3, "add", R("edx"), I(64)),
  Instruction(6, "cmp", R("edx"), I(names_end)), Jump("jl", target + 32),
  Lea(4, "eax", M("esp", 8)), Push(1, R("eax")), Lea(4, "ecx", M("esp", 16)), Push(1, R("ecx")),
  Lea(4, "edx", M("esp", 12)), Push(1, R("edx")), Lea(4, "eax", M("esp", 28)),
  Push(1, R("eax")), Push(2, I(0)) >>

\* The flags of the files follow from the sector size; then the allocator.
DiskCode == <<
  CallAt(disk_iat), Mov(4, R("ecx"), M("esp", 4)), Instruction(2, "xor", R("eax"), R("eax")),
  Instruction(6, "cmp", R("ecx"), I(Request)), Jump("ja", target + 93),
  Mov(5, R("eax"), I(Word \div 8)), Push(1, R("esi")), Push(2, I(0)), Push(1, R("ecx")),
  Instruction(5, "or", R("eax"), I(Word \div 4)), Push(5, I(Request)),
  Mov(10, At(disk_flags + 8), I(1)), Mov(5, At(disk_flags), R("eax")),
  Mov(10, At(disk_flags + 4), I(0)), Call(allocator) >>

\* The last error is cleared and the channels are allocated and published.
ChannelsCode == <<
  Instruction(3, "add", R("esp"), I(12)), Push(2, I(0)), Mov(2, R("edi"), R("eax")),
  CallAt(error_iat), Mov(4, R("eax"), M("esp", 28)), Lea(3, "ecx", Indexed("eax", "eax", 2, 0)),
  Instruction(3, "shl", R("ecx"), I(4)), Push(1, R("ecx")), Push(2, I(64)),
  Mov(10, At(names - 4), I(0)), Mov(5, At(names - 8), R("eax")), CallAt(local_iat),
  Push(2, I(0)), Push(5, I(filename)), Mov(5, At(pointer), R("eax")), Call(open) >>

\* The aligned block, with the address of its allocation in the word before it.
AlignedCode == <<
  Mov(4, R("eax"), M("esp", 4)), Push(1, R("esi")), Mov(4, R("esi"), M("esp", 12)),
  Instruction(2, "add", R("eax"), R("esi")), Push(1, R("eax")), Call(malloc),
  Mov(2, R("ecx"), R("eax")), Lea(3, "eax", Indexed("ecx", "esi", 1, 0)),
  Instruction(3, "add", R("esp"), I(4)), Instruction(1, "dec", R("esi"), I(1)),
  Instruction(2, "not", R("esi"), I(0)), Instruction(2, "and", R("eax"), R("esi")),
  Mov(3, M("eax", -4), R("ecx")), Pop("esi"), Ret >>

MallocCode == <<
  Push(6, At(new_mode)), Push(4, M("esp", 8)), Call(nh), Pop("ecx"), Pop("ecx"), Ret >>

\* The new handler's part, after a failed allocation, is not pinned.
NhCode == <<
  Instruction(5, "cmp", M("esp", 4), I(-32)), Jump("ja", nh + 41), Push(4, M("esp", 4)),
  Call(heap), Instruction(2, "test", R("eax"), R("eax")), Pop("ecx"), Jump("jne", nh + 43) >>

\* The small-block heap's part, between the two, is not pinned.
HeapEntryCode == <<
  Push(2, I(12)), Push(5, I(scope)), Call(prologue), Mov(3, R("esi"), M("ebp", 8)),
  Instruction(7, "cmp", At(heap_mode), I(3)), Jump("jne", heap + 70),
  Instruction(6, "cmp", R("esi"), At(threshold)), Jump("ja", heap + 70) >>

HeapTailCode == <<
  Instruction(2, "test", R("esi"), R("esi")), Jump("jne", heap + 75),
  Instruction(1, "inc", R("esi"), I(1)), Instruction(7, "cmp", At(heap_mode), I(1)),
  Jump("je", heap + 90), Instruction(3, "add", R("esi"), I(15)),
  Instruction(3, "and", R("esi"), I(-16)), Push(1, R("esi")), Push(2, I(0)),
  Push(6, At(heap_handle)), CallAt(heap_iat), Call(epilogue), Ret >>

\* The exception frame is linked and unlinked.
PrologueCode == <<
  Push(5, I(handler)), Mov(6, R("eax"), At(tib_head)), Push(1, R("eax")),
  Mov(4, R("eax"), M("esp", 16)), Mov(4, M("esp", 16), R("ebp")), Lea(4, "ebp", M("esp", 16)),
  Instruction(2, "sub", R("esp"), R("eax")), Push(1, R("ebx")), Push(1, R("esi")),
  Push(1, R("edi")), Mov(3, R("eax"), M("ebp", -8)), Mov(3, M("ebp", -24), R("esp")),
  Push(1, R("eax")), Mov(3, R("eax"), M("ebp", -4)), Mov(7, M("ebp", -4), I(-1)),
  Mov(3, M("ebp", -8), R("eax")), Lea(3, "eax", M("ebp", -16)), Mov(6, At(tib_head), R("eax")),
  Ret >>

EpilogueCode == <<
  Mov(3, R("ecx"), M("ebp", -16)), Mov(7, At(tib_head), R("ecx")), Pop("ecx"), Pop("edi"),
  Pop("esi"), Pop("ebx"), Instruction(1, "leave", I(0), I(0)), Push(1, R("ecx")), Ret >>

\* All of it; what the spans leave out traps.
Code ==
  LET parts == {CallerCode, Placed(target, TablesCode \o DiskCode \o ChannelsCode),
                Placed(allocator, AlignedCode), Placed(malloc, MallocCode), Placed(nh, NhCode),
                Placed(nh + 43, <<Ret>>), Placed(heap, HeapEntryCode),
                Placed(heap + 70, HeapTailCode), Placed(prologue, PrologueCode),
                Placed(epilogue, EpilogueCode)}
      all == UNION {DOMAIN p : p \in parts}
  IN [a \in all |-> (CHOOSE p \in parts : a \in DOMAIN p)[a]]
=============================================================================
