---------------------------- MODULE CdStreamWatch ----------------------------
(***************************************************************************)
(* The CD-stream stops of the loader run (cd_stream_tables, _disk,         *)
(* _allocation and _channels) against the code they watch.  The game's     *)
(* thread executes the pinned code one instruction at a time; its system   *)
(* calls answer anything they may answer; at every armed address the       *)
(* observer judges the registers, the stack, the globals and the exception *)
(* frame as its validators do, and arms the next stop.  Something else in  *)
(* the process may rewrite one word or register at any moment.             *)
(***************************************************************************)
EXTENDS GameCode, TLC

CONSTANTS
  MinSector, MaxSector,  \* sector sizes the observer admits
  Tops,         \* stack pointers of the caller
  Geometries,   \* what the disk query may report
  Heaps,        \* mode and small-block threshold of the C runtime's heap
  Blocks,       \* what HeapAlloc may return
  Pointers,     \* what LocalAlloc may return
  Clobbers,     \* what a system call may leave in ecx, edx and the flags
  Usual         \* one of each, in the runs in which something is rewritten

VARIABLES
  cpu,       \* the game's thread and its memory
  armed,     \* the chain and stage of the armed stop
  seen,      \* the copies the observer keeps, by the stop they were taken at
  report,    \* the sector size, block and pointer it reports
  outcome,   \* "running", or how the run finished
  tamper     \* whether something "never" is rewritten, "later" or is "done"

vars == <<cpu, armed, seen, report, outcome, tamper>>

\* Addresses of the system's functions, outside the memory modelled.
disk_thunk == 16
disk_implementation == 20
heap_function == 24
error_thunk == 28
error_implementation == 32
local_thunk == 36
local_implementation == 40

\* Mutant of ChannelStops: the last stop is behind the call of open, not at it.
ChannelStopsAfterOpen ==
  <<target + 144, error_thunk, error_implementation, target + 150, target + 178,
    local_thunk, local_implementation, target + 184, target + 201>>

ChannelStops ==
  <<target + 144, error_thunk, error_implementation, target + 150, target + 178,
    local_thunk, local_implementation, target + 184, target + 196>>

StopAt == [
  tables |-> <<target, target + 68>>,
  disk |-> <<disk_thunk, disk_implementation, target + 74, target + 132>>,
  allocation |-> <<allocator, heap, heap + 22, heap + 30, heap + 99, heap_function, heap + 105,
                   allocator + 17, allocator + 30, target + 137>>,
  channels |-> ChannelStops]

\* The stack of the caller and the calls below it, and the data of the image.
Stack(top) == {top + 4 * k : k \in -36 .. 12}
TableCells == {handles - 4 + 4 * k : k \in 0 .. Entries + 2} \cup {names + 64 * k + b : k \in 0 .. Entries - 1, b \in {0, 1}}
Globals ==
  TableCells \cup {disk_flags + 4 * k : k \in -1 .. 3} \cup {pointer - 4, pointer, pointer + 4}
  \cup {new_mode, threshold, heap_handle, heap_mode, tib_head, last_error,
        disk_iat, heap_iat, error_iat, local_iat}

StackLow(top) == top - 160
StackHigh(top) == top + 64
Teb(top) == top + 64

Memory(top, h) ==
  [a \in Stack(top) \cup Globals |->
    CASE a = tib_head -> top + 44
      [] a = heap_mode -> h.mode
      [] a = threshold -> h.threshold
      [] a = heap_handle -> 2 * Low
      [] a = disk_iat -> disk_thunk
      [] a = heap_iat -> heap_function
      [] a = error_iat -> error_thunk
      [] a = local_iat -> local_thunk
      [] a \in {new_mode, pointer} -> 0
      [] OTHER -> 9]

\* What may be answered in this run.
Given(field, set) == IF tamper = "never" THEN set ELSE {Usual[field]}

Init ==
  /\ tamper \in {"never", "later"}
  /\ \E top \in Given("top", Tops), h \in Given("heap", Heaps) :
       cpu = [reg |-> [eax |-> 6, ebx |-> 3, ecx |-> 7, edx |-> 8, esi |-> 5, edi |-> 24,
                       ebp |-> top + 20, esp |-> top],
              fl |-> {}, pc |-> caller, mem |-> Memory(top, h)]
  /\ armed = <<"tables", 1>>
  /\ seen = [tables |-> cpu]
  /\ report = [sector |-> 0, raw |-> 0, aligned |-> 0, metadata |-> 0, bytes |-> 0, pointer |-> 0]
  /\ outcome = "running"

-----------------------------------------------------------------------------
\* What the observer reads; -1 where nothing is mapped.
Mem(a) == IF (a % Word) \in DOMAIN cpu.mem THEN cpu.mem[a % Word] ELSE -1
Words(a, n) == [k \in 1 .. n |-> Mem(a + 4 * (k - 1))]
At0(name, a) == seen[name].mem[a]
Same(name, cells) == \A a \in cells : Mem(a) = At0(name, a)

Keeps(c, r, kept) == \A n \in kept : r.reg[n] = c.reg[n]
NoTrapOrDirection(c, r) == "DF" \notin c.fl /\ "DF" \notin r.fl
FlagsButStatus(c, r) == c.fl \ Status = r.fl \ Status
Judged == Status \ {"AF"}
TestFlags(v) == ResultFlags(v)

PowerOfTwo(v) == v > 0 /\ \E k \in 0 .. Bits - 1 : v = 2 ^ k
alignment_valid(a) == a >= MinSector /\ a <= MaxSector /\ PowerOfTwo(a)

cd_stream_disk_geometry(g) ==
  /\ alignment_valid(g.bytes)
  /\ PowerOfTwo(g.sectors) /\ g.sectors <= Highest \div g.bytes
  /\ g.total > 0 /\ g.free <= g.total

cd_stream_disk_flags(sector) ==
  IF sector <= Request THEN Word \div 8 + Word \div 4 ELSE Word \div 4

cd_stream_allocation_request(a) ==
  /\ alignment_valid(a)
  /\ Mem(new_mode) = 0
  /\ Mem(heap_handle) \in Low .. Word - Low - 1 /\ Mem(heap_handle) % 8 = 0
  /\ \/ Mem(heap_mode) = 1
     \/ Mem(heap_mode) = 3 /\ Mem(threshold) < Request + a

Aligned(raw, a) == AndWord((raw + a) % Word, NotWord(a - 1))

\* cd_stream_allocation_layout: the block and its header fit below the top.
LayoutFits(raw, a) ==
  /\ alignment_valid(a) /\ raw >= Low /\ raw % 8 = 0
  /\ raw <= Highest - Request - a
  /\ Aligned(raw, a) >= (raw + 4) % Word /\ Aligned(raw, a) <= (raw + a) % Word

Block(raw, a) ==
  [report EXCEPT !.raw = raw, !.aligned = Aligned(raw, a), !.bytes = Request + a,
                 !.metadata = (Aligned(raw, a) - 4) % Word]

\* bytes from p on against a range, the sum in 32 bits.
Overlaps(p, bytes, low, high) == p < high /\ low < (p + bytes) % Word

\* Mutant of HitsThread: the stack alone, not the thread's block.
HitsThreadStack(p, bytes) ==
  LET top == seen.tables.reg.esp IN Overlaps(p, bytes, StackLow(top), StackHigh(top))

HitsThread(p, bytes) ==
  LET top == seen.tables.reg.esp
  IN Overlaps(p, bytes, StackLow(top), StackHigh(top)) \/ Overlaps(p, bytes, Teb(top), Teb(top) + 56)

ChannelBytes == 240
cd_stream_channels_range(p) ==
  /\ p >= Low /\ p % 4 = 0 /\ p <= Highest - ChannelBytes
  /\ ~ Overlaps(p, ChannelBytes, report.raw, report.raw + report.bytes)

BlockCells == {a \in {report.raw + 4 * k : k \in 0 .. report.bytes \div 4 - 1} : a # report.metadata}
ChannelCells(p) == {p + 4 * k : k \in 0 .. ChannelBytes \div 4 - 1}

-----------------------------------------------------------------------------
\* The saved stack pointer is a word's address with room below it.
OnStack(c, room) == c.reg.esp >= Low + room /\ c.reg.esp % 4 = 0

\* The registers each stop expects, from the copies taken at earlier ones.
cd_stream_tables_frame(stage, r) ==
  LET c == seen.tables
  IN /\ OnStack(c, 64)
     /\ NoTrapOrDirection(c, r) /\ Keeps(c, r, {"ebx", "esi", "ebp"})
     /\ \/ /\ stage = 1
           /\ r.reg.esp = Above(c, -8)
           /\ Keeps(c, r, {"eax", "ecx", "edx", "edi"}) /\ r.fl = c.fl
        \/ /\ stage = 2
           /\ r.reg.esp = Above(c, -48) /\ r.reg.eax = Above(c, -12)
           /\ r.reg.ecx = Above(c, -16) /\ r.reg.edx = Above(c, -24)
           /\ r.reg.edi = handles + 4 * Entries
           /\ r.fl \cap Judged = {"ZF", "PF"} /\ FlagsButStatus(c, r)

cd_stream_disk_frame(stage, r) ==
  LET c == seen.tables
  IN /\ OnStack(c, 64)
     /\ NoTrapOrDirection(c, r) /\ Keeps(c, r, {"ebx", "esi", "ebp"})
     /\ r.reg.edi = handles + 4 * Entries
     /\ \/ /\ stage \in {1, 2}
           /\ r.reg.esp = Above(c, -52) /\ r.reg.eax = Above(c, -12)
           /\ r.reg.ecx = Above(c, -16) /\ r.reg.edx = Above(c, -24)
           /\ r.fl \cap Judged = {"ZF", "PF"} /\ FlagsButStatus(c, r)
        \/ stage = 3 /\ r.reg.esp = Above(c, -28)
        \/ /\ stage = 4
           /\ Keeps(seen.disk_return, r, {"edx"}) /\ FlagsButStatus(seen.disk_return, r)
           /\ r.reg.esp = Above(c, -44) /\ r.reg.ecx = report.sector
           /\ r.reg.eax = cd_stream_disk_flags(report.sector)
           /\ r.fl \cap Judged = {"PF"}

\* How far below the caller's each stop's stack pointer is.
Delta == <<4, 36, 80, 80, 92, 96, 80, 12, 8, 0>>
ExceptionFrameActive(stage) == stage \in 3 .. 7

\* Mutant of EsiAt: restored one stop early.
EsiAtRestored(stage, a, c) ==
  IF ExceptionFrameActive(stage) THEN Request + a
  ELSE IF stage \in 2 .. 8 THEN a ELSE c.reg.esi

\* The source index along the allocation: the size, the alignment, its mask.
EsiAt(stage, a, c) ==
  IF ExceptionFrameActive(stage) THEN Request + a
  ELSE IF stage = 9 THEN NotWord(a - 1)
  ELSE IF stage \in 2 .. 8 THEN a ELSE c.reg.esi

cd_stream_allocation_frame(stage, r) ==
  LET c == seen.allocation
      a == report.sector
  IN /\ OnStack(c, 164) /\ alignment_valid(a)
     /\ NoTrapOrDirection(c, r) /\ Keeps(c, r, {"ebx", "edi"})
     /\ r.reg.ebp = IF ExceptionFrameActive(stage) THEN Above(c, -40) ELSE c.reg.ebp
     /\ r.reg.esi = EsiAt(stage, a, c)
     /\ r.reg.esp = Above(c, -Delta[stage])
     /\ CASE stage = 1 -> Keeps(c, r, {"eax", "ecx", "edx"}) /\ r.fl = c.fl
          [] stage = 2 -> r.reg.eax = Request + a /\ Keeps(c, r, {"ecx", "edx"})
          [] stage \in 3 .. 6 -> r.reg.eax = Above(c, -56) /\ Keeps(c, r, {"ecx", "edx"})
          [] stage = 7 -> TRUE
          [] stage = 8 ->
               /\ r.reg.eax = report.raw /\ r.reg.ecx = 0 /\ Keeps(seen.heap_return, r, {"edx"})
               /\ r.fl \cap Judged = TestFlags(report.raw)
          [] OTHER ->
               /\ r.reg.eax = report.aligned /\ r.reg.ecx = report.raw
               /\ Keeps(seen.heap_return, r, {"edx"})
               /\ r.fl \cap Judged = TestFlags(report.aligned) /\ FlagsButStatus(seen.heap_return, r)

Offset == <<8, 4, 4, 12, 4, 0, 0, 12, 4>>
cd_stream_channels_frame(stage, r) ==
  LET c == seen.channels
  IN /\ OnStack(c, 0) /\ c.reg.esp <= Highest - 44
     /\ NoTrapOrDirection(c, r) /\ Keeps(c, r, {"ebx", "esi", "ebp"})
     /\ r.reg.edi = c.reg.eax
     /\ r.reg.esp = Above(c, Offset[stage])
     /\ CASE stage \in 1 .. 3 ->
               /\ Keeps(c, r, {"eax", "ecx", "edx"})
               /\ r.fl \cap Status = AddFlags(c.reg.esp, 12) \ {"CF", "ZF"}
               /\ FlagsButStatus(c, r)
          [] stage \in {4, 8} -> TRUE
          [] stage \in 5 .. 7 ->
               /\ r.reg.eax = 5 /\ r.reg.ecx = ChannelBytes /\ Keeps(seen.error_return, r, {"edx"})
               /\ r.fl \cap {"CF", "PF", "ZF", "SF"} = {"PF"} /\ FlagsButStatus(seen.error_return, r)
          [] OTHER -> Keeps(seen.local_return, r, {"eax", "ecx", "edx"}) /\ r.fl = seen.local_return.fl

-----------------------------------------------------------------------------
\* What the run keeps an eye on at every stop: the caller's words, the tables,
\* the globals and the chain of exception frames, as they were last seen.
TablesAsCleared ==
  \A a \in TableCells :
    Mem(a) = IF a \in {handles + 4 * k : k \in 0 .. Entries - 1} \cup {names + 64 * k : k \in 0 .. Entries - 1}
             THEN 0 ELSE At0("tables", a)
DiskGlobals == {disk_flags + 4 * k : k \in -1 .. 3}
PointerCells == {pointer - 4, pointer, pointer + 4}
HeapGlobals == {new_mode, threshold, heap_handle, heap_mode}

\* The words above the game's return address at the first stop: the prelude's
\* parent and its callers, without a gap; ten words stand for the 188 bytes the
\* two comparisons read.  The return address itself is compared at the stops of
\* the tables and of the disk only.
ParentCells == {seen.tables.reg.esp + 4 * k : k \in 1 .. 10}
OuterReturn == {seen.tables.reg.esp}

\* The exception record that heads the chain, further up the stack.
PriorRecord == {seen.tables.reg.esp + 44, seen.tables.reg.esp + 48}
HeadUnmoved == Same("tables", {tib_head})

\* Mutant of FrameUnlinked: the head of the chain is not read.
FrameUnlinkedRecord == Same("tables", PriorRecord)

\* No frame of the heap function is linked.  From the allocation on the prior
\* record is compared as well as the head of the chain.
FrameUnlinked == HeadUnmoved /\ Same("tables", PriorRecord)

\* The exception frame of the heap function, word by word from the stack up.
FrameLinked ==
  LET c == seen.allocation
      A == c.reg.esp
      frame == Words(A - 80, 11)
  IN /\ Mem(tib_head) = A - 56
     /\ frame[1] = c.reg.edi /\ frame[2] = report.sector /\ frame[3] = c.reg.ebx
     /\ frame[5] = A - 80 /\ frame[7] = At0("tables", tib_head) /\ frame[8] = handler
     /\ frame[9] = scope /\ frame[10] = Highest /\ frame[11] = c.reg.ebp
     /\ Same("tables", PriorRecord)

\* The first check that fails names the refusal; "none" if all hold.
FirstRefusal(checks) ==
  LET failed == {i \in DOMAIN checks : ~ checks[i][1]}
  IN IF failed = {} THEN "none"
     ELSE checks[CHOOSE i \in failed : \A j \in failed : i <= j][2]

tables_refusal(stage) ==
  LET T == seen.tables.reg.esp
  IN FirstRefusal(<<
       <<cd_stream_tables_frame(stage, cpu), "cd_stream_tables_frame">>,
       <<IF stage = 2 THEN TablesAsCleared ELSE Same("tables", TableCells), "cd_stream_tables_memory_drift">>,
       <<Words(T - 8, 2) = <<caller + 7, 5>> /\
         (stage = 2 => Words(cpu.reg.esp, 6) = <<0, T - 12, T - 24, T - 16, T - 20, seen.tables.reg.edi>>),
         "cd_stream_tables_arguments">>,
       <<Same("tables", OuterReturn \cup ParentCells), "cd_stream_tables_caller_drift">>,
       <<HeadUnmoved /\ Same("tables", {last_error}), "cd_stream_tables_parent_drift">>,
       <<stage = 2 => Mem(disk_iat) = disk_thunk, "cd_stream_disk_precondition_shape">> >>)

Returned(g) == [sectors |-> g[4], bytes |-> g[1], free |-> g[3], total |-> g[2]]

disk_refusal(stage) ==
  LET T == seen.tables.reg.esp
      locals == Words(T - 28, 7)
      geometry == Words(T - 24, 4)
  IN FirstRefusal(<<
       <<Mem(disk_iat) = disk_thunk, "cd_stream_disk_shape_drift">>,
       <<cd_stream_disk_frame(stage, cpu), "cd_stream_disk_frame">>,
       <<locals[1] = seen.tables.reg.edi /\ locals[6] = caller + 7 /\ locals[7] = 5, "cd_stream_disk_arguments">>,
       <<stage \in {1, 2} => Words(cpu.reg.esp, 6) = <<target + 74, 0, T - 12, T - 24, T - 16, T - 20>>,
         "cd_stream_disk_arguments">>,
       <<stage = 4 => /\ Words(cpu.reg.esp, 4) = <<Request, report.sector, 0, seen.tables.reg.esi>>
                      /\ geometry = [k \in 1 .. 4 |-> At0("disk_return", T - 28 + 4 * k)],
         "cd_stream_disk_arguments">>,
       <<\A a \in DiskGlobals :
           Mem(a) = IF stage # 4 THEN At0("tables_done", a)
                    ELSE CASE a = disk_flags -> cd_stream_disk_flags(report.sector)
                           [] a = disk_flags + 4 -> 0
                           [] a = disk_flags + 8 -> 1
                           [] OTHER -> At0("tables_done", a), "cd_stream_disk_globals_drift">>,
       <</\ Same("tables_done", TableCells) /\ Same("tables", OuterReturn \cup ParentCells) /\ HeadUnmoved
         /\ CASE stage \in {1, 2} -> Same("tables", {last_error})
              [] stage = 3 -> TRUE
              [] OTHER -> Same("disk_return", {last_error}), "cd_stream_disk_parent_drift">>,
       <<stage = 3 => cpu.reg.eax # 0, "cd_stream_disk_query_failed">>,
       <<stage = 3 => cd_stream_disk_geometry(Returned(geometry)), "cd_stream_disk_geometry_rejected">>,
       <<stage = 4 => Mem(heap_iat) = heap_function, "cd_stream_allocation_precondition_shape">>,
       <<stage = 4 => cd_stream_allocation_request(report.sector), "cd_stream_allocation_request_rejected">> >>)

Nested(a) ==
  <<nh + 16, Request + a, malloc + 15, Request + a, 0, allocator + 17, Request + a, seen.allocation.reg.esi>>

allocation_refusal(stage) ==
  LET A == seen.allocation.reg.esp
      a == report.sector
      fresh == Block(cpu.reg.eax, a)
  IN FirstRefusal(<<
       <<Mem(disk_iat) = disk_thunk /\ Mem(heap_iat) = heap_function, "cd_stream_allocation_shape_drift">>,
       <<Same("allocation", HeapGlobals), "cd_stream_allocation_globals_drift">>,
       <<cd_stream_allocation_frame(stage, cpu), "cd_stream_allocation_frame">>,
       <<Same("allocation", {A + 4 * k : k \in 0 .. 10}) /\ Mem(A - 4) = target + 137, "cd_stream_allocation_arguments">>,
       <<stage \in 2 .. 7 => Words(A - 36, 8) = Nested(a), "cd_stream_allocation_arguments">>,
       <<stage = 6 => Mem(cpu.reg.esp) = heap + 105, "cd_stream_allocation_arguments">>,
       <<stage \in {5, 6} => Words(cpu.reg.esp + 4 * (stage - 5), 3) = <<At0("allocation", heap_handle), 0, Request + a>>,
         "cd_stream_allocation_arguments">>,
       <<stage = 3 => ("ZF" \in cpu.fl <=> At0("allocation", heap_mode) = 3), "cd_stream_allocation_heap_branch">>,
       <<stage = 4 => At0("allocation", heap_mode) = 3 /\ {"CF", "ZF"} \cap cpu.fl = {},
         "cd_stream_allocation_threshold_branch">>,
       <<IF ExceptionFrameActive(stage) THEN FrameLinked ELSE FrameUnlinked, "cd_stream_allocation_seh_drift">>,
       <<Same("tables_done", TableCells) /\ Same("allocation", DiskGlobals) /\ Same("tables", ParentCells),
         "cd_stream_allocation_parent_drift">>,
       <<stage = 7 => cpu.reg.eax # 0, "cd_stream_allocation_failed">>,
       <<stage = 7 => LayoutFits(cpu.reg.eax, a) /\ ~ HitsThread(cpu.reg.eax, fresh.bytes),
         "cd_stream_allocation_block_rejected">>,
       <<stage = 7 => \A k \in 0 .. fresh.bytes \div 4 - 1 : Mem(fresh.raw + 4 * k) # -1, "cd_stream_allocation_block_unreadable">>,
       <<stage \in 8 .. 10 =>
           /\ Same("heap_return", BlockCells)
           /\ Mem(report.metadata) = IF stage = 10 THEN report.raw ELSE At0("heap_return", report.metadata),
         "cd_stream_allocation_content_drift">>,
       <<stage = 10 => Mem(error_iat) = error_thunk /\ Mem(local_iat) = local_thunk, "cd_stream_channels_precondition_shape">>,
       <<stage = 10 => Mem(cpu.reg.esp + 40) = 5 /\ Mem(pointer) = 0, "cd_stream_channels_precondition_state">> >>)

channels_refusal(stage) ==
  LET A == seen.channels.reg.esp
      published == IF stage = 8 THEN cpu.reg.eax ELSE report.pointer
  IN FirstRefusal(<<
       <<Mem(disk_iat) = disk_thunk /\ Mem(heap_iat) = heap_function /\ Mem(error_iat) = error_thunk
         /\ Mem(local_iat) = local_thunk, "cd_stream_channels_shape_drift">>,
       <<cd_stream_channels_frame(stage, cpu), "cd_stream_channels_frame">>,
       <<Same("channels", {A + 12 + 4 * k : k \in 0 .. 7}), "cd_stream_channels_arguments">>,
       <<CASE stage = 1 -> Mem(cpu.reg.esp) = 0
           [] stage \in {2, 3} -> Words(cpu.reg.esp, 2) = <<target + 150, 0>>
           [] stage = 5 -> Words(cpu.reg.esp, 2) = <<64, ChannelBytes>>
           [] stage \in {6, 7} -> Words(cpu.reg.esp, 3) = <<target + 184, 64, ChannelBytes>>
           [] stage = 9 -> Words(cpu.reg.esp, 2) = <<filename, 0>>
           [] OTHER -> TRUE, "cd_stream_channels_arguments">>,
       <<\A a \in TableCells :
           Mem(a) = IF stage >= 5 /\ a \in {names - 8, names - 4}
                    THEN (IF a = names - 8 THEN 5 ELSE 0) ELSE At0("tables_done", a),
         "cd_stream_channels_tables_drift">>,
       <<\A a \in PointerCells :
           Mem(a) = IF stage = 9 /\ a = pointer THEN report.pointer ELSE At0("channels", a),
         "cd_stream_channels_pointer_drift">>,
       <<FrameUnlinked, "cd_stream_channels_seh_drift">>,
       <<Same("allocation", DiskGlobals) /\ Same("tables", ParentCells), "cd_stream_channels_parent_drift">>,
       <<Same("allocation", HeapGlobals) /\ Same("channels", BlockCells) /\ Mem(report.metadata) = report.raw,
         "cd_stream_channels_allocation_drift">>,
       <<stage = 4 => Mem(last_error) = 0, "cd_stream_channels_error_not_reset">>,
       <<stage = 8 => cpu.reg.eax # 0, "cd_stream_channels_allocation_failed">>,
       <<stage = 8 => cd_stream_channels_range(cpu.reg.eax) /\ ~ HitsThread(cpu.reg.eax, ChannelBytes),
         "cd_stream_channels_block_rejected">>,
       <<stage \in {8, 9} => \A a \in ChannelCells(published) : Mem(a) # -1, "cd_stream_channels_block_unreadable">>,
       <<stage \in {8, 9} => \A a \in ChannelCells(published) : Mem(a) = 0, "cd_stream_channels_nonzero_block">> >>)

Refusal ==
  CASE armed[1] = "tables" -> tables_refusal(armed[2])
    [] armed[1] = "disk" -> disk_refusal(armed[2])
    [] armed[1] = "allocation" -> allocation_refusal(armed[2])
    [] armed[1] = "channels" -> channels_refusal(armed[2])

-----------------------------------------------------------------------------
\* The copies a passed stop leaves with the observer, and what it reports.
Copies ==
  CASE armed = <<"tables", 2>> -> {"tables_done"}
    [] armed = <<"disk", 3>> -> {"disk_return"}
    [] armed = <<"disk", 4>> -> {"allocation"}
    [] armed = <<"allocation", 7>> -> {"heap_return"}
    [] armed = <<"allocation", 10>> -> {"channels"}
    [] armed = <<"channels", 4>> -> {"error_return"}
    [] armed = <<"channels", 8>> -> {"local_return"}
    [] OTHER -> {}

Reported ==
  CASE armed = <<"disk", 3>> -> [report EXCEPT !.sector = Mem(seen.tables.reg.esp - 24)]
    [] armed = <<"allocation", 7>> -> Block(cpu.reg.eax, report.sector)
    [] armed = <<"channels", 8>> -> [report EXCEPT !.pointer = cpu.reg.eax]
    [] OTHER -> report

\* The stop that is armed after this one: in heap mode 1 the comparison with
\* the threshold is not executed.
NextStop ==
  CASE armed = <<"tables", 2>> -> <<"disk", 1>>
    [] armed = <<"disk", 4>> -> <<"allocation", 1>>
    [] armed = <<"allocation", 10>> -> <<"channels", 1>>
    [] armed = <<"allocation", 3>> -> <<"allocation", IF At0("allocation", heap_mode) = 1 THEN 5 ELSE 4>>
    [] OTHER -> <<armed[1], armed[2] + 1>>

AtStop == cpu.pc = StopAt[armed[1]][armed[2]]

\* The breakpoint of the armed stop is hit and the stop is judged.
Stop ==
  /\ outcome = "running" /\ AtStop
  /\ UNCHANGED <<cpu, tamper>>
  /\ IF Refusal # "none"
     THEN outcome' = Refusal /\ UNCHANGED <<armed, seen, report>>
     ELSE /\ seen' = [n \in DOMAIN seen \cup Copies |-> IF n \in Copies THEN cpu ELSE seen[n]]
          /\ report' = Reported
          /\ IF armed = <<"channels", 9>>
             THEN outcome' = "cd_stream_channels_verified" /\ UNCHANGED armed
             ELSE armed' = NextStop /\ UNCHANGED outcome

\* The game's thread executes its next instruction, or traps.
Execute ==
  /\ outcome = "running" /\ ~ AtStop /\ cpu.pc \in DOMAIN Code /\ ~ Traps(Code, cpu)
  /\ cpu' \in Steps(Code, cpu)
  /\ UNCHANGED <<armed, seen, report, outcome, tamper>>

Functions == {disk_implementation, heap_function, error_implementation, local_implementation}
Thunk == (disk_thunk :> disk_implementation) @@ (error_thunk :> error_implementation)
         @@ (local_thunk :> local_implementation)

\* The import's thunk goes on to the implementation.
FollowThunk ==
  /\ outcome = "running" /\ ~ AtStop /\ cpu.pc \in DOMAIN Thunk
  /\ cpu' = [cpu EXCEPT !.pc = Thunk[cpu.pc]]
  /\ UNCHANGED <<armed, seen, report, outcome, tamper>>

\* Code of the game that is not pinned: what it does is not seen.
Unpinned == {open, nh + 21, nh + 41, heap + 32}
RunOn == outcome = "running" /\ cpu.pc \in Unpinned /\ UNCHANGED vars

\* The return address and the first argument of a function are on the stack.
CallOnStack == {cpu.reg.esp, Above(cpu, 4)} \subseteq DOMAIN cpu.mem

\* A thread that traps ends the run: an exception nothing was armed for.
Trap ==
  /\ outcome = "running" /\ ~ AtStop /\ cpu.pc \notin DOMAIN Thunk \cup Unpinned
  /\ IF cpu.pc \in Functions THEN ~ CallOnStack ELSE Traps(Code, cpu)
  /\ outcome' = "entry_unexpected_exception"
  /\ UNCHANGED <<cpu, armed, seen, report, tamper>>

\* A system function pops its arguments and returns; ecx, edx and the flags
\* are its own to change, and memory may be mapped.
Return(arguments, result, clobber, changed) ==
  [cpu EXCEPT
     !.pc = cpu.mem[cpu.reg.esp],
     !.reg = [@ EXCEPT !.esp = Above(cpu, 4 + arguments), !.eax = result,
                       !.ecx = clobber.ecx, !.edx = clobber.edx],
     !.fl = clobber.fl,
     !.mem = changed @@ @]

Argument(n) == Mem(cpu.reg.esp + 4 * n)
Called(function) ==
  /\ outcome = "running" /\ ~ AtStop /\ cpu.pc = function
  /\ CallOnStack

\* GetDiskFreeSpaceA: four results through pointers, or failure.
QueryDisk ==
  /\ Called(disk_implementation)
  /\ \E clobber \in Given("clobber", Clobbers), g \in Given("geometry", Geometries) :
       \/ cpu' = Return(20, 0, clobber, last_error :> 3)
       \/ /\ {Argument(k) : k \in 2 .. 5} \subseteq DOMAIN cpu.mem
          /\ cpu' = Return(20, 1, clobber,
                      (Argument(2) :> g.sectors) @@ (Argument(3) :> g.bytes) @@
                      (Argument(4) :> g.free) @@ (Argument(5) :> g.total))
  /\ UNCHANGED <<armed, seen, report, outcome, tamper>>

Junk(raw, bytes) == [a \in {raw + 4 * k : k \in 0 .. bytes \div 4 - 1} \ DOMAIN cpu.mem |-> 9]

\* HeapAlloc: a block, or null.
AllocateHeap ==
  /\ Called(heap_function)
  /\ \E clobber \in Given("clobber", Clobbers), raw \in Given("block", Blocks) :
       cpu' = Return(12, raw, clobber,
                IF raw >= Low /\ raw + Request + report.sector <= Word THEN Junk(raw, Request + report.sector) ELSE << >>)
  /\ UNCHANGED <<armed, seen, report, outcome, tamper>>

\* SetLastError.
SetLastError ==
  /\ Called(error_implementation)
  /\ \E clobber \in Given("clobber", Clobbers) : cpu' = Return(4, cpu.reg.eax, clobber, last_error :> Argument(1))
  /\ UNCHANGED <<armed, seen, report, outcome, tamper>>

\* LocalAlloc: zeroed memory, or null.
AllocateLocal ==
  /\ Called(local_implementation)
  /\ \E clobber \in Given("clobber", Clobbers), p \in Given("pointer", Pointers) :
       cpu' = Return(8, p, clobber,
                IF p >= Low /\ p + ChannelBytes <= Word
                THEN [a \in ChannelCells(p) \ DOMAIN cpu.mem |-> IF Argument(1) = 64 THEN 0 ELSE 9] ELSE << >>)
  /\ UNCHANGED <<armed, seen, report, outcome, tamper>>

\* Something else in the process rewrites one register, word or flag.
Tamper ==
  /\ tamper = "later" /\ outcome = "running"
  /\ tamper' = "done"
  /\ \/ \E n \in Registers, v \in {0, 4} : cpu' = [cpu EXCEPT !.reg[n] = IF v = 0 THEN 0 ELSE (@ + v) % Word]
     \/ \E a \in DOMAIN cpu.mem, v \in {0, 4} : cpu' = [cpu EXCEPT !.mem[a] = IF v = 0 THEN 0 ELSE (@ + v) % Word]
     \/ \E f \in {"CF", "PF", "ZF", "SF", "OF", "DF", "IF"} :
          cpu' = [cpu EXCEPT !.fl = IF f \in @ THEN @ \ {f} ELSE @ \cup {f}]
  /\ UNCHANGED <<armed, seen, report, outcome>>

Game == Execute \/ FollowThunk \/ QueryDisk \/ AllocateHeap \/ SetLastError \/ AllocateLocal

Next == Stop \/ Game \/ Trap \/ RunOn \/ Tamper \/ (outcome # "running" /\ UNCHANGED vars)

\* The debugger answers its stop and lets the thread run on; nothing is asked of
\* a run in which something is rewritten.
Spec ==
  /\ Init /\ [][Next]_vars
  /\ WF_vars(tamper = "never" /\ Stop) /\ WF_vars(tamper = "never" /\ Game)

-----------------------------------------------------------------------------
\* Refusals that lay the failure on the world outside the game: each has its
\* own cause there.
EnvironmentRefusals ==
  {"cd_stream_disk_query_failed", "cd_stream_disk_geometry_rejected",
   "cd_stream_allocation_request_rejected", "cd_stream_allocation_failed",
   "cd_stream_allocation_block_rejected", "cd_stream_channels_allocation_failed",
   "cd_stream_channels_block_rejected"}

\* Two ranges of addresses have an address in common.
Meet(p, bytes, q, size) == p + bytes > q /\ q + size > p
OnThread(p, bytes) ==
  LET top == seen.tables.reg.esp IN Meet(p, bytes, StackLow(top), StackHigh(top) + 56 - StackLow(top))

\* The game's own code, left alone, is never refused for its registers, stack,
\* globals or exception frame: twenty-five stops of it are judged by formulas
\* that were written apart from it.  A block is refused only if it is not one
\* the heap may return, or lies on the thread.
GenuineRunNotRefused ==
  tamper # "done" =>
    /\ outcome \in EnvironmentRefusals \cup {"running", "cd_stream_channels_verified"}
    /\ outcome = "cd_stream_allocation_block_rejected" =>
         LET raw == cpu.reg.eax
             bytes == Request + report.sector
         IN raw < Low \/ raw % 8 # 0 \/ raw + bytes > Highest \/ OnThread(raw, bytes)
    /\ outcome = "cd_stream_channels_block_rejected" =>
         LET p == cpu.reg.eax
         IN p < Low \/ p % 4 # 0 \/ p + ChannelBytes > Highest \/ OnThread(p, ChannelBytes)
            \/ Meet(p, ChannelBytes, report.raw, report.bytes)

\* The word before the aligned block, which the game writes, and the block it
\* hands on lie inside the allocation, which does not wrap and is neither the
\* thread's stack nor the channels.
HeaderInsideBlock ==
  report.raw # 0 =>
    /\ report.metadata >= report.raw /\ report.metadata + 4 = report.aligned
    /\ report.aligned % report.sector = 0
    /\ report.aligned + Request <= report.raw + report.bytes
    /\ report.raw + report.bytes <= Word /\ ~ OnThread(report.raw, report.bytes)
    /\ report.pointer # 0 => ~ Meet(report.pointer, ChannelBytes, report.raw, report.bytes)

\* Whatever one word, register or flag was rewritten on the way: in a run that
\* is reported verified the process holds what is reported, and the caller's
\* registers, the game's own call, the words above its return address and the
\* chain of exception records are as before the first of the twenty-five stops.
\* The return address is not promised: once the disk's stops are passed nothing
\* compares it.
ReportIsTrue ==
  outcome = "cd_stream_channels_verified" =>
    LET start == seen.tables
        T == start.reg.esp
    IN /\ Keeps(start, cpu, {"ebx", "esi", "ebp"})
       /\ cpu.reg.edi = report.aligned /\ cpu.reg.esp = T - 40
       /\ Words(cpu.reg.esp, 2) = <<filename, 0>>
       /\ Words(T - 32, 2) = <<start.reg.esi, start.reg.edi>>
       /\ Words(T - 8, 2) = <<caller + 7, 5>>
       /\ \A a \in ParentCells \cup PriorRecord \cup {tib_head} : Mem(a) = start.mem[a]
       /\ Mem(report.metadata) = report.raw
       /\ Mem(pointer) = report.pointer
       /\ Words(names - 8, 2) = <<5, 0>>
       /\ \A k \in 0 .. Entries - 1 : Mem(handles + 4 * k) = 0 /\ Mem(names + 64 * k) = 0
       /\ Words(disk_flags, 3) = <<cd_stream_disk_flags(report.sector), 0, 1>>
       /\ \A a \in ChannelCells(report.pointer) : Mem(a) = 0

\* Every armed address is reached: left alone, the game's thread comes to each
\* of them, and the run ends with a verdict instead of at its deadline.
StopsAreReached == tamper = "never" => <>(outcome # "running")
=============================================================================
