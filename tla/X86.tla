-------------------------------- MODULE X86 --------------------------------
(***************************************************************************)
(* The part of the 32-bit processor that the game's pinned code uses,      *)
(* over words of Bits bits.  A processor is a record: registers reg, set   *)
(* flags fl, program counter pc and memory mem, a function on the          *)
(* addresses that are mapped (a word, or a byte, per address).  A program  *)
(* maps the addresses of its instructions to them.                         *)
(***************************************************************************)
EXTENDS Integers, FiniteSets, Sequences

CONSTANT Bits

Word == 2 ^ Bits
Highest == Word - 1
Negative(v) == v >= Word \div 2
Bit(v, k) == (v \div 2 ^ k) % 2

\* The word with a bit wherever the pair of bits of x and y is one of pairs.
Bitwise(pairs, x, y) ==
  LET below[k \in 0 .. Bits] ==
        IF k = 0 THEN 0
        ELSE below[k - 1] + (IF <<Bit(x, k - 1), Bit(y, k - 1)>> \in pairs THEN 2 ^ (k - 1) ELSE 0)
  IN below[Bits]

AndWord(x, y) == Bitwise({<<1, 1>>}, x, y)
OrWord(x, y) == Bitwise({<<0, 1>>, <<1, 0>>, <<1, 1>>}, x, y)
XorWord(x, y) == Bitwise({<<0, 1>>, <<1, 0>>}, x, y)
NotWord(x) == Highest - x

Registers == {"eax", "ebx", "ecx", "edx", "esi", "edi", "ebp", "esp"}
Status == {"CF", "PF", "AF", "ZF", "SF", "OF"}
EvenParity(v) == Cardinality({k \in 0 .. 7 : Bit(v, k) = 1}) % 2 = 0

ResultFlags(v) ==
  {f \in {"PF", "ZF", "SF"} :
     \/ f = "PF" /\ EvenParity(v)
     \/ f = "ZF" /\ v = 0
     \/ f = "SF" /\ Negative(v)}

AddFlags(x, y) ==
  LET v == (x + y) % Word
  IN ResultFlags(v) \cup
     {f \in {"CF", "AF", "OF"} :
        \/ f = "CF" /\ x + y >= Word
        \/ f = "AF" /\ (x % 16) + (y % 16) >= 16
        \/ f = "OF" /\ (Negative(x) <=> Negative(y)) /\ (Negative(v) # Negative(x))}

SubFlags(x, y) ==
  LET v == (x - y) % Word
  IN ResultFlags(v) \cup
     {f \in {"CF", "AF", "OF"} :
        \/ f = "CF" /\ x < y
        \/ f = "AF" /\ x % 16 < y % 16
        \/ f = "OF" /\ (Negative(x) # Negative(y)) /\ (Negative(v) # Negative(x))}

-----------------------------------------------------------------------------
\* Operands: a register, a literal, memory at a register plus a displacement,
\* at the sum of two registers (the second scaled), or at a fixed address.
R(name) == [kind |-> "reg", name |-> name]
I(value) == [kind |-> "imm", value |-> value % Word]
Indexed(base, index, scale, disp) ==
  [kind |-> "mem", base |-> base, index |-> index, scale |-> scale, disp |-> disp]
M(base, disp) == Indexed(base, "none", 0, disp)
At(address) == Indexed("none", "none", 0, address)

Instruction(size, op, to, from) == [size |-> size, op |-> op, to |-> to, from |-> from]

Content(c, name) == IF name = "none" THEN 0 ELSE c.reg[name]
Address(c, o) == (Content(c, o.base) + o.scale * Content(c, o.index) + o.disp) % Word
Value(c, o) ==
  CASE o.kind = "reg" -> c.reg[o.name]
    [] o.kind = "imm" -> o.value
    [] OTHER -> c.mem[Address(c, o)]

Put(c, o, v) ==
  IF o.kind = "reg" THEN [c EXCEPT !.reg[o.name] = v] ELSE [c EXCEPT !.mem[Address(c, o)] = v]
Above(c, n) == (c.reg.esp + n) % Word
Pushed(c, v) == [c EXCEPT !.reg.esp = Above(c, -4), !.mem[Above(c, -4)] = v]
Popped(c) == [c EXCEPT !.reg.esp = Above(c, 4)]
Flagged(c, flags) == [c EXCEPT !.fl = (@ \ Status) \cup flags]

\* The result and the flags of the arithmetic; AF after a logical operation,
\* and AF and OF after a shift, are not defined by the processor.
Results(op, x, y) ==
  CASE op \in {"add", "inc"} -> {<<(x + y) % Word, AddFlags(x, y)>>}
    [] op \in {"sub", "cmp", "dec"} -> {<<(x - y) % Word, SubFlags(x, y)>>}
    [] op \in {"and", "test"} -> {<<AndWord(x, y), ResultFlags(AndWord(x, y)) \cup u>> : u \in SUBSET {"AF"}}
    [] op = "or" -> {<<OrWord(x, y), ResultFlags(OrWord(x, y)) \cup u>> : u \in SUBSET {"AF"}}
    [] op = "xor" -> {<<XorWord(x, y), ResultFlags(XorWord(x, y)) \cup u>> : u \in SUBSET {"AF"}}
    [] op = "shl" ->
         LET v == (x * 2 ^ y) % Word
             carry == IF Bit(x, Bits - y) = 1 THEN {"CF"} ELSE {}
         IN {<<v, ResultFlags(v) \cup carry \cup u>> : u \in SUBSET {"AF", "OF"}}

Arithmetic == {"add", "sub", "cmp", "and", "or", "xor", "test", "inc", "dec", "shl"}

Calculate(c, i) ==
  {LET kept == IF i.op \in {"inc", "dec"} THEN c.fl \cap {"CF"} ELSE {}
       lost == IF i.op \in {"inc", "dec"} THEN {"CF"} ELSE {}
       done == Flagged(c, (r[2] \ lost) \cup kept)
   IN IF i.op \in {"cmp", "test"} THEN done ELSE Put(done, i.to, r[1])
   : r \in Results(i.op, Value(c, i.to), Value(c, i.from))}

Taken(op, flags) ==
  CASE op = "jmp" -> TRUE
    [] op = "je" -> "ZF" \in flags
    [] op = "jne" -> "ZF" \notin flags
    [] op = "ja" -> {"CF", "ZF"} \cap flags = {}
    [] op = "jl" -> ("SF" \in flags) # ("OF" \in flags)

\* rep stosd: ecx words of eax from edi on, upwards unless DF is set.
Stored(c) == {(c.reg.edi + k * (IF "DF" \in c.fl THEN -4 ELSE 4)) % Word : k \in 0 .. c.reg.ecx - 1}

\* The addresses an instruction reads or writes.
Touched(c, i) ==
  (IF i.op = "lea" THEN {} ELSE {Address(c, o) : o \in {x \in {i.to, i.from} : x.kind = "mem"}})
  \cup (IF i.op \in {"push", "call"} THEN {Above(c, -4)} ELSE {})
  \cup (IF i.op \in {"pop", "ret"} THEN {c.reg.esp} ELSE {})
  \cup (IF i.op = "leave" THEN {c.reg.ebp} ELSE {})
  \cup (IF i.op = "stos" THEN Stored(c) ELSE {})

\* What instruction i makes of processor c, already past it.
Outcomes(c, i) ==
  CASE i.op = "push" -> {Pushed(c, Value(c, i.from))}
    [] i.op = "pop" -> {Put(Popped(c), i.to, c.mem[c.reg.esp])}
    [] i.op = "mov" -> {Put(c, i.to, Value(c, i.from))}
    [] i.op = "lea" -> {Put(c, i.to, Address(c, i.from))}
    [] i.op = "not" -> {Put(c, i.to, NotWord(Value(c, i.to)))}
    [] i.op = "call" -> {[Pushed(c, c.pc) EXCEPT !.pc = Value(c, i.from)]}
    [] i.op = "ret" -> {[Popped(c) EXCEPT !.pc = c.mem[c.reg.esp]]}
    [] i.op = "leave" -> {[c EXCEPT !.reg.esp = (c.reg.ebp + 4) % Word, !.reg.ebp = c.mem[c.reg.ebp]]}
    [] i.op = "stos" ->
         {[c EXCEPT !.reg.edi = (@ + c.reg.ecx * (IF "DF" \in c.fl THEN -4 ELSE 4)) % Word,
                    !.reg.ecx = 0,
                    !.mem = [a \in DOMAIN c.mem |-> IF a \in Stored(c) THEN c.reg.eax ELSE c.mem[a]]]}
    [] i.op \in Arithmetic -> Calculate(c, i)
    [] OTHER -> {IF Taken(i.op, c.fl) THEN [c EXCEPT !.pc = i.from.value] ELSE c}

\* An instruction that is not there, or touches what is not mapped, traps.
Traps(code, c) ==
  c.pc \in DOMAIN code => ~ Touched(c, code[c.pc]) \subseteq DOMAIN c.mem

\* The processors after the instruction at pc.
Steps(code, c) == Outcomes([c EXCEPT !.pc = @ + code[c.pc].size], code[c.pc])
=============================================================================
