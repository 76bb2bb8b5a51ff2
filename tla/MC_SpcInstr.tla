----------------------------- MODULE MC_SpcInstr ----------------------------
(* SpcInstr for TLC: bytes of three bits and eight pages, of which the first
   22 cells are bit addressable.  Single instructions from every register,
   flag and stack pointer that matters to them, with their operands at the
   start and at the ends of a page and of memory, on memories in which no two
   cells of a page, or pages, look alike; and nested calls for which the stack
   has just enough room.  The samples go to the operands, the direct pages,
   the stack and the vectors. *)
EXTENDS SpcInstr

Form(op, r, k, what) == [op |-> op, reg |-> r, n |-> k, what |-> what]
Op(op) == Form(op, "a", 0, "")
InMode(m, access, r) == [mode |-> m, access |-> access, reg |-> r]

Loads == {InMode(m, "load", "a") : m \in DOMAIN Modes}
Compares == {InMode(m, "compare", "x") : m \in {"dp", "abs"}}
Stores == {InMode(m, "store", "y") : m \in DOMAIN Modes}
Modifies == {InMode(m, "modify", "a") : m \in {"dp", "abs", "dpx"}}

WithBits == {"set1", "clr1", "bbs", "bbc"}
OnFlags == {"bne", "beq", "bcc", "bcs", "bra", "or1", "or1n", "and1", "and1n",
            "eor1", "mov1", "mov1c", "not1", "tset1", "tclr1", "pushpsw", "brk",
            "reti", "poppsw"}
Plain == DOMAIN Others \ (WithBits \cup OnFlags \cup {"tcall", "implied"})
FlagOps == {"nop", "clrp", "setp", "clrc", "setc", "notc", "x_sp", "sp_x"}
RegOps == {"inc", "dec", "from_a", "to_a"}

Image(k, d) == [c \in Addr |-> Low(k * c + (c \div Radix) + d)]
Regs(pcs, sps, as, xs, ys, ps, zs, cs) ==
  [pc : pcs, sp : sps, a : as, x : xs, y : ys, p : ps, z : zs, c : cs]
SomePCs == {5, 38, 62}

AddressSuite ==
  [progs |-> {<<f>> : f \in Loads \cup Compares \cup Stores \cup Modifies
                            \cup {Op(o) : o \in Plain}},
   images |-> {Image(1, 0), Image(3, 2)},
   regs |-> Regs(SomePCs, {0}, {2}, {1, 7}, {3, 7}, BOOLEAN, {FALSE}, {FALSE})]
StackSuite ==
  [progs |-> {<<Op(o)>> : o \in {"push", "pop", "call", "pcall", "ret"}}
               \cup {<<Form("tcall", "a", k, "")>> : k \in 0 .. Vectors - 1},
   images |-> {Image(1, 0), Image(3, 2)},
   regs |-> Regs(SomePCs, {1, 6, 7}, {2}, {1}, {3}, {FALSE}, {FALSE}, {FALSE})]
FlagSuite ==
  [progs |-> {<<Op(o)>> : o \in OnFlags}
               \cup {<<Form(o, "a", k, "")>> : o \in WithBits, k \in 0 .. Bits - 1}
               \cup {<<Form("implied", "a", 0, w)>> : w \in FlagOps}
               \cup {<<Form("implied", r, 0, w)>> : r \in {"x", "y"}, w \in RegOps},
   images |-> {Image(1, 0), Image(3, 2)},
   regs |-> Regs(SomePCs, {0, 7}, {5}, {7}, {0}, BOOLEAN, BOOLEAN, BOOLEAN)]

Ret == Op("ret")
PushR(r) == Form("push", r, 0, "")
PopR(r) == Form("pop", r, 0, "")
CallSuite ==
  [progs |-> {
     <<Op("call"), Op("tcall"), Ret, Ret>>,
     <<Op("call"), PushR("x"), Op("imm"), PopR("x"), Ret>>,
     <<Op("pcall"), Op("call"), Ret, Ret>>,
     <<Op("brk"), Op("imm"), Op("reti")>>,
     <<Op("brk"), Op("pushpsw"), Op("cmpxy"), Op("poppsw"), Op("reti")>>,
     <<PushR("a"), PushR("y"), Op("pushpsw"), Op("imm"), Op("poppsw"), PopR("y"), PopR("a")>>},
   images |-> {Image(1, 0)},
   regs |-> Regs({5, 63}, Byte, {2}, {1}, {1}, BOOLEAN, {FALSE}, BOOLEAN)]

AllSuites == {AddressSuite, StackSuite, FlagSuite, CallSuite}
Cells == {0, 3, 6, 7, 8, 9, 15, 16, 39, 40, 62, 63}
=============================================================================
