------------------------------- MODULE Traps --------------------------------
(***************************************************************************)
(* The descriptor tables and the entry to isr_handler: gdt.c, gdt.asm,     *)
(* idt.c and isr.asm.  The kernel cuts addresses into the fields of        *)
(* descriptors and the processor puts them together again; the processor,  *)
(* a stub and isr_common push what isr_handler reads as a registers_t.     *)
(* What is pushed is named by what it holds.                               *)
(***************************************************************************)
EXTENDS Naturals, Sequences

CONSTANTS
  BYTE,          \* the values of a byte, 256
  SIZEOF_TSS,    \* 104
  Stubs          \* isr_stub_table and irq_stub_table, addresses by vector

\* The values of the wider integers.
U16 == BYTE * BYTE
U24 == U16 * BYTE
U32 == U16 * U16
U64 == U32 * U32

Vectors   == 0..47
Addresses == 0 .. (U64 - 1)

ASSUME AddressAssumption ==
  /\ BYTE \in Nat \ {0, 1} /\ SIZEOF_TSS \in 1 .. U16
  /\ Stubs \in [Vectors -> Addresses]
  /\ \A v, w \in Vectors : Stubs[v] = Stubs[w] => v = w

\* The processor pushes an error code for these exceptions (external); it cannot
\* raise 21 and 29, which need features the kernel does not turn on.
ErrorCode == {8, 10, 11, 12, 13, 14, 17, 21, 29, 30}
Raised    == Vectors \ {21, 29}

\* registers_t, from the lowest address.
Fields ==
  <<"r15", "r14", "r13", "r12", "r11", "r10", "r9", "r8", "rbp", "rdi", "rsi", "rdx", "rcx", "rbx",
    "rax", "vector", "error_code", "rip", "cs", "rflags", "rsp", "ss">>
Saved == {Fields[j] : j \in 1..15}

VARIABLES
  tss,           \* the address of tss, fixed at Init
  gdt, tr,       \* the descriptors by index, the selector in the task register
  idt,           \* the gates by vector
  pc, vec,       \* how far the code or a trap is, and the vector raised
  regs,          \* the registers isr_common saves
  stack,         \* what has been pushed, the last at the end
  resumed        \* what iretq has taken from the stack

vars == <<tss, gdt, tr, idt, pc, vec, regs, stack, resumed>>

Untouched == [r \in Saved |-> <<r>>]

\* What the processor pushes in 64-bit mode, and what iretq expects.
Interrupted == <<<<"ss">>, <<"rsp">>, <<"rflags">>, <<"cs">>, <<"rip">>>>

TypeOK ==
  /\ tss \in Addresses
  /\ pc \in {"gdt_init", "idt_init", "run", "stub", "isr_common", "isr_handler", "pop", "halt"}
  /\ vec \in Vectors /\ tr \in {0, 40}
  /\ DOMAIN regs = Saved
  /\ Len(stack) \in {0, 5, 6, 7, 22}

Init ==
  /\ tss \in Addresses
  /\ gdt = <<>> /\ tr = 0 /\ idt = <<>>
  /\ pc = "gdt_init" /\ vec = 0 /\ regs = Untouched /\ stack = <<>> /\ resumed = Interrupted

-----------------------------------------------------------------------------
(***************************************************************************)
(* gdt_init and idt_init.                                                  *)
(***************************************************************************)

\* x shifted right, a division by unit, and cut to a field of width values.
Field(x, unit, width) == (x \div unit) % width

PRESENT == 128  \* GDT_PRESENT
USER    == 96   \* GDT_USER
CODE    == 24   \* GDT_S | GDT_EX
DATA    == 18   \* GDT_S | GDT_RW
LONG    == 160  \* GDT_GRANULARITY | GDT_LONGMODE

Segment(access, granularity) ==
  [limit_low |-> U16 - 1, base_low |-> 0, base_mid |-> 0, access |-> access,
   granularity |-> granularity, base_high |-> 0]

TssLow(base, limit) ==
  [limit_low |-> Field(limit, 1, U16), base_low |-> Field(base, 1, U16),
   base_mid |-> Field(base, U16, BYTE), access |-> 137,
   granularity |-> Field(limit, U16, BYTE) % 16, base_high |-> Field(base, U24, BYTE)]

\* ltr marks the descriptor of an available TSS busy (external).
Ltr(d) == IF d.access % 16 = 9 THEN [d EXCEPT !.access = @ + 2] ELSE d

\* The five segments and the two halves of the TSS; gdt_load, ltr 0x28.
gdt_init ==
  /\ pc = "gdt_init" /\ pc' = "idt_init"
  /\ gdt' = [j \in 0..6 |->
       CASE j = 0 -> Segment(0, 0)
         [] j = 1 -> Segment(PRESENT + CODE, LONG)
         [] j = 2 -> Segment(PRESENT + DATA, 0)
         [] j = 3 -> Segment(PRESENT + USER + CODE, LONG)
         [] j = 4 -> Segment(PRESENT + USER + DATA, 0)
         [] j = 5 -> Ltr(TssLow(tss, SIZEOF_TSS - 1))
         [] j = 6 -> [base_upper |-> Field(tss, U32, U32)]]
  /\ tr' = 40
  /\ UNCHANGED <<tss, idt, vec, regs, stack, resumed>>

\* idt_set_entry(vector, handler, 0x8E)
Gate(addr) ==
  [isr_low |-> Field(addr, 1, U16), isr_mid |-> Field(addr, U16, U16), isr_high |-> Field(addr, U32, U32),
   kernel_cs |-> 8, ist |-> 0, attributes |-> 142, reserved |-> 0]

idt_init ==
  /\ pc = "idt_init" /\ pc' = "run"
  /\ idt' = [v \in Vectors |-> Gate(Stubs[v])]
  /\ UNCHANGED <<tss, gdt, tr, vec, regs, stack, resumed>>

-----------------------------------------------------------------------------
(***************************************************************************)
(* A trap.                                                                 *)
(***************************************************************************)

\* The processor's reading of a gate (external).
HandlerOf(g) == g.isr_low + g.isr_mid * U16 + g.isr_high * U32

\* The processor saves what it interrupts and goes to the gate's handler.
Trap(v) ==
  /\ pc = "run" /\ pc' = "stub" /\ vec' = v
  /\ stack' = Interrupted \o (IF v \in ErrorCode THEN <<<<"error_code", v>>>> ELSE <<>>)
  /\ resumed' = <<>>
  /\ UNCHANGED <<tss, gdt, tr, idt, regs>>

\* Mutant of IsErrStub: 17 has no error code.
IsErrStubBut17(v) == v \in {8, 10, 11, 12, 13, 14, 30}

\* The vectors with isr_err_stub.
IsErrStub(v) == v \in {8, 10, 11, 12, 13, 14, 17, 30}

\* The stub the gate leads to pushes its number, under a 0 where it is
\* isr_no_err_stub or irq_stub.
Enter ==
  /\ pc = "stub" /\ pc' = "isr_common"
  /\ \E v \in Vectors :
       /\ Stubs[v] = HandlerOf(idt[vec])
       /\ stack' = stack \o (IF IsErrStub(v) THEN <<>> ELSE <<<<"error_code", 0>>>>) \o <<<<"vector", v>>>>
  /\ UNCHANGED <<tss, gdt, tr, idt, vec, regs, resumed>>

\* The registers in the order isr_common pushes them, and in the order it pops them.
PushOrder ==
  <<"rax", "rbx", "rcx", "rdx", "rsi", "rdi", "rbp", "r8", "r9", "r10", "r11", "r12", "r13", "r14", "r15">>

\* Mutant of PopOrder: rsi and rdi are popped in the order they were pushed.
PopOrderSwapped ==
  <<"r15", "r14", "r13", "r12", "r11", "r10", "r9", "r8", "rbp", "rsi", "rdi", "rdx", "rcx", "rbx", "rax">>

PopOrder ==
  <<"r15", "r14", "r13", "r12", "r11", "r10", "r9", "r8", "rbp", "rdi", "rsi", "rdx", "rcx", "rbx", "rax">>

Place(x, names) == CHOOSE j \in DOMAIN names : names[j] = x

\* What lies at place j from the top of the stack.
FromTop(j) == stack[Len(stack) - j + 1]

\* push rax ... push r15; the C code is free to change them.
isr_common ==
  /\ pc = "isr_common" /\ pc' = "isr_handler"
  /\ stack' = stack \o [j \in 1..15 |-> regs[PushOrder[j]]]
  /\ regs' = [r \in Saved |-> <<"changed">>]
  /\ UNCHANGED <<tss, gdt, tr, idt, vec, resumed>>

\* frame->field: the fields from the top of the stack.
Frame(field) == FromTop(Place(field, Fields))

\* An exception stops the machine; an IRQ is handled (module Interrupts).
isr_handler ==
  /\ pc = "isr_handler"
  /\ pc' = IF Frame("vector")[2] < 32 THEN "halt" ELSE "pop"
  /\ UNCHANGED <<tss, gdt, tr, idt, vec, regs, stack, resumed>>

\* pop r15 ... pop rax; add rsp, 16 skips the vector and the error code; iretq.
PopAndReturn ==
  /\ pc = "pop" /\ pc' = "run"
  /\ regs' = [r \in Saved |-> FromTop(Place(r, PopOrder))]
  /\ LET top == Len(stack) - 17 IN
       resumed' = SubSeq(stack, top - 4, top) /\ stack' = SubSeq(stack, 1, top - 5)
  /\ UNCHANGED <<tss, gdt, tr, idt, vec>>

Next ==
  \/ gdt_init \/ idt_init
  \/ \E v \in Raised : Trap(v)
  \/ Enter \/ isr_common \/ isr_handler \/ PopAndReturn

Spec == Init /\ [][Next]_vars

-----------------------------------------------------------------------------
(***************************************************************************)
(* Properties.                                                             *)
(***************************************************************************)

\* The task register names a descriptor of the TSS in use that the processor reads
\* as the address and the size of tss; every gate is present, turns interrupts off,
\* keeps the stack and leads to the stub of its vector; and the gates' and the
\* threads' selectors, 0x08 and 0x10, name a 64-bit code and a data segment of ring 0.
DescriptorsDecode ==
  pc \notin {"gdt_init", "idt_init"} =>
    LET d == gdt[tr \div 8] IN
    /\ d.base_low + d.base_mid * U16 + d.base_high * U24
         + gdt[tr \div 8 + 1].base_upper * U32 = tss
    /\ d.limit_low + d.granularity * U16 = SIZEOF_TSS - 1
    /\ d.access = 139                             \* present, ring 0, busy TSS
    /\ \A v \in Vectors :
         LET s == gdt[idt[v].kernel_cs \div 8] IN
         /\ HandlerOf(idt[v]) = Stubs[v] /\ idt[v].ist = 0
         /\ idt[v].attributes \div 128 = 1 /\ idt[v].attributes % 32 = 14   \* interrupt gate
         /\ s.access \div 128 = 1 /\ (s.access \div 32) % 4 = 0 /\ (s.access \div 8) % 4 = 3
         /\ (s.granularity \div 32) % 4 = 1       \* L set, D clear
    /\ (gdt[2].access \div 2) % 64 = 9            \* ring 0, data, writable

\* Whatever trap is taken, isr_handler sees at each field of registers_t what the
\* field is named for: its vector, the error code or 0, the interrupted state.
FrameIsRight ==
  pc = "isr_handler" =>
    /\ Frame("vector") = <<"vector", vec>>
    /\ Frame("error_code") = <<"error_code", IF vec \in ErrorCode THEN vec ELSE 0>>
    /\ \A r \in Saved \cup {"rip", "cs", "rflags", "rsp", "ss"} : Frame(r) = <<r>>

\* What was interrupted goes on with its own registers, and nothing of the trap is
\* left on its stack.
ReturnIsExact ==
  pc = "run" => regs = Untouched /\ stack = <<>> /\ resumed = Interrupted

\* From the descriptor the processor reads to the iretq, a trap is transparent: it
\* comes to its own stub, isr_handler sees what was saved, and all of it is restored.
TrapsAreTransparent == TypeOK /\ DescriptorsDecode /\ FrameIsRight /\ ReturnIsExact
=============================================================================
