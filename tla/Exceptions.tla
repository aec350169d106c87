------------------------------ MODULE Exceptions ------------------------------
(***************************************************************************)
(* exception.S, irq.c and interrupt.c: setup_idt, the entry of an          *)
(* exception or interrupt through its stub, the dispatch to C, and the     *)
(* return to what was interrupted.  An exception or a non-maskable         *)
(* interrupt may come between any two steps, those of the entry included,  *)
(* and is pushed on the same stack.                                        *)
(***************************************************************************)
EXTENDS Integers, Sequences

CONSTANTS
  NUM_ISR,     \* 256
  ShortPush,   \* 128, from which on the push of a vector takes five bytes
  Vectors,     \* those that occur
  Callbacks,   \* what register_isr is called with
  MaxNested    \* bound on the entries not yet returned from

ASSUME ExceptionsAssumption ==
  /\ {NUM_ISR, ShortPush} \subseteq Nat /\ NUM_ISR > 32 /\ Vectors \subseteq 0..(NUM_ISR - 1)
  /\ MaxNested \in Nat /\ "none" \notin Callbacks

VARIABLES
  rip,        \* [at |-> label, n |-> how far in the sequence there]
  regs,       \* the general purpose registers
  stack,      \* what was pushed; the top is the last
  enabled,    \* the interrupt flag
  idt,        \* the offsets in the descriptors
  int_table,  \* the callbacks
  held        \* history: what was interrupted, for each entry not returned from

vars == <<rip, regs, stack, enabled, idt, int_table, held>>

\* The order of the pushes, and of the fields of x86_interrupt_frame_t.
Pushed == <<"r15", "r14", "r13", "r12", "r11", "r10", "r9", "r8",
            "rax", "rcx", "rdx", "rbx", "rbp", "rsi", "rdi">>

Fields == <<"rdi", "rsi", "rbp", "rbx", "rdx", "rcx", "rax",
            "r8", "r9", "r10", "r11", "r12", "r13", "r14", "r15",
            "vector", "error_code">>

\* The order of the pops.
Popped == <<"rdi", "rsi", "rbp", "rbx", "rdx", "rcx", "rax",
            "r8", "r9", "r10", "r11", "r12", "r13", "r14", "r15">>

Registers == {Pushed[i] : i \in DOMAIN Pushed}

\* Those that a C function gives back as they were.
Preserved == {"rbx", "rbp", "r12", "r13", "r14", "r15"}

At(label, n) == [at |-> label, n |-> n]

Init == /\ rip = At("setup_idt", 0)
        /\ regs = [r \in Registers |-> <<"main", r>>]
        /\ stack = <<>> /\ enabled = FALSE
        /\ idt = [v \in 0..(NUM_ISR - 1) |-> 0]
        /\ int_table = [v \in Vectors |-> "none"]
        /\ held = <<>>

-----------------------------------------------------------------------------
(* The stubs.  Each begins at a multiple of 16 bytes. *)

\* Variant: the page fault is forgotten.
HasErrorCode_NoPageFault(v) == v \in {8, 17} \cup 10..13

\* The stubs that push no error code of their own.
HasErrorCode(v) == v \in {8, 17} \cup 10..14

\* Two nops or a push of two bytes, the push of the vector, the jump.
StubBytes(v) == 2 + (IF v < ShortPush THEN 2 ELSE 5) + 5

isr_entry_len(v) == ((StubBytes(v) + 15) \div 16) * 16

_isr[v \in 0..(NUM_ISR - 1)] == IF v = 0 THEN 0 ELSE _isr[v - 1] + isr_entry_len(v - 1)

\* The stub that begins at an offset.
StubAt(offset) == CHOOSE v \in Vectors : _isr[v] = offset

-----------------------------------------------------------------------------
(* setup_idt, and the kernel code that may be interrupted. *)

\* One descriptor after the other.  isr_entry_len has the value that the last
\* stub gave it.
SetupIdt ==
  /\ rip.at = "setup_idt"
  /\ idt' = [idt EXCEPT ![rip.n] = rip.n * isr_entry_len(NUM_ISR - 1)]
  /\ rip' = IF rip.n < NUM_ISR - 1 THEN At("setup_idt", rip.n + 1) ELSE At("main", 0)
  /\ UNCHANGED <<regs, stack, enabled, int_table, held>>

x86_sti == /\ rip.at = "main" /\ enabled' = TRUE
           /\ UNCHANGED <<rip, regs, stack, idt, int_table, held>>

x86_cli == /\ rip.at = "main" /\ enabled' = FALSE
           /\ UNCHANGED <<rip, regs, stack, idt, int_table, held>>

register_isr(v, callback) ==
  /\ rip.at = "main" /\ int_table' = [int_table EXCEPT ![v] = callback]
  /\ UNCHANGED <<rip, regs, stack, enabled, idt, held>>

-----------------------------------------------------------------------------
(* Entry. *)

\* Variant: as through a trap gate.
Gate_Trap(v) == enabled

\* The interrupt flag behind the gate: 0x8e is an interrupt gate.
Gate(v) == FALSE

\* The processor: what it pushes, and where the gate leads.  Devices interrupt
\* only while the flag is set.
Deliver(v) ==
  /\ rip.at # "setup_idt" /\ Len(held) < MaxNested
  /\ v >= 32 => enabled
  /\ stack' = stack \o << <<"return", rip, enabled, Len(stack)>> >>
                    \o IF v \in {8, 17} \cup 10..14 THEN << <<"code", v>> >> ELSE <<>>
  /\ held' = Append(held, [vector |-> v, rip |-> rip, regs |-> regs,
                           stack |-> stack, enabled |-> enabled])
  /\ rip' = At("stub", idt[v]) /\ enabled' = Gate(v)
  /\ UNCHANGED <<regs, idt, int_table>>

Push(word) == stack' = Append(stack, word)

Pop(n) == stack' = SubSeq(stack, 1, Len(stack) - n)

Top == stack[Len(stack)]

\* The dummy error code, then the vector.
Stub == /\ rip.at = "stub"
        /\ IF HasErrorCode(StubAt(rip.n)) THEN UNCHANGED stack ELSE Push(<<"code", 0>>)
        /\ rip' = At("vector", StubAt(rip.n))
        /\ UNCHANGED <<regs, enabled, idt, int_table, held>>

PushVector == /\ rip.at = "vector" /\ Push(<<"vector", rip.n>>)
              /\ rip' = At("save", 1)
              /\ UNCHANGED <<regs, enabled, idt, int_table, held>>

\* From one register to the next, and then on.
Following(label, n) == IF rip.n < Len(Pushed) THEN At(rip.at, rip.n + 1) ELSE At(label, n)

Save == /\ rip.at = "save" /\ Push(regs[Pushed[rip.n]])
        /\ rip' = Following("call", 0)
        /\ UNCHANGED <<regs, enabled, idt, int_table, held>>

\* The frame is what rdi points to; the call pushes the way back.
Call == /\ rip.at = "call" /\ Push(<<"restore">>)
        /\ rip' = At("handler", 0) /\ regs' = [regs EXCEPT !["rdi"] = <<"frame">>]
        /\ UNCHANGED <<enabled, idt, int_table, held>>

-----------------------------------------------------------------------------
(* x86_int_handler. *)

\* The field of the frame, which begins below the way back.
Field(i) == stack[Len(stack) - i]

Vector == Field(16)[2]

Clobbered == [r \in Registers |-> IF r \in Preserved THEN regs[r] ELSE <<"junk">>]

\* The handlers of the exceptions do nothing.
Ignore == /\ rip.at = "handler" /\ (Vector < 32 \/ int_table[Vector] = "none")
          /\ regs' = Clobbered /\ rip' = At("return", 0)
          /\ UNCHANGED <<stack, enabled, idt, int_table, held>>

platform_int_handler ==
  /\ rip.at = "handler" /\ Vector >= 32 /\ int_table[Vector] # "none"
  /\ regs' = Clobbered /\ rip' = At("callback", 0)
  /\ UNCHANGED <<stack, enabled, idt, int_table, held>>

CallbackReturns == /\ rip.at = "callback" /\ rip' = At("return", 0)
                   /\ UNCHANGED <<regs, stack, enabled, idt, int_table, held>>

Return == /\ rip.at = "return" /\ Pop(1) /\ rip' = At("restore", 1)
          /\ UNCHANGED <<regs, enabled, idt, int_table, held>>

-----------------------------------------------------------------------------
(* Exit. *)

\* Variant: in the order of the pushes.
Restore_SameOrder ==
  /\ rip.at = "restore" /\ Pop(1)
  /\ regs' = [regs EXCEPT ![Pushed[rip.n]] = Top]
  /\ rip' = Following("drop", 0)
  /\ UNCHANGED <<enabled, idt, int_table, held>>

Restore == /\ rip.at = "restore" /\ Pop(1)
           /\ regs' = [regs EXCEPT ![Popped[rip.n]] = Top]
           /\ rip' = Following("drop", 0)
           /\ UNCHANGED <<enabled, idt, int_table, held>>

\* Vector and error code.
Drop == /\ rip.at = "drop" /\ Pop(2) /\ rip' = At("iretq", 0)
        /\ UNCHANGED <<regs, enabled, idt, int_table, held>>

iretq == /\ rip.at = "iretq" /\ Top[1] = "return"
         /\ rip' = Top[2] /\ enabled' = Top[3] /\ stack' = SubSeq(stack, 1, Top[4])
         /\ held' = SubSeq(held, 1, Len(held) - 1)
         /\ UNCHANGED <<regs, idt, int_table>>

Handling == \/ Stub \/ PushVector \/ Save \/ Call
            \/ Ignore \/ platform_int_handler \/ CallbackReturns \/ Return
            \/ Restore \/ Drop \/ iretq

Next == \/ SetupIdt \/ x86_sti \/ x86_cli
        \/ \E v \in Vectors, callback \in Callbacks : v >= 32 /\ register_isr(v, callback)
        \/ \E v \in Vectors : Deliver(v)
        \/ Handling

Spec == Init /\ [][Next]_vars

-----------------------------------------------------------------------------
(* Properties. *)

Interrupted == held[Len(held)]

\* What was interrupted goes on where it was, with every register, the stack and
\* the interrupt flag as they were: whatever the handler did to the registers,
\* with and without an error code, and when the entry or the exit of one was
\* itself interrupted at any step.
Resumes ==
  [][Len(held') < Len(held) =>
       /\ rip' = Interrupted.rip /\ regs' = Interrupted.regs
       /\ stack' = Interrupted.stack /\ enabled' = Interrupted.enabled]_vars

\* x86_int_handler finds in the frame, by the fields of x86_interrupt_frame_t, the
\* vector and the error code that were delivered and the registers as they were:
\* each gate leads to its own stub, and the stub pushes a code exactly if the
\* processor did not.
FrameTrue ==
  rip.at = "handler" =>
    \A i \in DOMAIN Fields :
      Field(i) = CASE Fields[i] = "vector" -> <<"vector", Interrupted.vector>>
                   [] Fields[i] = "error_code" ->
                        <<"code", IF Interrupted.vector \in {8, 17} \cup 10..14
                                    THEN Interrupted.vector ELSE 0>>
                   [] OTHER -> Interrupted.regs[Fields[i]]

\* No device interrupts a handler, so that no callback runs inside another one.
NoReentry == \A i \in DOMAIN held : held[i].vector >= 32 => i = 1
=============================================================================
