------------------------------ MODULE Bytecode ------------------------------
(***************************************************************************)
(* The bytes of a chunk: how src/compiler/compiler.c writes an operand and *)
(* a jump, how run() in src/vm/vm.c reads them, and how                    *)
(* src/debug/debug.c steps from one instruction to the next.               *)
(* The byte of an opcode is its name, any other byte a number.  An offset  *)
(* counts from 0, as in the code: the byte there is code[offset + 1].      *)
(***************************************************************************)
EXTENDS Integers, SequencesExt

CONSTANT UINT8_COUNT    \* how many values a byte has

ASSUME ByteAssumption == UINT8_COUNT \in Nat /\ UINT8_COUNT > 1

UINT8_MAX == UINT8_COUNT - 1
UINT16_MAX == UINT8_COUNT * UINT8_COUNT - 1
Byte == 0..UINT8_MAX

ByteAt(code, offset) == code[offset + 1]

(* (n >> 8) & 0xff and n & 0xff *)
High(n) == (n \div UINT8_COUNT) % UINT8_COUNT
Low(n) == n % UINT8_COUNT

(* READ_SHORT and jumpInstruction: (uint16_t)((high << 8) | low) *)
ReadShort(code, offset) ==
    ByteAt(code, offset) * UINT8_COUNT + ByteAt(code, offset + 1)

WriteShort(code, offset, n) == [code EXCEPT ![offset + 1] = High(n), ![offset + 2] = Low(n)]

-----------------------------------------------------------------------------
(* emitJump leaves two bytes to patch, and returns the offset of the first. *)

EmitJump(code, instruction) == code \o <<instruction, UINT8_MAX, UINT8_MAX>>
JumpOffset(code) == Len(code) + 1

(* patchJump: how far the jump whose bytes are at the offset has to go. *)
Distance(code, offset) == Len(code) - offset - 2
TooFar(code, offset) == Distance(code, offset) > UINT16_MAX
PatchJump(code, offset) == WriteShort(code, offset, Distance(code, offset))

(* run() has read the two bytes when it adds them to ip. *)
JumpTarget(code, offset) == offset + 2 + ReadShort(code, offset)

(* emitLoop: the offset counts from behind the instruction back to the start. *)
LoopDistance(code, start) == Len(code) + 1 - start + 2
LoopTooFar(code, start) == LoopDistance(code, start) > UINT16_MAX
EmitLoop(code, start) ==
    code \o <<"OP_LOOP", High(LoopDistance(code, start)), Low(LoopDistance(code, start))>>
LoopTarget(code, offset) == offset + 2 - ReadShort(code, offset)

-----------------------------------------------------------------------------
(* disassembleInstruction *)

ByteInstructions ==
    {"OP_CONSTANT", "OP_GET_LOCAL", "OP_SET_LOCAL", "OP_GET_GLOBAL", "OP_DEFINE_GLOBAL",
     "OP_SET_GLOBAL", "OP_GET_UPVALUE", "OP_SET_UPVALUE", "OP_CALL", "OP_ARRAY", "OP_MAP"}
JumpInstructions == {"OP_JUMP", "OP_JUMP_IF_FALSE", "OP_LOOP"}

(* Mutant: jumpInstruction steps over one byte only. *)
DisassembledShort(code, offset) ==
    offset + (IF ByteAt(code, offset) \in ByteInstructions \cup JumpInstructions THEN 2 ELSE 1)

(* The offset that disassembleInstruction returns, of a chunk without closures. *)
Disassembled(code, offset) ==
    CASE ByteAt(code, offset) \in JumpInstructions -> offset + 3
      [] ByteAt(code, offset) \in ByteInstructions -> offset + 2
      [] OTHER -> offset + 1

(* The offsets at which disassembleChunk finds an instruction. *)
Listed(code) ==
    FoldLeft(LAMBDA found, i : IF i - 1 \in found /\ i <= Len(code)
                                 THEN found \cup {Disassembled(code, i - 1)}
                                 ELSE found,
             {0}, [i \in 1..Len(code) |-> i])
=============================================================================
