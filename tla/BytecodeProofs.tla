--------------------------- MODULE BytecodeProofs ---------------------------
(***************************************************************************)
(* A jump that was patched without an error is read back as the place      *)
(* where it was patched, whatever the width of a byte.                     *)
(***************************************************************************)
EXTENDS Bytecode, TLAPS

(* The two bytes of a number up to UINT16_MAX make the number again. *)
LEMMA DivisionLemma ==
    ASSUME NEW b \in Nat, b > 0, NEW n \in Nat
    PROVE  /\ n \div b \in Nat /\ n % b \in 0..b - 1
           /\ n = b * (n \div b) + (n % b)
  BY SMT

LEMMA HighDigit ==
    ASSUME NEW b \in Nat, b > 0, NEW n \in Nat, n <= b * b - 1
    PROVE  n \div b < b /\ (n \div b) % b = n \div b
<1> DEFINE q == n \div b
<1>1. q \in Nat /\ n >= b * q
  BY DivisionLemma
<1>2. q < b
  <2> SUFFICES ASSUME q >= b PROVE FALSE
    BY <1>1
  <2> HIDE DEF q
  <2>1. b * q >= b * b
    BY <1>1, SMT
  <2> QED BY <2>1, <1>1
<1>3. q % b = q
  <2> HIDE DEF q
  <2> QED BY <1>1, <1>2, SMT
<1> QED BY <1>2, <1>3

LEMMA Shorts ==
    ASSUME NEW n \in 0..UINT16_MAX
    PROVE  High(n) \in Byte /\ Low(n) \in Byte /\ High(n) * UINT8_COUNT + Low(n) = n
  BY ByteAssumption, HighDigit, DivisionLemma DEF High, Low, UINT16_MAX, UINT8_MAX, Byte

-----------------------------------------------------------------------------

(* What patchJump writes, run() reads: a jump that was not reported as too    *)
(* far goes to the end of the code it was patched in.                         *)
THEOREM JumpLandsWherePatched ==
    ASSUME NEW S, NEW code \in Seq(S), NEW offset \in Nat,
           offset + 2 <= Len(code), ~TooFar(code, offset)
    PROVE  JumpTarget(PatchJump(code, offset), offset) = Len(code)
<1> DEFINE n == Distance(code, offset)
           patched == PatchJump(code, offset)
<1>1. n \in 0..UINT16_MAX
  BY ByteAssumption DEF Distance, TooFar, UINT16_MAX
<1>2. ByteAt(patched, offset) = High(n) /\ ByteAt(patched, offset + 1) = Low(n)
  BY DEF PatchJump, WriteShort, ByteAt
<1>3. ReadShort(patched, offset) = n
  BY <1>1, <1>2, Shorts DEF ReadShort
<1> QED BY <1>3 DEF JumpTarget, Distance

(* The same from emitJump on: whatever is compiled behind the jump, patching  *)
(* it at the offset that emitJump returned makes it go to the end of that.    *)
COROLLARY EmittedJumpLands ==
    ASSUME NEW S, NEW code \in Seq(S), NEW body \in Seq(S), NEW instruction \in S, Byte \subseteq S,
           ~TooFar(EmitJump(code, instruction) \o body, JumpOffset(code))
    PROVE  JumpTarget(PatchJump(EmitJump(code, instruction) \o body, JumpOffset(code)), JumpOffset(code))
              = Len(code) + 3 + Len(body)
<1> DEFINE emitted == EmitJump(code, instruction)
           all == emitted \o body
<1>1. emitted \in Seq(S) /\ Len(emitted) = Len(code) + 3
  <2>1. UINT8_MAX \in S
    BY ByteAssumption DEF UINT8_MAX, Byte
  <2>2. <<instruction, UINT8_MAX, UINT8_MAX>> \in Seq(S)
    BY <2>1
  <2> QED BY <2>2 DEF EmitJump
<1>2. all \in Seq(S) /\ Len(all) = Len(code) + 3 + Len(body)
  <2> HIDE DEF emitted
  <2> QED BY <1>1
<1>3. JumpOffset(code) \in Nat /\ JumpOffset(code) + 2 <= Len(all)
  BY <1>2 DEF JumpOffset
<1> HIDE DEF all
<1>4. ~TooFar(all, JumpOffset(code))
  BY DEF all
<1>5. JumpTarget(PatchJump(all, JumpOffset(code)), JumpOffset(code)) = Len(all)
  BY <1>2, <1>3, <1>4, JumpLandsWherePatched
<1> QED BY <1>2, <1>5 DEF all

(* A jump keeps its target when another one is patched, in front of it or     *)
(* behind it, unless the two share a byte: and_ and or_ patch theirs with     *)
(* others in between.                                                         *)
THEOREM PatchesApart ==
    ASSUME NEW S, NEW code \in Seq(S), NEW offset \in Nat, NEW other \in Nat,
           offset + 2 <= Len(code), other + 2 <= Len(code),
           offset + 1 < other \/ other + 1 < offset
    PROVE  /\ JumpTarget(PatchJump(code, other), offset) = JumpTarget(code, offset)
           /\ Len(PatchJump(code, other)) = Len(code)
<1> DEFINE patched == PatchJump(code, other)
<1>1. /\ ByteAt(patched, offset) = ByteAt(code, offset)
      /\ ByteAt(patched, offset + 1) = ByteAt(code, offset + 1)
  BY DEF PatchJump, WriteShort, ByteAt
<1>2. Len(patched) = Len(code)
  BY DEF PatchJump, WriteShort
<1> QED BY <1>1, <1>2 DEF JumpTarget, ReadShort

(* OP_LOOP goes back to where emitLoop was told the loop starts.              *)
THEOREM LoopLandsAtStart ==
    ASSUME NEW S, NEW code \in Seq(S), NEW start \in 0..Len(code), ~LoopTooFar(code, start)
    PROVE  LoopTarget(EmitLoop(code, start), JumpOffset(code)) = start
<1> DEFINE n == LoopDistance(code, start)
           bytes == <<"OP_LOOP", High(n), Low(n)>>
           emitted == EmitLoop(code, start)
<1>1. n \in 0..UINT16_MAX
  BY ByteAssumption DEF LoopDistance, LoopTooFar, UINT16_MAX
<1>2. emitted[Len(code) + 2] = High(n) /\ emitted[Len(code) + 3] = Low(n)
  BY DEF EmitLoop
<1>3. ReadShort(emitted, JumpOffset(code)) = n
  BY <1>1, <1>2, Shorts DEF ReadShort, ByteAt, JumpOffset
<1> QED BY <1>3 DEF LoopTarget, LoopDistance, JumpOffset
=============================================================================
