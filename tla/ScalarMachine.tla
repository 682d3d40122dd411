--------------------------- MODULE ScalarMachine ---------------------------
(***************************************************************************)
(* src/targets/scalar.c: target_scalar.  What a register holds never       *)
(* decides what is called, so values are left out: a register holds old,   *)
(* its value before the op, or the result that was stored in it.  A call   *)
(* is kept as where it writes and what it reads.                           *)
(***************************************************************************)
EXTENDS Integers

CONSTANTS
    ScaRegs,        \* names of the registers, SCALAR_REGS of them
    InputBytes,     \* values a byte operand is read as
    InputWords      \* and a two-byte operand

ScaLocals == {"a", "y", "res", "res2"}      \* a and y are copies of the sources

(* A register is none of the locals. *)
ASSUME ScaRegsAssumption == \A r \in ScaRegs : r \notin ScaLocals

ASSUME InputAssumption ==
    /\ InputBytes \subseteq 0..255
    /\ \A word \in InputWords : word \in Nat /\ word <= 65535

VARIABLES
    scaOp,          \* the op that was done
    scaD, scaB,     \* its destination and its second source
    scaReg,         \* per register old, or the result it holds
    scaCall,        \* where the op's call wrote and what it read
    scaProduced,    \* the results of the call
    scaRecorded,    \* the results recorded
    scaBits         \* the bits a query asked for, or a shift

scaVars == <<scaOp, scaD, scaB, scaReg, scaCall, scaProduced, scaRecorded, scaBits>>

ScaResults == {"res", "res2", "flag"}
ScaOps == {"none", "set_b32", "arithmetic", "in_place", "cmov", "split", "mul_shift", "query"}
NoBits == [from |-> 0, count |-> 1, limb |-> 0]

ScaTypeOK ==
    /\ scaOp \in ScaOps /\ scaD \in ScaRegs /\ scaB \in ScaRegs
    /\ scaReg \in [ScaRegs -> {"old", "res", "res2"}]
    /\ scaCall \in [outs : SUBSET (ScaRegs \cup ScaLocals), ins : SUBSET (ScaRegs \cup ScaLocals)]
    /\ scaProduced \subseteq ScaResults /\ scaRecorded \subseteq ScaResults \cup {"old"}
    /\ scaBits \in [from : Nat, count : Nat, limb : Nat]

ScaOld == [r \in ScaRegs |-> "old"]

ScaInit ==
    /\ scaOp = "none" /\ scaD \in ScaRegs /\ scaB \in ScaRegs /\ scaReg = ScaOld
    /\ scaCall = [outs |-> {}, ins |-> {}] /\ scaProduced = {} /\ scaRecorded = {} /\ scaBits = NoBits

-----------------------------------------------------------------------------
(* One op: the call, the stores in their order, the records.  The last record *)
(* is of the destination.                                                     *)

Stored(r, result, regs) == [regs EXCEPT ![r] = result]
ResultIn(r) == Stored(r, "res", ScaOld)

Do(name, outs, ins, results, regs, puts) ==
    /\ scaOp' = name /\ scaD' \in ScaRegs /\ scaB' \in ScaRegs
    /\ scaReg' = regs
    /\ scaCall' = [outs |-> outs, ins |-> ins]
    /\ scaProduced' = results
    /\ scaRecorded' = puts \cup {scaReg'[scaD']}

(* SCALAR_SET_B32, SCALAR_SET_B32_SECKEY *)
SetB32 ==
    /\ Do("set_b32", {scaD'}, {}, {"res", "flag"}, ResultIn(scaD'), {"flag"})
    /\ UNCHANGED scaBits

(* A result goes to a local first, a source is read from its copy. *)
Through == [out |-> "res", in |-> "y"]

(* SCALAR_ADD, whose overflow is recorded, SCALAR_MUL, and the unary ones. *)
Arithmetic ==
    /\ \/ Do("arithmetic", {Through.out}, {"a", Through.in}, {"res", "flag"},
             ResultIn(scaD'), {"flag"})
       \/ Do("arithmetic", {Through.out}, {"a", Through.in}, {"res"}, ResultIn(scaD'), {})
       \/ Do("arithmetic", {Through.out}, {"a"}, {"res"}, ResultIn(scaD'), {})
    /\ UNCHANGED scaBits

(* SCALAR_COND_NEGATE: a call on the destination alone. *)
InPlace ==
    /\ Do("in_place", {scaD'}, {}, {"res", "flag"}, ResultIn(scaD'), {"flag"})
    /\ UNCHANGED scaBits

(* SCALAR_CMOV: the destination keeps its value or takes the copied source's. *)
ScaCmov ==
    /\ Do("cmov", {scaD'}, {"a"}, {"res"}, ResultIn(scaD'), {})
    /\ UNCHANGED scaBits

(* SCALAR_SPLIT_128, SCALAR_SPLIT_LAMBDA *)
Split ==
    /\ Do("split", {Through.out, "res2"}, {"a"}, {"res", "res2"},
          Stored(scaB', "res2", ResultIn(scaD')), {"res2"})
    /\ UNCHANGED scaBits

Shift(byte) == 256 + byte

MulShift ==
    /\ Do("mul_shift", {Through.out}, {"a", Through.in}, {"res"}, ResultIn(scaD'), {})
    /\ \E byte \in InputBytes : scaBits' = [NoBits EXCEPT !.from = Shift(byte)]

(* Mutated VarOffset: one too many. *)
VarOffsetPast(word, count) == word % (258 - count)

VarOffset(word, count) == word % (257 - count)

(* SCALAR_QUERY: get_bits_var, or get_bits_limb32 within one limb. *)
ScaQuery ==
    /\ Do("query", {}, {"a", "y"}, {}, ScaOld, {})
    /\ \E n \in InputBytes :
        LET count == 1 + (n % 32) IN
        \/ \E word \in InputWords :
            scaBits' = [from |-> VarOffset(word, count), count |-> count, limb |-> 0]
        \/ \E l, byte \in InputBytes :
            scaBits' = [from |-> 32 * (l % 8) + (byte % (33 - count)), count |-> count, limb |-> 32]

ScaNext == SetB32 \/ Arithmetic \/ InPlace \/ ScaCmov \/ Split \/ MulShift \/ ScaQuery
ScaSpec == ScaInit /\ [][ScaNext]_scaVars

-----------------------------------------------------------------------------
(* Properties. *)

(* "Operands are copied before each call so no call relies on aliasing the    *)
(* contract leaves unspecified" (head of scalar.c), however the selector      *)
(* makes the destination and the sources coincide; "get_bits_var needs        *)
(* 1 <= count <= 32 and offset + count <= 256", get_bits_limb32 "all bits     *)
(* within one 32-bit limb" (scalar_query), and "Shift must be at least 256;   *)
(* the implementations handle up to 512" (SCALAR_MUL_SHIFT_VAR).              *)
ScalarInContract ==
    /\ scaCall.outs \cap scaCall.ins = {}
    /\ scaOp = "query" =>
        /\ scaBits.count \in 1..32 /\ scaBits.from + scaBits.count <= 256
        /\ scaBits.limb > 0 => scaBits.from \div 32 = (scaBits.from + scaBits.count - 1) \div 32
    /\ scaOp = "mul_shift" => scaBits.from \in 256..512

(* "writes every observable result (return codes, output bytes) to out"       *)
(* (diffsecp.h).  It does not hold: see OnlySplitLoses.                       *)
ResultsRecorded == scaProduced \subseteq scaRecorded

(* How far it does: a split into one register stores its second result over   *)
(* its first, which is then neither recorded nor read by any op, and no other *)
(* op loses one.                                                              *)
OnlySplitLoses ==
    scaProduced \ scaRecorded = IF scaOp = "split" /\ scaD = scaB THEN {"res"} ELSE {}
=============================================================================
