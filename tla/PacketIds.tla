------------------------------ MODULE PacketIds ------------------------------
(***************************************************************************)
(* PartialPacketId of the resender (src/tsproto/src/resend.rs): a          *)
(* generation_id (u32) and a packet_id (u16), ordered lexicographically,   *)
(* with Add<u16> and Sub<u16> that carry into and borrow from the          *)
(* generation.  PidMod stands for 2^16 and GenMod for 2^32.                *)
(*                                                                         *)
(* The Resender module encodes an id as the number                         *)
(* generation_id * SeqMod + packet_id (SeqMod is PidMod here, as           *)
(* SequencesExt has an operator of that name).  The operators below        *)
(* translate the code's own definitions; the properties check them        *)
(* against that encoding for every id and every operand, which is what    *)
(* justifies it.                                                           *)
(***************************************************************************)
EXTENDS Naturals

CONSTANTS PidMod, GenMod

ASSUME PidMod \in Nat \ {0} /\ GenMod \in Nat \ {0}

\* PartialPacketId
PartialIds == [gen : 0..(GenMod - 1), pid : 0..(PidMod - 1)]

\* (mutant) comparing packet_id before generation_id.
CmpPidFirst(a, b) ==
  IF a.pid # b.pid THEN (IF a.pid < b.pid THEN "Less" ELSE "Greater")
  ELSE IF a.gen # b.gen THEN (IF a.gen < b.gen THEN "Less" ELSE "Greater")
  ELSE "Equal"

\* Ord for PartialPacketId: generation_id, then packet_id.
Cmp(a, b) ==
  IF a.gen # b.gen THEN (IF a.gen < b.gen THEN "Less" ELSE "Greater")
  ELSE IF a.pid # b.pid THEN (IF a.pid < b.pid THEN "Less" ELSE "Greater")
  ELSE "Equal"

\* (mutant) Add ignoring the overflow flag.
AddIdNoCarry(a, r) == [gen |-> a.gen, pid |-> (a.pid + r) % PidMod]

\* Add<u16>: overflowing_add of the packet_id; on overflow the generation
\* is incremented with wrapping_add.
AddId(a, r) ==
  LET next_gen == a.pid + r >= PidMod IN
  [gen |-> IF next_gen THEN (a.gen + 1) % GenMod ELSE a.gen,
   pid |-> (a.pid + r) % PidMod]

\* (mutant) Sub borrowing only when the result would be below -1.
SubIdLateBorrow(a, r) ==
  LET last_gen == a.pid + 1 < r IN
  [gen |-> IF last_gen THEN (a.gen + GenMod - 1) % GenMod ELSE a.gen,
   pid |-> (a.pid + PidMod - r) % PidMod]

\* Sub<u16>: overflowing_sub of the packet_id; on underflow the
\* generation is decremented with wrapping_sub.
SubId(a, r) ==
  LET last_gen == a.pid < r IN
  [gen |-> IF last_gen THEN (a.gen + GenMod - 1) % GenMod ELSE a.gen,
   pid |-> (a.pid + PidMod - r) % PidMod]

-----------------------------------------------------------------------------
(* The reference: ids as numbers modulo GenMod * PidMod                     *)

Enc(a) == a.gen * PidMod + a.pid
Dec(n) == [gen |-> (n \div PidMod) % GenMod, pid |-> n % PidMod]
Space == GenMod * PidMod

NumCmp(m, n) == IF m < n THEN "Less" ELSE IF m > n THEN "Greater" ELSE "Equal"

\* The id the properties start from; every step picks a new one, so every
\* id is checked against every operand.
VARIABLE x

PidInit == x \in PartialIds
PidNext == x' \in PartialIds

\* The lexicographic order of PartialPacketId is the order of the numbers
\* it encodes, so the Resender may compare encoded ids with < and >.
CmpMatchesNumbers ==
  \A y \in PartialIds : Cmp(x, y) = NumCmp(Enc(x), Enc(y))

\* Adding a u16 to a PartialPacketId is addition of numbers modulo the
\* whole id space: the carry into the generation is taken exactly when
\* the packet_id overflows, also at the last generation.
AddMatchesNumbers ==
  \A r \in 0..(PidMod - 1) : AddId(x, r) = Dec((Enc(x) + r) % Space)

\* Subtracting a u16 is subtraction modulo the id space, and undoes the
\* addition: (a + r) - r = a, across the packet_id and generation wraps.
SubMatchesNumbers ==
  \A r \in 0..(PidMod - 1) :
    /\ SubId(x, r) = Dec((Enc(x) + Space - r) % Space)
    /\ SubId(AddId(x, r), r) = x

====
