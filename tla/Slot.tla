-------------------------------- MODULE Slot --------------------------------
(***************************************************************************)
(* The reassembly slot of src/adaptor/can/slot.rs, as operators on a       *)
(* record.  The Rust slot is a fixed array of SLOT_SIZE bytes with three   *)
(* fields; the bytes past current_len are never read before they are       *)
(* written again, so the model keeps the first current_len bytes only:     *)
(*    data  = data[..current_len]       Len(data) = current_len            *)
(*    total = total_len                 valid     = is_valid               *)
(***************************************************************************)
EXTENDS Naturals, Sequences

CONSTANT SlotSize            \* SLOT_SIZE: 157 in the source

ASSUME SlotSizeAssumption == SlotSize \in Nat

SlotOf(data, total, valid) == [data |-> data, total |-> total, valid |-> valid]

\* Default::default(): nothing announced, nothing copied.
EmptySlot == SlotOf(<<>>, 0, FALSE)

\* Mutants of ResetSlot: current_len is forgotten; is_valid is.
ResetKeepsData(slot) == SlotOf(slot.data, 0, FALSE)
ResetStaysValid(slot) == SlotOf(<<>>, 0, TRUE)

\* reset(): all three fields.
ResetSlot(slot) == SlotOf(<<>>, 0, FALSE)

\* The test that set_total_len(len) makes before it stores anything.
TotalFits(len) == len <= SlotSize

SetTotalLen(slot, len) == SlotOf(slot.data, len, TRUE)

\* The test that copy_from_slice(src) makes: "overflow" when it fails.
CopyFits(slot, src) == Len(slot.data) + Len(src) <= slot.total

CopyFromSlice(slot, src) == SlotOf(slot.data \o src, slot.total, slot.valid)

IsComplete(slot) == slot.valid /\ Len(slot.data) = slot.total

\* A slot of bytes of the set B.
SlotsOf(B) == [data : Seq(B), total : Nat, valid : BOOLEAN]

\* A slot at rest: empty, or waiting for the rest of an announced message
\* that is long enough for the header, a byte of payload and the checksum.
IsOpen(slot) ==
    \/ slot = EmptySlot
    \/ /\ slot.valid
       /\ slot.total \in 11..SlotSize
       /\ Len(slot.data) < slot.total

\* A slot at rest whose announced total, plus 3, wrapped to 0, 1 or 2.
IsWrapped(slot) ==
    /\ slot.valid
    /\ slot.total \in 0..2
    /\ Len(slot.data) < slot.total \/ slot.data = <<>>
=============================================================================
