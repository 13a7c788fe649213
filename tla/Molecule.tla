------------------------------ MODULE Molecule ------------------------------
(***************************************************************************)
(* How a type script gets at its own arguments: ckb_load_script() into a   *)
(* buffer on the stack, MolReader_Script_verify() of protocol.h, and the   *)
(* accessors of molecule_reader.h (main() of both token scripts, and       *)
(* check_tx_input()).  A script is a table of three fields, a code hash,   *)
(* a byte and a vector of bytes: its size, an offset for each field, and   *)
(* the fields.                                                             *)
(*                                                                         *)
(* The scripts of other cells are read without all this, at offsets that   *)
(* udtswap_common.h fixes.                                                 *)
(*                                                                         *)
(* A byte has Base values, so that numbers of four bytes stay small.       *)
(***************************************************************************)
EXTENDS Integers, Sequences

CONSTANTS
    Base,              \* values of a byte
    HASH_SIZE,         \* bytes of a hash
    SCRIPT_SIZE,       \* bytes of the buffer
    CODE_HASH_START,   \* where udtswap_common.h expects the code hash
    ARGS_START,        \* and the bytes of the arguments
    Items              \* bound: what may be loaded

MOL_NUM_T_SIZE == 4
Byte == 0 .. Base - 1
NumWidth == Base * Base * Base * Base

ASSUME MoleculeAssumption ==
    /\ Base \in Nat \ {0, 1} /\ HASH_SIZE \in Nat /\ SCRIPT_SIZE \in Nat
    /\ SCRIPT_SIZE < NumWidth /\ HASH_SIZE < NumWidth
    /\ CODE_HASH_START = 4 * MOL_NUM_T_SIZE
    /\ ARGS_START = CODE_HASH_START + HASH_SIZE + 1 + MOL_NUM_T_SIZE
    /\ Items \subseteq Seq(Byte)

VARIABLES
    item,     \* the bytes the node loads
    script,   \* the buffer
    len,      \* the size of the item
    offsets,  \* those read so far
    args,     \* where the bytes of the arguments are, and how many
    pc        \* "load", "header", "offsets", "fields", "args", or a verdict

vars == <<item, script, len, offsets, args, pc>>

-----------------------------------------------------------------------------
\* A number in the buffer, its lowest byte first.
mol_unpack_number(ptr) ==
    script[ptr] + Base * (script[ptr + 1]
                           + Base * (script[ptr + 2] + Base * script[ptr + 3]))

\* What arithmetic on mol_num_t leaves of a number.
Num(n) == n % NumWidth

mol_verify_fixed_size(seg, total_size) == seg.size = total_size

\* Mutation: bytes may follow the items.
mol_fixvec_verify_at_least(seg, item_size) ==
    /\ seg.size >= MOL_NUM_T_SIZE
    /\ LET item_count == mol_unpack_number(seg.ptr)
       IN  seg.size >= Num(MOL_NUM_T_SIZE + item_size * item_count)

mol_fixvec_verify(seg, item_size) ==
    /\ seg.size >= MOL_NUM_T_SIZE
    /\ LET item_count == mol_unpack_number(seg.ptr)
       IN  seg.size = Num(MOL_NUM_T_SIZE + item_size * item_count)

\* Field k (from 0) of a table in the buffer; its last field ends with it.
\* Every caller asks for a field that is there.
mol_table_slice_by_index(k) ==
    LET total_size == mol_unpack_number(0)
        item_count == mol_unpack_number(MOL_NUM_T_SIZE) \div 4 - 1
        start == mol_unpack_number(MOL_NUM_T_SIZE * (k + 1))
        end == IF k + 1 = item_count THEN total_size
               ELSE mol_unpack_number(MOL_NUM_T_SIZE * (k + 2))
    IN  [ptr |-> start, size |-> Num(end - start)]

mol_fixvec_slice_raw_bytes(seg) ==
    [ptr |-> seg.ptr + MOL_NUM_T_SIZE, size |-> mol_unpack_number(seg.ptr)]

-----------------------------------------------------------------------------
\* The number of fields is that of the offsets, and those end where the first
\* field begins.
field_count == mol_unpack_number(MOL_NUM_T_SIZE) \div 4 - 1

size_ok ==
    /\ len >= MOL_NUM_T_SIZE
    /\ mol_unpack_number(0) = len
    /\ len >= MOL_NUM_T_SIZE * 2

offset_ok ==
    /\ mol_unpack_number(MOL_NUM_T_SIZE) % 4 = 0
    /\ mol_unpack_number(MOL_NUM_T_SIZE) >= MOL_NUM_T_SIZE * 2

\* Mutations: more fields are compatible; the offsets may be missing.
header_ok_compatible ==
    /\ size_ok /\ offset_ok
    /\ field_count >= 3
    /\ len >= MOL_NUM_T_SIZE * (field_count + 1)

header_ok_short == size_ok /\ offset_ok /\ field_count = 3

\* The checks up to the loop; compatible is false in every call.
header_ok ==
    /\ size_ok /\ offset_ok
    /\ field_count = 3
    /\ len >= MOL_NUM_T_SIZE * (field_count + 1)

\* The checks of the three fields behind the loop; offsets[field_count] is the
\* total size.
Field(k) ==
    LET end == IF k = field_count THEN len ELSE offsets[k + 1]
    IN  [ptr |-> offsets[k], size |-> Num(end - offsets[k])]

fields_ok ==
    /\ mol_verify_fixed_size(Field(1), HASH_SIZE)
    /\ Field(2).size = 1
    /\ mol_fixvec_verify(Field(3), 1)

NoArgs == [ptr |-> 0, size |-> 0]

\* The stack holds anything.
Init == /\ item \in Items
        /\ \E b \in Byte : script = [k \in 0 .. SCRIPT_SIZE - 1 |-> b]
        /\ len = 0
        /\ offsets = <<>>
        /\ args = NoArgs
        /\ pc = "load"

\* ckb_load_script() copies what fits, and returns the size of all.
Load ==
    /\ pc = "load"
    /\ script' = [k \in 0 .. SCRIPT_SIZE - 1 |->
                    IF k < Len(item) THEN item[k + 1] ELSE script[k]]
    /\ len' = Len(item)
    /\ pc' = IF len' > SCRIPT_SIZE THEN "too_long" ELSE "header"
    /\ UNCHANGED <<item, offsets, args>>

\* MolReader_Script_verify(), up to offsets[0].
VerifyHeader ==
    /\ pc = "header"
    /\ IF header_ok
         THEN pc' = "offsets" /\ offsets' = <<mol_unpack_number(MOL_NUM_T_SIZE)>>
         ELSE pc' = "ERROR_ENCODING" /\ offsets' = offsets
    /\ UNCHANGED <<item, script, len, args>>

\* The body of its loop.
VerifyOffset ==
    /\ pc = "offsets" /\ Len(offsets) < field_count
    /\ LET i == Len(offsets)
           offset == mol_unpack_number(MOL_NUM_T_SIZE * (i + 1))
       IN  IF offsets[i] > offset
             THEN pc' = "ERROR_ENCODING" /\ offsets' = offsets
             ELSE pc' = "offsets" /\ offsets' = Append(offsets, offset)
    /\ UNCHANGED <<item, script, len, args>>

\* Behind the loop, to the end of MolReader_Script_verify().
VerifyFields ==
    /\ pc = "offsets" /\ Len(offsets) = field_count
    /\ pc' = IF offsets[field_count] <= len /\ fields_ok THEN "args"
             ELSE "ERROR_ENCODING"
    /\ UNCHANGED <<item, script, len, offsets, args>>

\* MolReader_Script_get_args() and MolReader_Bytes_raw_bytes().
GetArgs ==
    /\ pc = "args"
    /\ args' = mol_fixvec_slice_raw_bytes(mol_table_slice_by_index(2))
    /\ pc' = "got"
    /\ UNCHANGED <<item, script, len, offsets>>

Next == \/ Load
        \/ VerifyHeader
        \/ VerifyOffset
        \/ VerifyFields
        \/ GetArgs

Spec == Init /\ [][Next]_vars

-----------------------------------------------------------------------------
\* The program's reference for all this is how the node serializes a script.
Bytes(n) ==
    <<n % Base, (n \div Base) % Base, ((n \div Base) \div Base) % Base,
      (((n \div Base) \div Base) \div Base) % Base>>

Serialize(code_hash, hash_type, bytes) ==
    Bytes(ARGS_START + Len(bytes)) \o Bytes(CODE_HASH_START)
      \o Bytes(CODE_HASH_START + HASH_SIZE) \o Bytes(CODE_HASH_START + HASH_SIZE + 1)
      \o code_hash \o <<hash_type>> \o Bytes(Len(bytes)) \o bytes

IsScript ==
    /\ Len(item) >= ARGS_START
    /\ item = Serialize(SubSeq(item, CODE_HASH_START + 1, CODE_HASH_START + HASH_SIZE),
                        item[CODE_HASH_START + HASH_SIZE + 1],
                        SubSeq(item, ARGS_START + 1, Len(item)))

\* The reader takes for a script what the node would serialize as one, all of
\* it and nothing else, whatever is behind it in the buffer
\* (MolReader_Script_verify).
ExactlyScripts ==
    /\ pc = "got" => IsScript
    /\ pc = "ERROR_ENCODING" => ~IsScript

\* A number that is within the item.
Within(ptr) == ptr + MOL_NUM_T_SIZE <= len

\* No number is read that is not within the item: behind it is what the stack
\* held before (molecule_reader.h asks its callers to check).  This is about
\* the reads of the loop over the offsets and of the accessors, which rely on
\* what other steps have checked; in the header and the fields each read
\* follows its own check of the size.
ReadsInside ==
    /\ pc = "offsets" /\ Len(offsets) < field_count =>
          Within(MOL_NUM_T_SIZE * (Len(offsets) + 1))
    /\ pc = "args" => Within(mol_table_slice_by_index(2).ptr)
    /\ pc = "got" => args.ptr + args.size <= len

\* The reader finds the code hash and the arguments where the scripts look for
\* them in other cells, and the arguments fill the rest, so that a script of
\* the right size has arguments of the right size (CODE_HASH_START, ARGS_START
\* and the sizes of scripts in udtswap_common.h).
FixedOffsets ==
    pc = "got" =>
      /\ mol_table_slice_by_index(0) = [ptr |-> CODE_HASH_START, size |-> HASH_SIZE]
      /\ args = [ptr |-> ARGS_START, size |-> len - ARGS_START]

==============================================================================
