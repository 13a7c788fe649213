---------------------------- MODULE TokenLoopProofs ----------------------------
(***************************************************************************)
(* First the reader of Molecule: for every width of a byte, size of a hash *)
(* and size of the buffer, a script that it accepts has its fields at the  *)
(* fixed offsets, and no number is read from behind the item.  Its         *)
(* invariant keeps what each check has established: the item is in the     *)
(* buffer, the offsets read so far are those of the header and do not      *)
(* decrease, and behind the last check the fields have their sizes.        *)
(*                                                                         *)
(* Then main() of the token scripts, for every width of an amount, every   *)
(* script and every number of cells: it succeeds exactly where the token's *)
(* rule holds of the whole sums, and who does not own the token makes and  *)
(* destroys none of it.  Its invariant is that of the reader up to the     *)
(* check of the arguments, and then that the amounts are the sums of the   *)
(* cells the loops have behind them, below the width.                      *)
(***************************************************************************)
EXTENDS TokenLoop, CellFacts

Bound == 0 .. NumWidth - 1

HeaderRead == size_ok /\ offset_ok /\ field_count = 3 /\ len >= 16

OffsetsRead ==
    /\ offsets \in Seq(Bound) /\ Len(offsets) \in 1 .. 3
    /\ offsets[1] = mol_unpack_number(4)
    /\ Len(offsets) >= 2 => offsets[2] = mol_unpack_number(8) /\ offsets[1] <= offsets[2]
    /\ Len(offsets) = 3 => offsets[3] = mol_unpack_number(12) /\ offsets[2] <= offsets[3]

FieldsRead == Len(offsets) = 3 /\ offsets[3] <= len /\ fields_ok

\* The buffer holds what of the item fits.
Loaded == /\ len = Len(item)
          /\ \A k \in 0 .. SCRIPT_SIZE - 1 : k < len => script[k] = item[k + 1]

IInv ==
    /\ item \in Seq(Byte)
    /\ script \in [0 .. SCRIPT_SIZE - 1 -> Byte]
    /\ len \in Nat
    /\ pc \in {"load", "too_long", "header", "ERROR_ENCODING", "offsets", "args", "got"}
    /\ pc # "load" => Loaded
    /\ pc = "too_long" => len > SCRIPT_SIZE
    /\ pc \in {"header", "offsets", "args", "got"} => len <= SCRIPT_SIZE
    /\ pc \in {"offsets", "args", "got"} => HeaderRead /\ OffsetsRead
    /\ pc \in {"args", "got"} => FieldsRead
    /\ pc = "got" => args = mol_fixvec_slice_raw_bytes(mol_table_slice_by_index(2))
    /\ pc = "ERROR_ENCODING" => ~IsScript

-----------------------------------------------------------------------------
\* Numbers.  One more byte below a number that has a bound.
LEMMA HornerStep ==
    ASSUME NEW M \in Nat \ {0}, NEW b \in Byte, NEW x \in 0 .. M - 1
    PROVE  b + Base * x \in 0 .. Base * M - 1
<1>1. Base \in Nat \ {0, 1} BY MoleculeAssumption
<1>2. Base * x \in Nat /\ Base * M \in Nat BY <1>1, SMT
<1>3. Base * x + Base <= Base * M
  <2>1. x + 1 <= M OBVIOUS
  <2>2. Base * (x + 1) <= Base * M BY <1>1, <2>1, SMT
  <2>3. Base * (x + 1) = Base * x + Base BY <1>1, SMT
  <2> QED BY <1>1, <1>2, <2>2, <2>3, SMT
<1> QED BY <1>1, <1>2, <1>3, SMT DEF Byte

\* Numbers of four bytes.
LEMMA WidthIsNat == NumWidth \in Nat /\ NumWidth >= 16 /\ Base \in Nat \ {0, 1}
<1>1. Base \in Nat /\ Base >= 2 BY MoleculeAssumption
<1>2. Base * Base \in Nat /\ Base * Base >= 4 BY <1>1, SMT
<1>3. DEFINE S == Base * Base
<1>4. S \in Nat /\ S >= 4 BY <1>2
<1>5. Base * Base * Base * Base = S * S BY <1>1, SMT
<1>6. S * S >= 16 /\ S * S \in Nat
  <2> HIDE DEF S
  <2> QED BY <1>4, SMT
<1> QED BY <1>1, <1>5, <1>6 DEF NumWidth

\* A number within the buffer fits its width.
LEMMA NumbersFit ==
    ASSUME script \in [0 .. SCRIPT_SIZE - 1 -> Byte],
           NEW ptr \in Nat, ptr + 4 <= SCRIPT_SIZE
    PROVE  mol_unpack_number(ptr) \in Bound
<1>0. SCRIPT_SIZE \in Nat /\ Base \in Nat \ {0, 1} BY MoleculeAssumption
<1>1. /\ script[ptr] \in Byte /\ script[ptr + 1] \in Byte
      /\ script[ptr + 2] \in Byte /\ script[ptr + 3] \in Byte
  BY <1>0
<1>2. script[ptr + 3] \in 0 .. Base - 1 BY <1>1 DEF Byte
<1>3. script[ptr + 2] + Base * script[ptr + 3] \in 0 .. Base * Base - 1
  BY <1>0, <1>1, <1>2, HornerStep
<1>4. Base * Base \in Nat \ {0} BY <1>0, SMT
<1>5. script[ptr + 1] + Base * (script[ptr + 2] + Base * script[ptr + 3])
         \in 0 .. Base * (Base * Base) - 1
  BY <1>1, <1>3, <1>4, HornerStep
<1>6. Base * (Base * Base) \in Nat \ {0} BY <1>0, <1>4, SMT
<1>7. mol_unpack_number(ptr) \in 0 .. Base * (Base * (Base * Base)) - 1
  BY <1>1, <1>5, <1>6, HornerStep DEF mol_unpack_number
<1>8. Base * (Base * (Base * Base)) = NumWidth BY <1>0, SMT DEF NumWidth
<1> QED BY <1>7, <1>8 DEF Bound

\* A number below the width is left as it is.
LEMMA NumKeeps == ASSUME NEW n \in Bound PROVE Num(n) = n
<1>1. NumWidth \in Nat /\ NumWidth >= 16 BY WidthIsNat
<1> QED BY <1>1, SMT DEF Num, Bound

\* The size of a vector of bytes wraps to less than its own header, if at all.
LEMMA NumOfVector ==
    ASSUME NEW n \in Bound, Num(4 + n) >= 4 PROVE Num(4 + n) = 4 + n
<1>1. NumWidth \in Nat /\ NumWidth >= 16 BY WidthIsNat
<1>2. CASE 4 + n < NumWidth
  BY <1>1, <1>2, NumKeeps DEF Bound
<1>3. CASE 4 + n >= NumWidth
  <2>1. (4 + n) % NumWidth = 4 + n - NumWidth
    BY <1>1, <1>3, SMT DEF Bound
  <2> QED BY <1>1, <2>1, SMT DEF Num, Bound
<1> QED BY <1>1, <1>2, <1>3 DEF Bound

-----------------------------------------------------------------------------
\* A number taken apart, and one byte put below a number.
LEMMA Horner ==
    ASSUME NEW b \in Byte, NEW x \in Nat, NEW v \in Nat
    PROVE  b + Base * x = v <=> b = v % Base /\ x = v \div Base
<1>1. Base \in Nat \ {0, 1} BY MoleculeAssumption
<1>2. ASSUME b + Base * x = v PROVE b = v % Base /\ x = v \div Base
  BY <1>1, <1>2, SMT DEF Byte
<1>3. v = (v % Base) + Base * (v \div Base)
  BY <1>1, SMT
<1> QED BY <1>2, <1>3

\* The bytes of a number.
LEMMA BytesOf == ASSUME NEW n \in Nat PROVE Bytes(n) \in Seq(Byte) /\ Len(Bytes(n)) = 4
<1>1. Base \in Nat \ {0, 1} BY MoleculeAssumption
<1>2. \A m \in Nat : m % Base \in Byte /\ m \div Base \in Nat
  BY <1>1, SMT DEF Byte
<1>3. /\ n % Base \in Byte /\ (n \div Base) % Base \in Byte
      /\ ((n \div Base) \div Base) % Base \in Byte
      /\ (((n \div Base) \div Base) \div Base) % Base \in Byte
  BY <1>2
<1> QED BY <1>3 DEF Bytes

\* The number at ptr is the one whose bytes stand there in the item.
LEMMA NumberAt ==
    ASSUME item \in Seq(Byte), Loaded, len <= SCRIPT_SIZE,
           NEW ptr \in Nat, ptr + 4 <= len, NEW v \in Bound
    PROVE  mol_unpack_number(ptr) = v <=> \A k \in 1 .. 4 : Bytes(v)[k] = item[ptr + k]
<1>1. /\ Base \in Nat \ {0, 1} /\ NumWidth \in Nat /\ SCRIPT_SIZE \in Nat
      /\ len \in Nat /\ len = Len(item)
  BY MoleculeAssumption, WidthIsNat DEF Loaded
<1>2. \A k \in 1 .. 4 : script[ptr + (k - 1)] = item[ptr + k] /\ item[ptr + k] \in Byte
  <2> SUFFICES ASSUME NEW k \in 1 .. 4
               PROVE  script[ptr + (k - 1)] = item[ptr + k] /\ item[ptr + k] \in Byte
    OBVIOUS
  <2>1. ptr + (k - 1) \in 0 .. SCRIPT_SIZE - 1 /\ ptr + (k - 1) < len
        /\ (ptr + (k - 1)) + 1 = ptr + k /\ ptr + k \in 1 .. len
    BY <1>1
  <2> QED BY <1>1, <2>1 DEF Loaded
<1> DEFINE b0 == item[ptr + 1] b1 == item[ptr + 2] b2 == item[ptr + 3] b3 == item[ptr + 4]
           q1 == v \div Base q2 == q1 \div Base q3 == q2 \div Base
<1>3. /\ script[ptr] = b0 /\ script[ptr + 1] = b1 /\ script[ptr + 2] = b2
      /\ script[ptr + 3] = b3
      /\ b0 \in Byte /\ b1 \in Byte /\ b2 \in Byte /\ b3 \in Byte
  <2>1. ptr + (1 - 1) = ptr /\ ptr + (2 - 1) = ptr + 1 /\ ptr + (3 - 1) = ptr + 2
        /\ ptr + (4 - 1) = ptr + 3
    OBVIOUS
  <2> QED BY <1>2, <2>1
<1>4. mol_unpack_number(ptr) = b0 + Base * (b1 + Base * (b2 + Base * b3))
  BY <1>3 DEF mol_unpack_number
<1>5. v \in Nat /\ q1 \in Nat /\ q2 \in Nat /\ q3 \in Nat
  <2>1. \A m \in Nat : m \div Base \in Nat BY <1>1, SMT
  <2>2. v \in Nat BY <1>1 DEF Bound
  <2> QED BY <2>1, <2>2
<1>6. q3 < Base
  <2>1. v < Base * (Base * (Base * Base))
    <3>1. v < NumWidth BY <1>1 DEF Bound
    <3>2. NumWidth = Base * (Base * (Base * Base)) BY <1>1, SMT DEF NumWidth
    <3> QED BY <3>1, <3>2
  <2>2. \A m \in Nat, c \in Nat : m < Base * c => m \div Base < c
    <3> SUFFICES ASSUME NEW m \in Nat, NEW c \in Nat, m < Base * c
                 PROVE  m \div Base < c
      OBVIOUS
    <3>1. m = (m % Base) + Base * (m \div Base) /\ m % Base >= 0 /\ m \div Base \in Nat
      BY <1>1, SMT
    <3>2. Base * (m \div Base) < Base * c BY <1>1, <3>1, SMT
    <3> QED BY <1>1, <3>1, <3>2, SMT
  <2>3. Base * Base \in Nat /\ Base * (Base * Base) \in Nat BY <1>1, SMT
  <2>4. q1 < Base * (Base * Base) BY <1>5, <2>1, <2>2, <2>3
  <2>5. q2 < Base * Base BY <1>5, <2>2, <2>3, <2>4
  <2> QED BY <1>1, <1>5, <2>2, <2>5
<1> HIDE DEF b0, b1, b2, b3, q1, q2, q3
<1>7. /\ b3 \in Nat /\ b2 + Base * b3 \in Nat /\ b1 + Base * (b2 + Base * b3) \in Nat
  <2>1. \A b \in Byte, m \in Nat : b + Base * m \in Nat BY <1>1, SMT DEF Byte
  <2>2. b3 \in Nat BY <1>1, <1>3 DEF Byte
  <2> QED BY <1>3, <2>1, <2>2
<1>8. mol_unpack_number(ptr) = v
        <=> /\ b0 = v % Base /\ b1 = q1 % Base /\ b2 = q2 % Base /\ b3 = q3
  <2>1. b0 + Base * (b1 + Base * (b2 + Base * b3)) = v
          <=> b0 = v % Base /\ b1 + Base * (b2 + Base * b3) = q1
    BY <1>3, <1>5, <1>7, Horner DEF q1
  <2>2. b1 + Base * (b2 + Base * b3) = q1 <=> b1 = q1 % Base /\ b2 + Base * b3 = q2
    BY <1>3, <1>5, <1>7, Horner DEF q2
  <2>3. b2 + Base * b3 = q2 <=> b2 = q2 % Base /\ b3 = q3
    BY <1>3, <1>5, <1>7, Horner DEF q3
  <2> QED BY <1>4, <2>1, <2>2, <2>3
<1>9. q3 % Base = q3 BY <1>1, <1>5, <1>6, SMT
<1>10. Bytes(v) = <<v % Base, q1 % Base, q2 % Base, q3 % Base>>
  BY DEF Bytes, q1, q2, q3
<1>11. (\A k \in 1 .. 4 : Bytes(v)[k] = item[ptr + k])
         <=> v % Base = b0 /\ q1 % Base = b1 /\ q2 % Base = b2 /\ q3 % Base = b3
  BY <1>10 DEF b0, b1, b2, b3
<1> QED BY <1>8, <1>9, <1>11

\* s is how the item begins.
Agrees(s) == \A k \in 1 .. Len(s) : s[k] = item[k]

\* The item begins with s \o t where it begins with s and t follows.
LEMMA AgreesConcat ==
    ASSUME NEW s \in Seq(Byte), NEW t \in Seq(Byte)
    PROVE  /\ s \o t \in Seq(Byte) /\ Len(s \o t) = Len(s) + Len(t)
           /\ Agrees(s \o t)
                <=> Agrees(s) /\ \A k \in 1 .. Len(t) : t[k] = item[Len(s) + k]
<1> DEFINE st == s \o t
<1>1. /\ st \in Seq(Byte) /\ Len(st) = Len(s) + Len(t)
      /\ Len(s) \in Nat /\ Len(t) \in Nat
      /\ \A k \in 1 .. Len(s) : st[k] = s[k]
  OBVIOUS
<1>2. \A k \in 1 .. Len(t) : st[Len(s) + k] = t[k]
  OBVIOUS
<1> HIDE DEF st
<1>3. ASSUME Agrees(st) PROVE Agrees(s) /\ \A k \in 1 .. Len(t) : t[k] = item[Len(s) + k]
  BY <1>1, <1>2, <1>3 DEF Agrees
<1>4. ASSUME Agrees(s), \A k \in 1 .. Len(t) : t[k] = item[Len(s) + k]
      PROVE  Agrees(st)
  <2> SUFFICES ASSUME NEW k \in 1 .. Len(st) PROVE st[k] = item[k]
    BY DEF Agrees
  <2>1. CASE k <= Len(s) BY <1>1, <1>4, <2>1 DEF Agrees
  <2>2. CASE k > Len(s)
    <3>1. k - Len(s) \in 1 .. Len(t) /\ Len(s) + (k - Len(s)) = k BY <1>1, <2>2
    <3> QED BY <1>2, <1>4, <3>1
  <2> QED BY <1>1, <2>1, <2>2
<1> QED BY <1>1, <1>3, <1>4 DEF st

\* The item is a script where its five numbers are the right ones: the hash,
\* the byte and the arguments are what they are.
LEMMA ScriptNumbers ==
    ASSUME item \in Seq(Byte), Loaded, len <= SCRIPT_SIZE, ARGS_START <= len
    PROVE  IsScript <=> /\ mol_unpack_number(0) = len
                        /\ mol_unpack_number(4) = 16
                        /\ mol_unpack_number(8) = 16 + HASH_SIZE
                        /\ mol_unpack_number(12) = 16 + HASH_SIZE + 1
                        /\ mol_unpack_number(16 + HASH_SIZE + 1) = len - ARGS_START
<1> DEFINE H == HASH_SIZE
           hash == SubSeq(item, 17, 16 + H)
           type == <<item[16 + H + 1]>>
           bytes == SubSeq(item, ARGS_START + 1, len)
           At(p, v) == \A k \in 1 .. 4 : Bytes(v)[k] = item[p + k]
<1>0. /\ ARGS_START = 16 + H + 1 + 4 /\ CODE_HASH_START = 16 /\ H \in Nat
      /\ NumWidth \in Nat /\ SCRIPT_SIZE < NumWidth /\ SCRIPT_SIZE \in Nat
      /\ len \in Nat /\ len = Len(item)
  BY MoleculeAssumption, WidthIsNat DEF Loaded, MOL_NUM_T_SIZE
<1>1. /\ hash \in Seq(Byte) /\ Len(hash) = H
      /\ \A k \in 1 .. H : hash[k] = item[16 + k]
  BY <1>0
<1>2. /\ type \in Seq(Byte) /\ Len(type) = 1
      /\ \A k \in 1 .. 1 : type[k] = item[16 + H + k]
  <2>1. item[16 + H + 1] \in Byte BY <1>0
  <2> QED BY <2>1
<1>3. /\ bytes \in Seq(Byte) /\ Len(bytes) = len - ARGS_START
      /\ \A k \in 1 .. len - ARGS_START : bytes[k] = item[ARGS_START + k]
  BY <1>0
<1>4. /\ 16 \in Bound /\ 16 + H \in Bound /\ 16 + H + 1 \in Bound
      /\ len \in Bound /\ len - ARGS_START \in Bound
  BY <1>0 DEF Bound
<1>5. \A v \in Bound : Bytes(v) \in Seq(Byte) /\ Len(Bytes(v)) = 4
  BY <1>0, BytesOf DEF Bound
<1> DEFINE s1 == Bytes(len)
           s2 == s1 \o Bytes(16)
           s3 == s2 \o Bytes(16 + H)
           s4 == s3 \o Bytes(16 + H + 1)
           s5 == s4 \o hash
           s6 == s5 \o type
           s7 == s6 \o Bytes(len - ARGS_START)
           s8 == s7 \o bytes
<1>6. IsScript <=> item = s8
  <2>1. ARGS_START + Len(bytes) = len
    <3> HIDE DEF bytes
    <3> QED BY <1>0, <1>3
  <2>2. Serialize(hash, item[16 + H + 1], bytes)
          = Bytes(ARGS_START + Len(bytes)) \o Bytes(16) \o Bytes(16 + H)
              \o Bytes(16 + H + 1) \o hash \o type \o Bytes(Len(bytes)) \o bytes
    BY <1>0 DEF Serialize
  <2>3. Serialize(hash, item[16 + H + 1], bytes) = s8
    <3>1. \A n, m : n = len /\ m = len - ARGS_START =>
            Bytes(n) \o Bytes(16) \o Bytes(16 + H) \o Bytes(16 + H + 1) \o hash \o type
              \o Bytes(m) \o bytes = s8
      BY Zenon
    <3> QED BY <1>3, <2>1, <2>2, <3>1, Zenon
  <2>4. IsScript <=> item = Serialize(hash, item[16 + H + 1], bytes)
    BY <1>0 DEF IsScript
  <2> QED BY <2>3, <2>4
<1>7. s1 \in Seq(Byte) /\ Len(s1) = 4 /\ (Agrees(s1) <=> At(0, len))
  <2>1. s1 \in Seq(Byte) /\ Len(s1) = 4 BY <1>4, <1>5
  <2>2. \A k \in 1 .. 4 : 0 + k = k OBVIOUS
  <2> QED BY <2>1, <2>2 DEF Agrees
<1>a. ASSUME NEW s \in Seq(Byte), NEW n \in Nat, Len(s) = n, NEW v \in Bound
      PROVE  /\ s \o Bytes(v) \in Seq(Byte) /\ Len(s \o Bytes(v)) = n + 4
             /\ Agrees(s \o Bytes(v)) <=> Agrees(s) /\ At(n, v)
  <2>1. Bytes(v) \in Seq(Byte) /\ Len(Bytes(v)) = 4 BY <1>5
  <2>2. /\ s \o Bytes(v) \in Seq(Byte) /\ Len(s \o Bytes(v)) = Len(s) + Len(Bytes(v))
        /\ Agrees(s \o Bytes(v))
             <=> Agrees(s) /\ \A k \in 1 .. Len(Bytes(v)) : Bytes(v)[k] = item[Len(s) + k]
    BY <2>1, AgreesConcat
  <2> QED BY <1>a, <2>1, <2>2, Zenon
<1> HIDE DEF s1, H, At
<1>8. s2 \in Seq(Byte) /\ Len(s2) = 8 /\ (Agrees(s2) <=> Agrees(s1) /\ At(4, 16))
  <2>1. s1 \in Seq(Byte) /\ Len(s1) = 4 /\ 4 \in Nat /\ 16 \in Bound
    BY <1>4, <1>7
  <2>2. /\ s2 \in Seq(Byte) /\ Len(s2) = 4 + 4
        /\ Agrees(s2) <=> Agrees(s1) /\ At(4, 16)
    BY <2>1, <1>a, Zenon
  <2> HIDE DEF s2
  <2> QED BY <2>2
<1> HIDE DEF s2
<1>9. s3 \in Seq(Byte) /\ Len(s3) = 12 /\ (Agrees(s3) <=> Agrees(s2) /\ At(8, 16 + H))
  <2>1. s2 \in Seq(Byte) /\ Len(s2) = 8 /\ 8 \in Nat /\ 16 + H \in Bound
    BY <1>4, <1>8
  <2>2. /\ s3 \in Seq(Byte) /\ Len(s3) = 8 + 4
        /\ Agrees(s3) <=> Agrees(s2) /\ At(8, 16 + H)
    BY <2>1, <1>a, Zenon
  <2> HIDE DEF s3
  <2> QED BY <2>2
<1> HIDE DEF s3
<1>10. s4 \in Seq(Byte) /\ Len(s4) = 16 /\ (Agrees(s4) <=> Agrees(s3) /\ At(12, 16 + H + 1))
  <2>1. s3 \in Seq(Byte) /\ Len(s3) = 12 /\ 12 \in Nat /\ 16 + H + 1 \in Bound
    BY <1>4, <1>9
  <2>2. /\ s4 \in Seq(Byte) /\ Len(s4) = 12 + 4
        /\ Agrees(s4) <=> Agrees(s3) /\ At(12, 16 + H + 1)
    BY <2>1, <1>a, Zenon
  <2> HIDE DEF s4
  <2> QED BY <2>2
<1> HIDE DEF s4, hash
<1>11. s5 \in Seq(Byte) /\ Len(s5) = 16 + H /\ (Agrees(s5) <=> Agrees(s4))
  <2>1. /\ s4 \in Seq(Byte) /\ Len(s4) = 16 /\ 16 \in Nat
        /\ hash \in Seq(Byte) /\ Len(hash) = H /\ H \in Nat
        /\ \A k \in 1 .. H : hash[k] = item[16 + k]
    BY <1>0, <1>1, <1>10
  <2>2. /\ s5 \in Seq(Byte) /\ Len(s5) = Len(s4) + Len(hash)
        /\ Agrees(s5) <=> Agrees(s4) /\ \A k \in 1 .. Len(hash) : hash[k] = item[Len(s4) + k]
    BY <2>1, AgreesConcat, Zenon
  <2> HIDE DEF s5
  <2> QED BY <2>1, <2>2
<1> HIDE DEF s5, type
<1>12. s6 \in Seq(Byte) /\ Len(s6) = 16 + H + 1 /\ (Agrees(s6) <=> Agrees(s5))
  <2>1. /\ s5 \in Seq(Byte) /\ Len(s5) = 16 + H /\ 16 + H \in Nat /\ 1 \in Nat
        /\ type \in Seq(Byte) /\ Len(type) = 1
        /\ \A k \in 1 .. 1 : type[k] = item[16 + H + k]
    BY <1>0, <1>2, <1>11
  <2>2. /\ s6 \in Seq(Byte) /\ Len(s6) = Len(s5) + Len(type)
        /\ Agrees(s6) <=> Agrees(s5) /\ \A k \in 1 .. Len(type) : type[k] = item[Len(s5) + k]
    BY <2>1, AgreesConcat, Zenon
  <2> HIDE DEF s6
  <2> QED BY <2>1, <2>2
<1> HIDE DEF s6
<1>13. s7 \in Seq(Byte) /\ Len(s7) = ARGS_START
       /\ (Agrees(s7) <=> Agrees(s6) /\ At(16 + H + 1, len - ARGS_START))
  <2>1. /\ s6 \in Seq(Byte) /\ Len(s6) = 16 + H + 1 /\ 16 + H + 1 \in Nat
        /\ len - ARGS_START \in Bound
    BY <1>0, <1>4, <1>12
  <2>2. /\ s7 \in Seq(Byte) /\ Len(s7) = (16 + H + 1) + 4
        /\ Agrees(s7) <=> Agrees(s6) /\ At(16 + H + 1, len - ARGS_START)
    BY <2>1, <1>a, Zenon
  <2> HIDE DEF s7
  <2> QED BY <1>0, <2>2
<1> HIDE DEF s7, bytes
<1>14. s8 \in Seq(Byte) /\ Len(s8) = len /\ (Agrees(s8) <=> Agrees(s7))
  <2>1. /\ s7 \in Seq(Byte) /\ Len(s7) = ARGS_START /\ ARGS_START \in Nat
        /\ bytes \in Seq(Byte) /\ Len(bytes) = len - ARGS_START /\ len - ARGS_START \in Nat
        /\ \A k \in 1 .. len - ARGS_START : bytes[k] = item[ARGS_START + k]
    BY <1>0, <1>3, <1>13
  <2>2. /\ s8 \in Seq(Byte) /\ Len(s8) = Len(s7) + Len(bytes)
        /\ Agrees(s8) <=> Agrees(s7) /\ \A k \in 1 .. Len(bytes) : bytes[k] = item[Len(s7) + k]
    BY <2>1, AgreesConcat, Zenon
  <2> HIDE DEF s8
  <2> QED BY <1>0, <2>1, <2>2
<1> HIDE DEF s8
<1>15. item = s8 <=> Agrees(s8)
  <2>1. ASSUME Agrees(s8) PROVE item = s8
    BY <1>0, <1>14, <2>1 DEF Agrees
  <2> QED BY <2>1 DEF Agrees
<1>16. IsScript <=> /\ At(0, len) /\ At(4, 16) /\ At(8, 16 + H) /\ At(12, 16 + H + 1)
                    /\ At(16 + H + 1, len - ARGS_START)
  BY <1>6, <1>7, <1>8, <1>9, <1>10, <1>11, <1>12, <1>13, <1>14, <1>15
<1>17. ASSUME NEW p \in Nat, p + 4 <= len, NEW v \in Bound
       PROVE  At(p, v) <=> mol_unpack_number(p) = v
  BY <1>17, NumberAt DEF At
<1>18. /\ At(0, len) <=> mol_unpack_number(0) = len
       /\ At(4, 16) <=> mol_unpack_number(4) = 16
       /\ At(8, 16 + H) <=> mol_unpack_number(8) = 16 + H
       /\ At(12, 16 + H + 1) <=> mol_unpack_number(12) = 16 + H + 1
       /\ At(16 + H + 1, len - ARGS_START)
            <=> mol_unpack_number(16 + H + 1) = len - ARGS_START
  BY <1>0, <1>4, <1>17
<1> QED BY <1>16, <1>18 DEF H

-----------------------------------------------------------------------------
\* What the checks of the fields establish.
LEMMA Layout ==
    ASSUME IInv, pc \in {"args", "got"}
    PROVE  /\ len \in Bound /\ len <= SCRIPT_SIZE
           /\ mol_unpack_number(0) = len
           /\ offsets[1] = 16 /\ offsets[2] = 16 + HASH_SIZE
           /\ offsets[3] = 16 + HASH_SIZE + 1
           /\ offsets[3] + 4 <= len
           /\ mol_unpack_number(offsets[3]) = len - offsets[3] - 4
<1> USE DEF MOL_NUM_T_SIZE
<1>0. /\ NumWidth \in Nat /\ NumWidth >= 16 /\ SCRIPT_SIZE \in Nat
      /\ SCRIPT_SIZE < NumWidth /\ HASH_SIZE \in Nat /\ HASH_SIZE < NumWidth
  BY MoleculeAssumption, WidthIsNat
<1>1. /\ len \in Nat /\ len <= SCRIPT_SIZE /\ HeaderRead /\ OffsetsRead /\ FieldsRead
      /\ script \in [0 .. SCRIPT_SIZE - 1 -> Byte]
  BY DEF IInv
<1>2. len \in Bound BY <1>0, <1>1 DEF Bound
<1>3. mol_unpack_number(0) = len BY <1>1 DEF HeaderRead, size_ok
<1>4. mol_unpack_number(4) = 16
  <2>1. mol_unpack_number(4) \in Bound
    BY <1>0, <1>1, NumbersFit DEF HeaderRead
  <2>2. mol_unpack_number(4) % 4 = 0 /\ mol_unpack_number(4) \div 4 - 1 = 3
    BY <1>1 DEF HeaderRead, offset_ok, field_count
  <2> DEFINE n == mol_unpack_number(4)
  <2>3. n \in Nat BY <2>1, <1>0 DEF Bound
  <2>4. n % 4 = 0 /\ n \div 4 - 1 = 3 BY <2>2
  <2> HIDE DEF n
  <2>5. n = 16 BY <2>3, <2>4, SMT
  <2> QED BY <2>5 DEF n
<1>5. /\ Len(offsets) = 3 /\ offsets \in Seq(Bound)
      /\ offsets[1] = 16 /\ offsets[1] <= offsets[2] /\ offsets[2] <= offsets[3]
      /\ offsets[3] <= len
  BY <1>1, <1>4 DEF OffsetsRead, FieldsRead
<1>6. offsets[1] \in Bound /\ offsets[2] \in Bound /\ offsets[3] \in Bound
  BY <1>5
<1>7. field_count = 3 BY <1>1 DEF HeaderRead
<1>8. /\ Field(1) = [ptr |-> offsets[1], size |-> Num(offsets[2] - offsets[1])]
      /\ Field(2) = [ptr |-> offsets[2], size |-> Num(offsets[3] - offsets[2])]
      /\ Field(3) = [ptr |-> offsets[3], size |-> Num(len - offsets[3])]
  BY <1>7 DEF Field
<1>9. /\ offsets[2] - offsets[1] \in Bound /\ offsets[3] - offsets[2] \in Bound
      /\ len - offsets[3] \in Bound
  BY <1>0, <1>1, <1>2, <1>5, <1>6, SMT DEF Bound
<1>10. /\ Num(offsets[2] - offsets[1]) = offsets[2] - offsets[1]
       /\ Num(offsets[3] - offsets[2]) = offsets[3] - offsets[2]
       /\ Num(len - offsets[3]) = len - offsets[3]
  BY <1>9, NumKeeps
<1>11. /\ offsets[2] - offsets[1] = HASH_SIZE
       /\ offsets[3] - offsets[2] = 1
       /\ mol_fixvec_verify(Field(3), 1)
  BY <1>1, <1>8, <1>10 DEF FieldsRead, fields_ok, mol_verify_fixed_size
<1>12. offsets[2] = 16 + HASH_SIZE /\ offsets[3] = 16 + HASH_SIZE + 1
  BY <1>0, <1>5, <1>6, <1>11, SMT DEF Bound
<1>13. len - offsets[3] >= 4 BY <1>8, <1>10, <1>11 DEF mol_fixvec_verify
<1>14. mol_unpack_number(offsets[3]) \in Bound
  BY <1>0, <1>1, <1>6, <1>13, NumbersFit, SMT DEF Bound
<1>15. len - offsets[3] = Num(4 + 1 * mol_unpack_number(offsets[3]))
  BY <1>8, <1>10, <1>11 DEF mol_fixvec_verify
<1>16. 1 * mol_unpack_number(offsets[3]) = mol_unpack_number(offsets[3])
  BY <1>0, <1>14 DEF Bound
<1>17. len - offsets[3] = 4 + mol_unpack_number(offsets[3])
  BY <1>13, <1>14, <1>15, <1>16, NumOfVector
<1>18. mol_unpack_number(offsets[3]) = len - offsets[3] - 4
  BY <1>0, <1>1, <1>6, <1>14, <1>17, SMT DEF Bound
<1>19. offsets[3] + 4 <= len
  BY <1>0, <1>1, <1>6, <1>13, SMT DEF Bound
<1> QED BY <1>1, <1>2, <1>3, <1>5, <1>12, <1>18, <1>19

\* The accessor finds the fields that the checks were about.
LEMMA Slices ==
    ASSUME IInv, pc \in {"args", "got"}
    PROVE  /\ mol_table_slice_by_index(0) = [ptr |-> 16, size |-> HASH_SIZE]
           /\ mol_table_slice_by_index(2).ptr = offsets[3]
<1> USE DEF MOL_NUM_T_SIZE
<1>0. HASH_SIZE \in Nat /\ HASH_SIZE < NumWidth /\ NumWidth \in Nat
  BY MoleculeAssumption, WidthIsNat
<1>1. /\ offsets[1] = 16 /\ offsets[2] = 16 + HASH_SIZE
  BY Layout
<1>2. /\ mol_unpack_number(4) = offsets[1] /\ mol_unpack_number(8) = offsets[2]
      /\ mol_unpack_number(12) = offsets[3]
  BY DEF IInv, OffsetsRead, FieldsRead
<1>3. mol_unpack_number(4) \div 4 - 1 = 3
  BY DEF IInv, HeaderRead, field_count
<1>4. /\ mol_unpack_number(4 * (0 + 1)) = 16
      /\ mol_unpack_number(4 * (0 + 2)) = 16 + HASH_SIZE
      /\ mol_unpack_number(4 * (2 + 1)) = offsets[3]
  BY <1>1, <1>2
<1>5. Num((16 + HASH_SIZE) - 16) = HASH_SIZE
  BY <1>0, NumKeeps, SMT DEF Bound
<1> QED BY <1>3, <1>4, <1>5 DEF mol_table_slice_by_index

-----------------------------------------------------------------------------
\* Nothing is loaded.
LEMMA InitIInv == Init => IInv
<1> SUFFICES ASSUME Init PROVE IInv OBVIOUS
<1>1. item \in Seq(Byte) BY MoleculeAssumption DEF Init
<1>2. script \in [0 .. SCRIPT_SIZE - 1 -> Byte] BY DEF Init
<1> QED BY <1>1, <1>2 DEF Init, IInv

\* A step that leaves the buffer alone leaves alone what was read from it.
LEMMA ReadsAgain ==
    ASSUME UNCHANGED <<script, len>>
    PROVE  /\ \A ptr : mol_unpack_number(ptr)' = mol_unpack_number(ptr)
           /\ HeaderRead' = HeaderRead
           /\ field_count' = field_count
           /\ UNCHANGED offsets =>
                 /\ OffsetsRead' = OffsetsRead
                 /\ FieldsRead' = FieldsRead
<1>1. \A ptr : (script[ptr] + Base * (script[ptr + 1]
                   + Base * (script[ptr + 2] + Base * script[ptr + 3])))'
               = script[ptr] + Base * (script[ptr + 1]
                   + Base * (script[ptr + 2] + Base * script[ptr + 3]))
  OBVIOUS
<1>2. HeaderRead' = HeaderRead
  BY DEF HeaderRead, size_ok, offset_ok, field_count, mol_unpack_number, MOL_NUM_T_SIZE
<1>3. field_count' = field_count BY DEF field_count, mol_unpack_number, MOL_NUM_T_SIZE
<1>4. ASSUME UNCHANGED offsets PROVE OffsetsRead' = OffsetsRead /\ FieldsRead' = FieldsRead
  BY <1>4 DEF OffsetsRead, FieldsRead, fields_ok, Field, field_count, Num,
       mol_fixvec_verify, mol_verify_fixed_size, mol_unpack_number, MOL_NUM_T_SIZE
<1> QED BY <1>1, <1>2, <1>3, <1>4 DEF mol_unpack_number

\* A script passes every check.
LEMMA ScriptsPass ==
    ASSUME IInv, pc \in {"header", "offsets"}, IsScript
    PROVE  /\ header_ok
           /\ pc = "offsets" /\ Len(offsets) < 3 =>
                 offsets[Len(offsets)] <= mol_unpack_number(4 * (Len(offsets) + 1))
           /\ pc = "offsets" /\ Len(offsets) = 3 => offsets[3] <= len /\ fields_ok
<1> USE DEF MOL_NUM_T_SIZE
<1>0. /\ ARGS_START = 16 + HASH_SIZE + 1 + 4 /\ HASH_SIZE \in Nat /\ HASH_SIZE < NumWidth
      /\ NumWidth \in Nat /\ NumWidth >= 16 /\ SCRIPT_SIZE \in Nat
      /\ SCRIPT_SIZE < NumWidth
  BY MoleculeAssumption, WidthIsNat
<1>1. item \in Seq(Byte) /\ Loaded /\ len \in Nat /\ len <= SCRIPT_SIZE BY DEF IInv
<1>2. ARGS_START <= len BY <1>1 DEF Loaded, IsScript
<1>3. /\ mol_unpack_number(0) = len /\ mol_unpack_number(4) = 16
      /\ mol_unpack_number(8) = 16 + HASH_SIZE
      /\ mol_unpack_number(12) = 16 + HASH_SIZE + 1
      /\ mol_unpack_number(16 + HASH_SIZE + 1) = len - ARGS_START
  BY <1>1, <1>2, ScriptNumbers
<1>4. 16 % 4 = 0 /\ 16 \div 4 - 1 = 3 OBVIOUS
<1>5. field_count = 3 BY <1>3, <1>4 DEF field_count
<1>6. header_ok
  BY <1>0, <1>1, <1>2, <1>3, <1>4, <1>5 DEF header_ok, size_ok, offset_ok
<1>7. ASSUME pc = "offsets", Len(offsets) < 3
      PROVE  offsets[Len(offsets)] <= mol_unpack_number(4 * (Len(offsets) + 1))
  <2>1. OffsetsRead BY <1>7 DEF IInv
  <2>2. CASE Len(offsets) = 1
    <3>1. 4 * (Len(offsets) + 1) = 8 BY <2>2
    <3> QED BY <1>0, <1>3, <2>1, <2>2, <3>1 DEF OffsetsRead
  <2>3. CASE Len(offsets) = 2
    <3>1. 4 * (Len(offsets) + 1) = 12 BY <2>3
    <3> QED BY <1>0, <1>3, <2>1, <2>3, <3>1 DEF OffsetsRead
  <2> QED BY <1>7, <2>1, <2>2, <2>3 DEF OffsetsRead
<1>8. ASSUME pc = "offsets", Len(offsets) = 3 PROVE offsets[3] <= len /\ fields_ok
  <2>1. /\ offsets[1] = 16 /\ offsets[2] = 16 + HASH_SIZE
        /\ offsets[3] = 16 + HASH_SIZE + 1
    BY <1>3, <1>8 DEF IInv, OffsetsRead
  <2>2. /\ Field(1) = [ptr |-> offsets[1], size |-> Num(offsets[2] - offsets[1])]
        /\ Field(2) = [ptr |-> offsets[2], size |-> Num(offsets[3] - offsets[2])]
        /\ Field(3) = [ptr |-> offsets[3], size |-> Num(len - offsets[3])]
    BY <1>5 DEF Field
  <2>3. /\ offsets[2] - offsets[1] = HASH_SIZE /\ offsets[3] - offsets[2] = 1
        /\ len - offsets[3] = 4 + (len - ARGS_START)
        /\ HASH_SIZE \in Bound /\ 1 \in Bound /\ 4 + (len - ARGS_START) \in Bound
        /\ offsets[3] <= len
    BY <1>0, <1>1, <1>2, <2>1 DEF Bound
  <2>4. /\ Num(HASH_SIZE) = HASH_SIZE /\ Num(1) = 1
        /\ Num(4 + (len - ARGS_START)) = 4 + (len - ARGS_START)
    BY <2>3, NumKeeps
  <2>5. /\ Field(1).size = HASH_SIZE /\ Field(2).size = 1
        /\ Field(3).ptr = 16 + HASH_SIZE + 1 /\ Field(3).size = 4 + (len - ARGS_START)
    BY <2>1, <2>2, <2>3, <2>4
  <2>6. mol_fixvec_verify(Field(3), 1)
    <3>1. mol_unpack_number(Field(3).ptr) = len - ARGS_START BY <1>3, <2>5
    <3>2. 1 * (len - ARGS_START) = len - ARGS_START /\ 4 + (len - ARGS_START) >= 4
      BY <1>0, <1>1, <1>2
    <3> QED BY <2>4, <2>5, <3>1, <3>2 DEF mol_fixvec_verify
  <2> QED BY <2>3, <2>5, <2>6 DEF fields_ok, mol_verify_fixed_size
<1> QED BY <1>6, <1>7, <1>8

\* Each check establishes its part.
LEMMA NextIInv == IInv /\ [Next]_vars => IInv'
<1> SUFFICES ASSUME IInv, [Next]_vars PROVE IInv' OBVIOUS
<1> USE DEF MOL_NUM_T_SIZE
<1>0. SCRIPT_SIZE \in Nat BY MoleculeAssumption
<1>a. UNCHANGED item /\ IsScript' = IsScript
  BY DEF Next, vars, Load, VerifyHeader, VerifyOffset, VerifyFields, GetArgs, IsScript
<1>b. ASSUME UNCHANGED <<item, script, len>> PROVE Loaded' = Loaded
  BY <1>b DEF Loaded
<1>1. CASE Load
  <2>1. script' \in [0 .. SCRIPT_SIZE - 1 -> Byte]
    <3>1. ASSUME NEW k \in 0 .. SCRIPT_SIZE - 1, k < Len(item)
          PROVE  item[k + 1] \in Byte
      BY <1>0, <3>1 DEF IInv
    <3> QED BY <1>0, <1>1, <3>1 DEF Load, IInv
  <2>2. len' \in Nat BY <1>1 DEF Load, IInv
  <2>3. Loaded'
    <3>1. len' = Len(item) BY <1>1 DEF Load
    <3>2. ASSUME NEW k \in 0 .. SCRIPT_SIZE - 1, k < len' PROVE script'[k] = item[k + 1]
      BY <1>1, <3>1, <3>2 DEF Load
    <3> QED BY <1>a, <3>1, <3>2 DEF Loaded
  <2> QED BY <1>0, <1>1, <2>1, <2>2, <2>3 DEF Load, IInv
<1>2. CASE VerifyHeader
  <2>1. CASE header_ok
    <3>1. HeaderRead BY <2>1, <1>2 DEF header_ok, HeaderRead, VerifyHeader, IInv
    <3>2. mol_unpack_number(4) \in Bound
      BY <1>0, <1>2, <3>1, NumbersFit DEF HeaderRead, VerifyHeader, IInv
    <3>3. offsets' = <<mol_unpack_number(4)>> /\ pc' = "offsets"
      BY <1>2, <2>1 DEF VerifyHeader
    <3>4. HeaderRead' BY <1>2, <3>1, ReadsAgain DEF VerifyHeader
    <3>5. OffsetsRead'
      <4>1. mol_unpack_number(4)' = mol_unpack_number(4)
        BY <1>2, ReadsAgain DEF VerifyHeader
      <4>2. offsets' \in Seq(Bound) /\ Len(offsets') = 1 /\ offsets'[1] = mol_unpack_number(4)
        BY <3>2, <3>3
      <4> QED BY <4>1, <4>2 DEF OffsetsRead, Bound
    <3>6. Loaded' BY <1>2, <1>b DEF VerifyHeader, IInv
    <3> QED BY <1>2, <3>3, <3>4, <3>5, <3>6 DEF VerifyHeader, IInv
  <2>2. CASE ~header_ok
    <3>1. pc = "header" /\ pc' = "ERROR_ENCODING" BY <1>2, <2>2 DEF VerifyHeader
    <3>2. ~IsScript BY <2>2, <3>1, ScriptsPass
    <3> QED BY <1>2, <1>a, <1>b, <3>1, <3>2 DEF VerifyHeader, IInv
  <2> QED BY <2>1, <2>2
<1>3. CASE VerifyOffset
  <2> DEFINE read == Len(offsets)
             offset == mol_unpack_number(4 * (read + 1))
  <2>1. HeaderRead /\ OffsetsRead /\ field_count = 3 /\ read \in 1 .. 2
    BY <1>3 DEF VerifyOffset, IInv, HeaderRead, OffsetsRead
  <2>2. CASE offsets[read] > offset
    <3>1. pc = "offsets" /\ pc' = "ERROR_ENCODING" /\ Len(offsets) < 3
      BY <1>3, <2>1, <2>2 DEF VerifyOffset
    <3>2. ~IsScript
      <4>1. offsets[read] \in Bound BY <2>1 DEF OffsetsRead
      <4>2. offset \in Nat
        <5>1. 4 * (read + 1) \in Nat /\ 4 * (read + 1) + 4 <= SCRIPT_SIZE
          BY <1>0, <1>3, <2>1 DEF HeaderRead, VerifyOffset, IInv
        <5>2. offset \in Bound BY <5>1, NumbersFit DEF IInv
        <5> QED BY <5>2, WidthIsNat DEF Bound
      <4>3. offsets[read] \in Nat BY <4>1, WidthIsNat DEF Bound
      <4> HIDE DEF offset
      <4>4. ~(offsets[read] <= offset) BY <2>2, <4>2, <4>3
      <4> QED BY <3>1, <4>4, ScriptsPass DEF offset
    <3> QED BY <1>3, <1>a, <1>b, <3>1, <3>2 DEF VerifyOffset, IInv
  <2>3. CASE ~(offsets[read] > offset)
    <3>1. offset \in Bound
      <4>1. 4 * (read + 1) \in Nat /\ 4 * (read + 1) + 4 <= SCRIPT_SIZE
        BY <1>0, <1>3, <2>1 DEF HeaderRead, VerifyOffset, IInv
      <4> QED BY <4>1, NumbersFit DEF IInv
    <3>2. offsets' = Append(offsets, offset) /\ pc' = "offsets"
      BY <1>3, <2>3 DEF VerifyOffset
    <3>3. /\ offsets' \in Seq(Bound) /\ Len(offsets') = read + 1
          /\ offsets'[read + 1] = offset
          /\ \A k \in 1 .. read : offsets'[k] = offsets[k]
      BY <2>1, <3>1, <3>2 DEF OffsetsRead
    <3>4. offsets[read] <= offset
      BY <2>1, <2>3, <3>1, WidthIsNat, SMT DEF OffsetsRead, Bound
    <3>5. HeaderRead' /\ \A ptr : mol_unpack_number(ptr)' = mol_unpack_number(ptr)
      BY <1>3, <2>1, ReadsAgain DEF VerifyOffset
    <3>6. OffsetsRead'
      <4>1. CASE read = 1
        <5>1. offset = mol_unpack_number(8) BY <4>1
        <5> QED BY <2>1, <3>3, <3>4, <3>5, <4>1, <5>1 DEF OffsetsRead
      <4>2. CASE read = 2
        <5>1. offset = mol_unpack_number(12) BY <4>2
        <5> QED BY <2>1, <3>3, <3>4, <3>5, <4>2, <5>1 DEF OffsetsRead
      <4> QED BY <2>1, <4>1, <4>2
    <3>7. Loaded' BY <1>3, <1>b DEF VerifyOffset, IInv
    <3> QED BY <1>3, <3>2, <3>5, <3>6, <3>7 DEF VerifyOffset, IInv
  <2> QED BY <2>2, <2>3
<1>4. CASE VerifyFields
  <2>1. HeaderRead' /\ OffsetsRead'
    BY <1>4, ReadsAgain DEF VerifyFields, IInv
  <2>2. CASE offsets[field_count] <= len /\ fields_ok
    <3>1. FieldsRead
      BY <1>4, <2>2 DEF VerifyFields, FieldsRead, IInv, HeaderRead
    <3>2. FieldsRead' BY <1>4, <3>1, ReadsAgain DEF VerifyFields
    <3>3. Loaded' BY <1>4, <1>b DEF VerifyFields, IInv
    <3> QED BY <1>4, <2>1, <2>2, <3>2, <3>3 DEF VerifyFields, IInv
  <2>3. CASE ~(offsets[field_count] <= len /\ fields_ok)
    <3>1. pc = "offsets" /\ pc' = "ERROR_ENCODING" /\ Len(offsets) = field_count
      BY <1>4, <2>3 DEF VerifyFields
    <3>2. field_count = 3 BY <3>1 DEF IInv, HeaderRead
    <3>3. ~IsScript BY <2>3, <3>1, <3>2, ScriptsPass
    <3> QED BY <1>4, <1>a, <1>b, <3>1, <3>3 DEF VerifyFields, IInv
  <2> QED BY <2>2, <2>3
<1>5. CASE GetArgs
  <2>1. HeaderRead' /\ OffsetsRead' /\ FieldsRead'
    BY <1>5, ReadsAgain DEF GetArgs, IInv
  <2>2. args' = mol_fixvec_slice_raw_bytes(mol_table_slice_by_index(2))'
    BY <1>5 DEF GetArgs, mol_fixvec_slice_raw_bytes, mol_table_slice_by_index,
         mol_unpack_number, Num
  <2>3. Loaded' BY <1>5, <1>b DEF GetArgs, IInv
  <2> QED BY <1>5, <2>1, <2>2, <2>3 DEF GetArgs, IInv
<1>6. CASE UNCHANGED vars
  <2>1. (mol_fixvec_slice_raw_bytes(mol_table_slice_by_index(2)))'
          = mol_fixvec_slice_raw_bytes(mol_table_slice_by_index(2))
    BY <1>6 DEF vars, mol_fixvec_slice_raw_bytes, mol_table_slice_by_index,
         mol_unpack_number, Num
  <2>2. Loaded' = Loaded BY <1>6, <1>b DEF vars
  <2> QED BY <1>6, <1>a, <2>1, <2>2, ReadsAgain DEF vars, IInv
<1> QED BY <1>1, <1>2, <1>3, <1>4, <1>5, <1>6 DEF Next

\* The invariant of the reader.
LEMMA Invariance == Spec => []IInv
BY InitIInv, NextIInv, PTL DEF Spec

\* What the invariant says of an accepted script: where its arguments are, and
\* that the node serializes it so.
LEMMA GotFields == ASSUME IInv, pc = "got" PROVE FixedOffsets /\ len = Len(item)
<1> USE DEF MOL_NUM_T_SIZE
<1>1. /\ CODE_HASH_START = 16 /\ ARGS_START = 16 + HASH_SIZE + 1 + 4 /\ HASH_SIZE \in Nat
  BY MoleculeAssumption
<1>2. mol_table_slice_by_index(0) = [ptr |-> 16, size |-> HASH_SIZE]
  BY Slices
<1>3. args = [ptr |-> offsets[3] + 4, size |-> mol_unpack_number(offsets[3])]
  BY Slices DEF IInv, mol_fixvec_slice_raw_bytes
<1>4. /\ len \in Nat /\ offsets[3] = 16 + HASH_SIZE + 1
      /\ mol_unpack_number(offsets[3]) = len - offsets[3] - 4
  BY Layout DEF IInv
<1>5. offsets[3] + 4 = ARGS_START /\ len - offsets[3] - 4 = len - ARGS_START
  BY <1>1, <1>4, SMT
<1>6. len = Len(item) BY DEF IInv, Loaded
<1> QED BY <1>1, <1>2, <1>3, <1>4, <1>5, <1>6 DEF FixedOffsets

\* What the reader returns for the script of a cell.
LEMMA GotScript == ASSUME IInv, pc = "got" PROVE IsScript
<1>1. ARGS_START = 16 + HASH_SIZE + 1 + 4 /\ HASH_SIZE \in Nat
  BY MoleculeAssumption DEF MOL_NUM_T_SIZE
<1>2. item \in Seq(Byte) /\ Loaded /\ len \in Nat /\ len <= SCRIPT_SIZE BY DEF IInv
<1>3. /\ mol_unpack_number(0) = len
      /\ mol_unpack_number(4) = 16 /\ mol_unpack_number(8) = 16 + HASH_SIZE
      /\ mol_unpack_number(12) = 16 + HASH_SIZE + 1
      /\ offsets[3] = 16 + HASH_SIZE + 1
      /\ offsets[3] + 4 <= len
      /\ mol_unpack_number(offsets[3]) = len - offsets[3] - 4
  <2>1. offsets[1] = 16 /\ offsets[2] = 16 + HASH_SIZE /\ mol_unpack_number(0) = len
        /\ offsets[3] = 16 + HASH_SIZE + 1 /\ offsets[3] + 4 <= len
        /\ mol_unpack_number(offsets[3]) = len - offsets[3] - 4
    BY Layout
  <2>2. OffsetsRead /\ Len(offsets) = 3 BY DEF IInv, FieldsRead
  <2> QED BY <2>1, <2>2 DEF OffsetsRead
<1>4. /\ ARGS_START <= len
      /\ mol_unpack_number(16 + HASH_SIZE + 1) = len - ARGS_START
  <2>1. offsets[3] + 4 = ARGS_START /\ len - offsets[3] - 4 = len - ARGS_START
    BY <1>1, <1>2, <1>3
  <2> QED BY <1>3, <2>1
<1> QED BY <1>2, <1>3, <1>4, ScriptNumbers

\* A script that the reader accepts has its code hash and its arguments at the
\* offsets of udtswap_common.h, and nothing behind them.
THEOREM OffsetsFixed == Spec => []FixedOffsets
<1>1. IInv => FixedOffsets BY GotFields DEF FixedOffsets
<1> QED BY <1>1, Invariance, PTL

\* The reader takes for a script what the node serializes as one, and nothing
\* else.
THEOREM ReadsExactlyScripts == Spec => []ExactlyScripts
<1>1. IInv => ExactlyScripts BY GotScript DEF ExactlyScripts, IInv
<1> QED BY <1>1, Invariance, PTL

\* No number is read from behind the item, whatever the item says of itself.
THEOREM ReadsAreInside == Spec => []ReadsInside
<1>1. IInv => ReadsInside
  <2> SUFFICES ASSUME IInv PROVE ReadsInside OBVIOUS
  <2> USE DEF MOL_NUM_T_SIZE
  <2>1. ASSUME pc = "offsets", Len(offsets) < field_count
        PROVE  Within(4 * (Len(offsets) + 1))
    BY <2>1 DEF IInv, HeaderRead, OffsetsRead, Within
  <2>2. ASSUME pc = "args" PROVE Within(mol_table_slice_by_index(2).ptr)
    BY <2>2, Layout, Slices DEF Within
  <2>3. ASSUME pc = "got" PROVE args.ptr + args.size <= len
    <3>1. args = [ptr |-> offsets[3] + 4, size |-> mol_unpack_number(offsets[3])]
      BY <2>3, Slices DEF IInv, mol_fixvec_slice_raw_bytes
    <3>2. /\ len \in Nat /\ offsets[3] = 16 + HASH_SIZE + 1 /\ HASH_SIZE \in Nat
          /\ mol_unpack_number(offsets[3]) = len - offsets[3] - 4
      BY <2>3, Layout, MoleculeAssumption DEF IInv
    <3> QED BY <3>1, <3>2, SMT
  <2> QED BY <2>1, <2>2, <2>3 DEF ReadsInside
<1> QED BY <1>1, Invariance, PTL

-----------------------------------------------------------------------------
Amount == 0 .. U128 - 1

Reading == {"load", "too_long", "header", "ERROR_ENCODING", "offsets", "args", "got"}

\* A cell that neither loop stops at, but for the sum.
Counts(cell) == Len(cell.data) = 1 /\ AmountOf(cell) # 0

AmountsOf(k) == [j \in DOMAIN Group(k) |-> AmountOf(Group(k)[j])]

\* The loop of side k has n cells behind it.
Summed(k, n) ==
    /\ n \in 0 .. Len(Group(k))
    /\ \A j \in 1 .. n : Counts(Group(k)[j])
    /\ amounts[k] = SumTo(AmountsOf(k), n)
    /\ amounts[k] \in Amount

RightArgs == IsScript /\ Len(item) = ARGS_START + ArgsSize

Rule == IF run.s.code = "liquidity" THEN liquidity_main(tx, run.s)
                                    ELSE test_udt_main(tx, run.s)

MainInv ==
    /\ IsTransaction(tx, Amount)
    /\ pc \in Reading \union {"owner", "inputs", "outputs", "end", "success", "error"}
    /\ i \in Nat
    /\ amounts = <<amounts[1], amounts[2]>>
    /\ pc \in Reading => IInv
    /\ pc \in Reading \union {"owner"} => i = 0 /\ amounts = <<0, 0>>
    /\ pc \in {"owner", "inputs", "outputs", "end", "success"} => RightArgs
    /\ pc \in {"inputs", "outputs", "end", "success"} =>
          owner_mode = (Input(tx, 0).lock = OwnerLock)
    /\ pc = "inputs" => Summed(1, i) /\ amounts[2] = 0
    /\ pc = "outputs" => Summed(1, Len(Group(1))) /\ Summed(2, i)
    /\ pc \in {"end", "success"} => Summed(1, Len(Group(1))) /\ Summed(2, Len(Group(2)))
    /\ pc = "success" => Accepts
    /\ pc = "error" => ~(RightArgs /\ Rule)

-----------------------------------------------------------------------------
\* The group of a side is a sequence of cells of the transaction.
LEMMA Groups ==
    ASSUME IsTransaction(tx, Amount), NEW k \in 1 .. 2
    PROVE  /\ Len(Group(k)) \in Nat /\ DOMAIN Group(k) = 1 .. Len(Group(k))
           /\ \A j \in 1 .. Len(Group(k)) : Group(k)[j].data \in Seq(Amount)
<1> DEFINE cells == <<tx.inputs, tx.outputs>>[k]
           T == {cells[j] : j \in DOMAIN cells}
<1>1. cells \in {tx.inputs, tx.outputs}
  <2>1. CASE k = 1 BY <2>1
  <2>2. CASE k = 2 BY <2>2
  <2> QED BY <2>1, <2>2
<1>2. cells \in Seq(T) /\ \A j \in DOMAIN cells : cells[j].data \in Seq(Amount)
  BY <1>1 DEF IsTransaction
<1>3. OfType(cells, run.s) \in SUBSET DOMAIN cells BY DEF OfType
<1>4. Group(k) = Selected(cells, OfType(cells, run.s)) BY DEF Group, CellsOfType
<1> HIDE DEF cells
<1>5. Group(k) \in Seq(T) BY <1>2, <1>3, <1>4, SelectedCount
<1>6. \A c \in T : c.data \in Seq(Amount) BY <1>2
<1> HIDE DEF T
<1> QED BY <1>5, <1>6

\* The sums of a group.
LEMMA GroupSums ==
    ASSUME IsTransaction(tx, Amount), NEW k \in 1 .. 2
    PROVE  /\ sum_amounts(Group(k)) = SumTo(AmountsOf(k), Len(Group(k)))
           /\ \A j \in 1 .. Len(Group(k)) :
                 /\ AmountsOf(k)[j] = AmountOf(Group(k)[j])
                 /\ Len(Group(k)[j].data) = 1 => AmountsOf(k)[j] \in Amount
<1>1. Len(Group(k)) \in Nat /\ DOMAIN Group(k) = 1 .. Len(Group(k)) BY Groups
<1>2. AmountsOf(k) = [j \in 1 .. Len(Group(k)) |-> AmountsOf(k)[j]]
  BY <1>1 DEF AmountsOf
<1>3. sum_amounts(Group(k)) = Total(AmountsOf(k)) BY DEF sum_amounts, AmountsOf
<1>4. \A j \in 1 .. Len(Group(k)) : AmountsOf(k)[j] = AmountOf(Group(k)[j])
  BY <1>1 DEF AmountsOf
<1>5. ASSUME NEW j \in 1 .. Len(Group(k)), Len(Group(k)[j].data) = 1
      PROVE  AmountsOf(k)[j] \in Amount
  <2>1. Group(k)[j].data \in Seq(Amount) BY Groups
  <2>2. Group(k)[j].data[1] \in Amount BY <1>5, <2>1
  <2> QED BY <1>4, <2>2 DEF AmountOf
<1>6. SumTo(AmountsOf(k), Len(Group(k))) = Total(AmountsOf(k))
  BY <1>2, Zenon DEF SumTo
<1> QED BY <1>3, <1>4, <1>5, <1>6

\* The rule, of the sums: with the owner or without.
LEMMA RuleOfSums ==
    Rule <=> /\ amounts_ok(Group(1)) /\ amounts_ok(Group(2))
             /\ IF Input(tx, 0).lock = OwnerLock
                  THEN run.s.code = "liquidity" =>
                         check_owner_mode_transfer(tx, run.s, sum_amounts(Group(1)),
                                                   sum_amounts(Group(2)))
                  ELSE sum_amounts(Group(1)) = sum_amounts(Group(2))
<1>1. Group(1) = CellsOfType(tx.inputs, run.s) /\ Group(2) = CellsOfType(tx.outputs, run.s)
  BY DEF Group
<1>2. CASE run.s.code = "liquidity"
  <2>1. Rule <=> liquidity_main(tx, run.s) BY <1>2 DEF Rule
  <2>2. OwnerLock = PairLock(run.s.t1, run.s.t2) BY <1>2 DEF OwnerLock
  <2> QED BY <1>1, <1>2, <2>1, <2>2 DEF liquidity_main
<1>3. CASE run.s.code # "liquidity"
  <2>1. Rule <=> test_udt_main(tx, run.s) BY <1>3 DEF Rule
  <2>2. OwnerLock = IssuerLock BY <1>3 DEF OwnerLock
  <2> QED BY <1>1, <1>3, <2>1, <2>2 DEF test_udt_main
<1> QED BY <1>2, <1>3

\* A sum of two amounts that wraps is less than either of them.
LEMMA WrapOf ==
    ASSUME NEW a \in Amount, NEW b \in Amount
    PROVE  /\ a + b < U128 => Wrap(a + b) = a + b
           /\ a + b >= U128 => Wrap(a + b) < b
           /\ Wrap(a + b) \in Amount
<1>1. U128 \in Nat \ {0} /\ a \in Nat /\ b \in Nat /\ a < U128 /\ b < U128
  BY WidthAssumption DEF Amount
<1>2. ASSUME a + b < U128 PROVE Wrap(a + b) = a + b
  BY <1>1, <1>2, SMT DEF Wrap
<1>3. ASSUME a + b >= U128 PROVE Wrap(a + b) = a + b - U128
  BY <1>1, <1>3, SMT DEF Wrap
<1> QED BY <1>1, <1>2, <1>3 DEF Amount

\* A cell that a loop stops at is one that the rule refuses: by itself, or
\* because the sum of all is not below the width.
LEMMA StopRefuses ==
    ASSUME IsTransaction(tx, Amount), NEW k \in 1 .. 2, NEW n \in Nat,
           Summed(k, n), n < Len(Group(k)),
           LET cell == Group(k)[n + 1]
           IN  ~Counts(cell) \/ Wrap(amounts[k] + AmountOf(cell)) < AmountOf(cell)
    PROVE  ~amounts_ok(Group(k))
<1> DEFINE cell == Group(k)[n + 1]
           m == Len(Group(k))
<1> SUFFICES ASSUME amounts_ok(Group(k)) PROVE FALSE OBVIOUS
<1>0. U128 \in Nat \ {0} BY WidthAssumption
<1>1. m \in Nat /\ DOMAIN Group(k) = 1 .. m /\ n + 1 \in 1 .. m BY Groups
<1>2. \A j \in 1 .. m : Len(Group(k)[j].data) = 1 /\ AmountOf(Group(k)[j]) # 0
  BY <1>1 DEF amounts_ok
<1>3. Wrap(amounts[k] + AmountOf(cell)) < AmountOf(cell)
  BY <1>1, <1>2 DEF Counts
<1>4. \A j \in 1 .. m : AmountsOf(k)[j] = AmountOf(Group(k)[j]) /\ AmountsOf(k)[j] \in Amount
  BY <1>2, GroupSums
<1>5. AmountOf(cell) \in Amount /\ AmountsOf(k)[n + 1] = AmountOf(cell) BY <1>1, <1>4
<1>6. amounts[k] \in Amount /\ amounts[k] = SumTo(AmountsOf(k), n) BY DEF Summed
<1> HIDE DEF cell, m
<1>7. amounts[k] + AmountOf(cell) >= U128
  <2>1. amounts[k] + AmountOf(cell) < U128
          => Wrap(amounts[k] + AmountOf(cell)) = amounts[k] + AmountOf(cell)
    BY <1>5, <1>6, WrapOf
  <2> QED BY <1>0, <1>3, <1>5, <1>6, <2>1 DEF Amount
<1>8. \A j \in 1 .. m : AmountsOf(k)[j] \in Nat BY <1>0, <1>4 DEF Amount
<1>9. /\ SumTo(AmountsOf(k), n + 1) = SumTo(AmountsOf(k), n) + AmountsOf(k)[n + 1]
      /\ SumTo(AmountsOf(k), n + 1) <= SumTo(AmountsOf(k), m)
      /\ SumTo(AmountsOf(k), m) \in Nat
  <2>1. \A j \in 1 .. n + 1 : AmountsOf(k)[j] \in Nat BY <1>1, <1>8
  <2>2. SumTo(AmountsOf(k), n + 1) = SumTo(AmountsOf(k), n) + AmountsOf(k)[n + 1]
    BY <2>1, SumSteps
  <2>3. n + 1 \in Nat /\ n + 1 <= m BY <1>1
  <2> QED BY <1>1, <1>8, <2>2, <2>3, SumGrows
<1>10. SumTo(AmountsOf(k), m) < U128
  BY GroupSums DEF amounts_ok, m
<1> QED BY <1>0, <1>5, <1>6, <1>7, <1>9, <1>10 DEF Amount

\* A cell that a loop does not stop at is added, without wrapping.
LEMMA CellAdded ==
    ASSUME IsTransaction(tx, Amount), NEW k \in 1 .. 2, NEW n \in Nat,
           Summed(k, n), n < Len(Group(k)),
           Counts(Group(k)[n + 1]),
           ~(Wrap(amounts[k] + AmountOf(Group(k)[n + 1])) < AmountOf(Group(k)[n + 1]))
    PROVE  LET sum == Wrap(amounts[k] + AmountOf(Group(k)[n + 1]))
           IN  /\ sum \in Amount
               /\ sum = SumTo(AmountsOf(k), n + 1)
<1> DEFINE cell == Group(k)[n + 1]
           m == Len(Group(k))
<1>0. U128 \in Nat \ {0} BY WidthAssumption
<1>1. m \in Nat /\ DOMAIN Group(k) = 1 .. m /\ n + 1 \in 1 .. m BY Groups
<1>2. \A j \in 1 .. n + 1 : Len(Group(k)[j].data) = 1
  <2>1. \A j \in 1 .. n : Len(Group(k)[j].data) = 1 BY DEF Summed, Counts
  <2>2. Len(Group(k)[n + 1].data) = 1 BY DEF Counts
  <2> QED BY <2>1, <2>2
<1>3. \A j \in 1 .. n + 1 : AmountsOf(k)[j] = AmountOf(Group(k)[j]) /\ AmountsOf(k)[j] \in Amount
  BY <1>1, <1>2, GroupSums
<1>4. AmountOf(cell) \in Amount /\ AmountsOf(k)[n + 1] = AmountOf(cell) BY <1>3
<1>5. amounts[k] \in Amount /\ amounts[k] = SumTo(AmountsOf(k), n) BY DEF Summed
<1>6. \A j \in 1 .. n + 1 : AmountsOf(k)[j] \in Nat BY <1>0, <1>3 DEF Amount
<1>7. SumTo(AmountsOf(k), n + 1) = SumTo(AmountsOf(k), n) + AmountsOf(k)[n + 1]
  BY <1>6, SumSteps
<1>8. ~(Wrap(amounts[k] + AmountOf(cell)) < AmountOf(cell)) OBVIOUS
<1> HIDE DEF cell, m
<1>9. Wrap(amounts[k] + AmountOf(cell)) = amounts[k] + AmountOf(cell)
  <2>1. /\ amounts[k] + AmountOf(cell) < U128
             => Wrap(amounts[k] + AmountOf(cell)) = amounts[k] + AmountOf(cell)
        /\ amounts[k] + AmountOf(cell) >= U128
             => Wrap(amounts[k] + AmountOf(cell)) < AmountOf(cell)
    BY <1>4, <1>5, WrapOf
  <2> QED BY <1>0, <1>4, <1>5, <1>8, <2>1 DEF Amount
<1>10. Wrap(amounts[k] + AmountOf(cell)) \in Amount
  BY <1>4, <1>5, WrapOf
<1> QED BY <1>4, <1>5, <1>7, <1>9, <1>10 DEF cell

\* What a loop has summed up to its end is the sum of the group, and the group
\* is one that the rule lets pass.
LEMMA AllSummed ==
    ASSUME IsTransaction(tx, Amount), NEW k \in 1 .. 2, Summed(k, Len(Group(k)))
    PROVE  amounts_ok(Group(k)) /\ amounts[k] = sum_amounts(Group(k))
<1>1. DOMAIN Group(k) = 1 .. Len(Group(k)) BY Groups
<1>2. amounts[k] = sum_amounts(Group(k)) BY GroupSums DEF Summed
<1>3. amounts[k] < U128 BY WidthAssumption DEF Summed, Amount
<1> QED BY <1>1, <1>2, <1>3 DEF Summed, amounts_ok, Counts

\* What main() compares at its end is the rule.
LEMMA EndDecides ==
    ASSUME MainInv, pc \in {"end", "success"}
    PROVE  Accepts <=> Rule
<1>1. /\ amounts_ok(Group(1)) /\ amounts[1] = sum_amounts(Group(1))
      /\ amounts_ok(Group(2)) /\ amounts[2] = sum_amounts(Group(2))
  BY AllSummed DEF MainInv
<1>2. owner_mode = (Input(tx, 0).lock = OwnerLock) BY DEF MainInv
<1> QED BY <1>1, <1>2, RuleOfSums DEF Accepts

-----------------------------------------------------------------------------
\* Nothing is read and nothing added up.
LEMMA MainInit_MainInv == MainInit => MainInv
<1> SUFFICES ASSUME MainInit PROVE MainInv OBVIOUS
<1>1. PICK r \in Runs : item = r.bytes /\ run = [tx |-> r.tx, s |-> r.s] BY DEF MainInit
<1>2. IsTransaction(tx, Amount) BY <1>1, TokenLoopAssumption DEF tx, Amount
<1>3. IInv BY InitIInv DEF MainInit
<1>4. pc = "load" /\ i = 0 /\ amounts = <<0, 0>> BY DEF MainInit, Init
<1>5. amounts = <<amounts[1], amounts[2]>> BY <1>4
<1> QED BY <1>2, <1>3, <1>4, <1>5 DEF MainInv, Reading

\* Nothing of the run changes, and behind the reader nothing of the script.
LEMMA Same ==
    ASSUME UNCHANGED <<item, run>>
    PROVE  /\ IsTransaction(tx, Amount)' = IsTransaction(tx, Amount)
           /\ RightArgs' = RightArgs /\ Rule' = Rule
           /\ \A k : Group(k)' = Group(k) /\ AmountsOf(k)' = AmountsOf(k)
           /\ (Input(tx, 0).lock = OwnerLock)' = (Input(tx, 0).lock = OwnerLock)
<1>1. tx' = tx BY DEF tx
<1>2. ArgsSize' = ArgsSize /\ OwnerLock' = OwnerLock BY DEF ArgsSize, OwnerLock
<1>3. \A k : Group(k)' = Group(k) BY <1>1 DEF Group
<1>4. \A k : AmountsOf(k)' = AmountsOf(k) BY <1>3 DEF AmountsOf
<1>5. RightArgs' = RightArgs BY <1>2 DEF RightArgs, IsScript
<1>6. Rule' = Rule BY <1>1 DEF Rule
<1> QED BY <1>1, <1>2, <1>3, <1>4, <1>5, <1>6

\* A step of the reader, of the owner check, of a loop and of the end.
LEMMA MainNext_MainInv == MainInv /\ [MainNext]_<<vars, loop_vars>> => MainInv'
<1> SUFFICES ASSUME MainInv, [MainNext]_<<vars, loop_vars>> PROVE MainInv' OBVIOUS
<1>0. UNCHANGED <<item, run>>
  BY DEF MainNext, vars, loop_vars, Next, Load, VerifyHeader, VerifyOffset, VerifyFields,
         GetArgs, CheckArgs, CheckOwner, AddAmount, EndLoop, Return
<1>a. /\ IsTransaction(tx, Amount) /\ IsTransaction(tx, Amount)'
      /\ RightArgs' = RightArgs /\ Rule' = Rule
      /\ \A k : Group(k)' = Group(k) /\ AmountsOf(k)' = AmountsOf(k)
      /\ (Input(tx, 0).lock = OwnerLock)' = (Input(tx, 0).lock = OwnerLock)
  BY <1>0, Same DEF MainInv
<1>b. ASSUME NEW k \in 1 .. 2, NEW n, UNCHANGED amounts PROVE Summed(k, n)' = Summed(k, n)
  BY <1>a, <1>b DEF Summed
<1>1. CASE Next /\ UNCHANGED loop_vars
  <2>1. pc \in Reading
    BY <1>1 DEF Next, Load, VerifyHeader, VerifyOffset, VerifyFields, GetArgs, Reading
  <2>2. IInv' BY <1>1, <2>1, NextIInv DEF MainInv
  <2>3. pc' \in Reading BY <2>2 DEF IInv, Reading
  <2> QED BY <1>a, <1>1, <2>1, <2>2, <2>3 DEF MainInv, loop_vars, Reading
<1>2. CASE CheckArgs
  <2>1. IInv /\ pc = "got" BY <1>2 DEF CheckArgs, MainInv, Reading
  <2>2. IsScript /\ args.size = Len(item) - ARGS_START
    BY <2>1, GotScript, GotFields DEF FixedOffsets
  <2>3. Len(item) \in Nat /\ ARGS_START \in Nat /\ ArgsSize \in Nat
    <3>1. item \in Seq(Byte) BY <2>1 DEF IInv
    <3>2. HASH_SIZE \in Nat /\ TX_INPUT_SIZE \in Nat /\ ARGS_START \in Nat
      BY MoleculeAssumption, TokenLoopAssumption DEF MOL_NUM_T_SIZE
    <3> QED BY <3>1, <3>2 DEF ArgsSize
  <2>4. RightArgs <=> args.size = ArgsSize BY <2>2, <2>3 DEF RightArgs
  <2>5. UNCHANGED <<i, amounts>> /\ i = 0 /\ amounts = <<0, 0>>
    BY <1>2, <2>1 DEF CheckArgs, loop_vars, MainInv, Reading
  <2>6. CASE args.size = ArgsSize
    <3>1. pc' = "owner" /\ RightArgs' BY <1>2, <1>a, <2>4, <2>6 DEF CheckArgs
    <3> QED BY <1>a, <2>5, <3>1 DEF MainInv, Reading
  <2>7. CASE args.size # ArgsSize
    <3>1. pc' = "error" /\ ~RightArgs' BY <1>2, <1>a, <2>4, <2>7 DEF CheckArgs
    <3> QED BY <1>a, <2>5, <3>1 DEF MainInv, Reading
  <2> QED BY <2>6, <2>7
<1>3. CASE CheckOwner
  <2>1. /\ pc = "owner" /\ pc' = "inputs" /\ UNCHANGED <<i, amounts>>
        /\ owner_mode' = (Input(tx, 0).lock = OwnerLock)
        /\ i = 0 /\ amounts = <<0, 0>> /\ RightArgs
    BY <1>3 DEF CheckOwner, MainInv, Reading
  <2>2. Summed(1, 0)
    <3>1. Len(Group(1)) \in Nat BY <1>a, Groups
    <3>2. SumTo(AmountsOf(1), 0) = 0 BY SumOfNone
    <3> QED BY <2>1, <3>1, <3>2, WidthAssumption DEF Summed, Amount
  <2>3. Summed(1, i)' BY <1>b, <2>1, <2>2
  <2> QED BY <1>a, <2>1, <2>3 DEF MainInv, Reading
<1>4. CASE AddAmount
  <2> DEFINE cell == Group(side)[i + 1]
             sum == Wrap(amounts[side] + AmountOf(cell))
             stops == ~Counts(cell) \/ sum < AmountOf(cell)
  <2>1. /\ pc \in {"inputs", "outputs"} /\ i < Len(Group(side)) /\ UNCHANGED owner_mode
        /\ side \in 1 .. 2 /\ i \in Nat /\ Summed(side, i) /\ RightArgs
        /\ owner_mode = (Input(tx, 0).lock = OwnerLock)
        /\ amounts = <<amounts[1], amounts[2]>>
    BY <1>4 DEF AddAmount, MainInv, side
  <2>2. CASE stops
    <3>1. pc' = "error" /\ UNCHANGED <<i, amounts>> BY <1>4, <2>2 DEF AddAmount, Counts
    <3>2. ~amounts_ok(Group(side)) BY <1>a, <2>1, <2>2, StopRefuses
    <3>3. ~Rule
      <4>1. CASE side = 1 BY <3>2, <4>1, RuleOfSums
      <4>2. CASE side = 2 BY <3>2, <4>2, RuleOfSums
      <4> QED BY <2>1, <4>1, <4>2
    <3> QED BY <1>a, <2>1, <3>1, <3>3 DEF MainInv, Reading
  <2>3. CASE ~stops
    <3>1. pc' = pc /\ i' = i + 1 /\ amounts' = [amounts EXCEPT ![side] = sum]
      BY <1>4, <2>3 DEF AddAmount, Counts
    <3>2. sum \in Amount /\ sum = SumTo(AmountsOf(side), i + 1)
      BY <1>a, <2>1, <2>3, CellAdded
    <3>3. Counts(Group(side)[i + 1]) BY <2>3
    <3> HIDE DEF sum, cell
    <3>4. amounts'[side] = sum /\ amounts' = <<amounts'[1], amounts'[2]>>
          /\ \A k \in 1 .. 2 : k # side => amounts'[k] = amounts[k]
      BY <2>1, <3>1
    <3>5. /\ i + 1 \in 0 .. Len(Group(side))
          /\ \A j \in 1 .. i + 1 : Counts(Group(side)[j])
      <4>1. Len(Group(side)) \in Nat BY <1>a, <2>1, Groups
      <4>2. \A j \in 1 .. i : Counts(Group(side)[j]) BY <2>1 DEF Summed
      <4> QED BY <2>1, <3>3, <4>1, <4>2
    <3>6. CASE pc = "inputs"
      <4>1. side = 1 /\ amounts[2] = 0 BY <3>6 DEF side, MainInv
      <4>2. amounts'[1] = sum /\ amounts'[2] = 0 BY <3>4, <4>1
      <4>3. Summed(1, i)' BY <1>a, <3>1, <3>2, <3>5, <4>1, <4>2 DEF Summed
      <4> QED BY <1>a, <2>1, <3>1, <3>4, <3>6, <4>2, <4>3 DEF MainInv, Reading
    <3>7. CASE pc = "outputs"
      <4>1. side = 2 /\ Summed(1, Len(Group(1))) BY <3>7 DEF side, MainInv
      <4>2. amounts'[2] = sum /\ amounts'[1] = amounts[1] BY <3>4, <4>1
      <4>3. Summed(2, i)' BY <1>a, <3>1, <3>2, <3>5, <4>1, <4>2 DEF Summed
      <4>4. Summed(1, Len(Group(1)))' BY <1>a, <4>1, <4>2 DEF Summed
      <4> QED BY <1>a, <2>1, <3>1, <3>4, <3>7, <4>3, <4>4 DEF MainInv, Reading
    <3> QED BY <2>1, <3>6, <3>7
  <2> QED BY <2>2, <2>3
<1>5. CASE EndLoop
  <2>1. /\ pc \in {"inputs", "outputs"} /\ i >= Len(Group(side))
        /\ i' = 0 /\ UNCHANGED <<amounts, owner_mode>>
        /\ pc' = IF pc = "inputs" THEN "outputs" ELSE "end"
        /\ RightArgs /\ owner_mode = (Input(tx, 0).lock = OwnerLock)
        /\ amounts = <<amounts[1], amounts[2]>>
    BY <1>5 DEF EndLoop, MainInv
  <2>2. CASE pc = "inputs"
    <3>1. side = 1 /\ Summed(1, i) /\ amounts[2] = 0 BY <2>2 DEF side, MainInv
    <3>2. Len(Group(1)) \in Nat /\ Len(Group(2)) \in Nat BY <1>a, Groups
    <3>3. i = Len(Group(1)) BY <2>1, <3>1, <3>2 DEF Summed
    <3>4. Summed(1, Len(Group(1))) BY <3>1, <3>3
    <3>5. Summed(2, 0)
      <4>1. SumTo(AmountsOf(2), 0) = 0 BY SumOfNone
      <4> QED BY <3>1, <3>2, <4>1, WidthAssumption DEF Summed, Amount
    <3>6. Summed(1, Len(Group(1)))' /\ Summed(2, i)'
      BY <1>a, <1>b, <2>1, <3>4, <3>5 DEF Summed
    <3>7. pc' = "outputs" BY <2>1, <2>2
    <3> QED BY <1>a, <2>1, <3>6, <3>7 DEF MainInv, Reading
  <2>3. CASE pc = "outputs"
    <3>1. side = 2 /\ Summed(2, i) /\ Summed(1, Len(Group(1))) BY <2>3 DEF side, MainInv
    <3>2. Len(Group(2)) \in Nat BY <1>a, Groups
    <3>3. i = Len(Group(2)) BY <2>1, <3>1, <3>2 DEF Summed
    <3>4. Summed(1, Len(Group(1)))' /\ Summed(2, Len(Group(2)))'
      BY <1>a, <2>1, <3>1, <3>3 DEF Summed
    <3>5. pc' = "end" BY <2>1, <2>3
    <3> QED BY <1>a, <2>1, <3>4, <3>5 DEF MainInv, Reading
  <2> QED BY <2>1, <2>2, <2>3
<1>6. CASE Return
  <2>1. /\ pc = "end" /\ UNCHANGED <<i, amounts, owner_mode>>
        /\ pc' = IF Accepts THEN "success" ELSE "error"
        /\ RightArgs /\ owner_mode = (Input(tx, 0).lock = OwnerLock)
        /\ Summed(1, Len(Group(1))) /\ Summed(2, Len(Group(2)))
        /\ amounts = <<amounts[1], amounts[2]>> /\ i \in Nat
    BY <1>6 DEF Return, MainInv
  <2>2. Accepts <=> Rule BY <2>1, EndDecides
  <2>3. Accepts' = Accepts
    BY <1>0, <2>1 DEF Accepts, tx
  <2>4. Summed(1, Len(Group(1)))' /\ Summed(2, Len(Group(2)))'
    BY <1>a, <2>1 DEF Summed
  <2>5. CASE Accepts
    <3>1. pc' = "success" BY <2>1, <2>5
    <3> QED BY <1>a, <2>1, <2>3, <2>4, <2>5, <3>1 DEF MainInv, Reading
  <2>6. CASE ~Accepts
    <3>1. pc' = "error" BY <2>1, <2>6
    <3> QED BY <1>a, <2>1, <2>2, <2>6, <3>1 DEF MainInv, Reading
  <2> QED BY <2>5, <2>6
<1>7. CASE UNCHANGED <<vars, loop_vars>>
  <2>1. UNCHANGED <<pc, i, amounts, owner_mode>> BY <1>7 DEF vars, loop_vars
  <2>2. pc \in Reading => IInv' BY <1>7, NextIInv DEF MainInv
  <2>3. Accepts' = Accepts BY <1>0, <2>1 DEF Accepts, tx
  <2>4. \A n : Summed(1, n)' = Summed(1, n) /\ Summed(2, n)' = Summed(2, n)
    BY <1>b, <2>1
  <2>5. /\ Summed(1, i)' = Summed(1, i) /\ Summed(2, i)' = Summed(2, i)
        /\ Summed(1, Len(Group(1)))' = Summed(1, Len(Group(1)))
        /\ Summed(2, Len(Group(2)))' = Summed(2, Len(Group(2)))
    BY <1>a, <2>1, <2>4 DEF Summed
  <2> QED BY <1>a, <2>1, <2>2, <2>3, <2>5 DEF MainInv
<1> QED BY <1>1, <1>2, <1>3, <1>4, <1>5, <1>6, <1>7 DEF MainNext

\* The invariant of main().
LEMMA MainInvariance == MainSpec => []MainInv
BY MainInit_MainInv, MainNext_MainInv, PTL DEF MainSpec

\* main() of a token script returns success exactly where the script is one with
\* arguments of the right size and the rule holds of the whole sums.
THEOREM TokenVerdict == MainSpec => []ReturnsVerdict
<1>1. MainInv => ReturnsVerdict
  <2> SUFFICES ASSUME MainInv, pc \in {"success", "error", "ERROR_ENCODING", "too_long"}
               PROVE  pc = "success" <=> RightArgs /\ Rule
    BY DEF ReturnsVerdict, RightArgs, Rule
  <2>1. CASE pc = "success" BY <2>1, EndDecides DEF MainInv
  <2>2. CASE pc = "error" BY <2>2 DEF MainInv
  <2>3. CASE pc = "ERROR_ENCODING" BY <2>3 DEF MainInv, Reading, IInv, RightArgs
  <2>4. CASE pc = "too_long"
    <3>1. IInv BY <2>4 DEF MainInv, Reading
    <3>2. Len(item) > SCRIPT_SIZE BY <2>4, <3>1 DEF IInv, Loaded
    <3>3. ARGS_START + ArgsSize <= SCRIPT_SIZE
      <4>1. /\ HASH_SIZE \in Nat /\ TX_INPUT_SIZE \in Nat /\ ARGS_START \in Nat
            /\ SCRIPT_SIZE \in Nat
            /\ ARGS_START + HASH_SIZE + TX_INPUT_SIZE <= SCRIPT_SIZE
        BY MoleculeAssumption, TokenLoopAssumption DEF MOL_NUM_T_SIZE
      <4>2. CASE run.s.code = "liquidity" BY <4>1, <4>2 DEF ArgsSize
      <4>3. CASE run.s.code # "liquidity" BY <4>1, <4>3 DEF ArgsSize
      <4> QED BY <4>2, <4>3
    <3>4. Len(item) \in Nat /\ ARGS_START + ArgsSize \in Nat /\ SCRIPT_SIZE \in Nat
      <4>1. item \in Seq(Byte) BY <3>1 DEF IInv
      <4>2. HASH_SIZE \in Nat /\ TX_INPUT_SIZE \in Nat /\ ARGS_START \in Nat /\ SCRIPT_SIZE \in Nat
        BY MoleculeAssumption, TokenLoopAssumption DEF MOL_NUM_T_SIZE
      <4> QED BY <4>1, <4>2 DEF ArgsSize
    <3> QED BY <2>4, <3>2, <3>3, <3>4 DEF RightArgs
  <2> QED BY <2>1, <2>2, <2>3, <2>4
<1> QED BY <1>1, MainInvariance, PTL

\* Without the owner as much of a token goes out as comes in, in whole numbers.
THEOREM TokensConserved == MainSpec => []Conserved
<1>1. MainInv => Conserved
  <2> SUFFICES ASSUME MainInv, pc = "success", ~owner_mode
               PROVE  /\ sum_amounts(Group(1)) = sum_amounts(Group(2))
                      /\ \A k \in 1 .. 2 : amounts[k] = sum_amounts(Group(k))
    BY DEF Conserved
  <2>1. amounts[1] = sum_amounts(Group(1)) /\ amounts[2] = sum_amounts(Group(2))
    BY AllSummed DEF MainInv
  <2>2. amounts[1] = amounts[2] BY DEF MainInv, Accepts
  <2>3. \A k \in 1 .. 2 : k = 1 \/ k = 2 OBVIOUS
  <2> QED BY <2>1, <2>2, <2>3
<1> QED BY <1>1, MainInvariance, PTL

=============================================================================
