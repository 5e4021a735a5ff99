--------------------------- MODULE AttValueProofs ---------------------------
(***************************************************************************)
(* Proofs about BLEAttValue (module AttValue), for every set of tasks,    *)
(* sizes and bounds.                                                      *)
(*                                                                         *)
(* append checks the length against m_attr_len outside the critical       *)
(* section and commits new_len inside it, so another task may change      *)
(* m_attr_len in between.  The committed length is still bounded: new_len *)
(* was computed from a length that fit, and a task never commits a        *)
(* new_len it did not check.  TypeInv records that, and that a task at    *)
(* its commit holds a block from realloc (res is never nullptr there).    *)
(***************************************************************************)
EXTENDS AttValue, SequenceTheorems, TLAPS

LEMMA U16MaxNat == U16Max \in Nat
BY DEF U16Max

USE AttAssumption

PcSet == {"idle", "clear", "append", "commit"}
BlockType == [st : {"unused", "alive", "freed"}, data : Seq(Bytes)]

\* The type invariant with what it needs to be inductive.
TypeInv ==
    /\ TypeOK
    /\ op \in [Tasks -> [kind : {"set", "append"}, n : Nat]]
    /\ newLen \in [Tasks -> 0 .. AttrMax]
    /\ \A t \in Tasks : pc[t] = "commit" => res[t] \in Blocks

(***************************************************************************)
(* The heap helpers keep a block's bytes in Seq(Bytes).                    *)
(***************************************************************************)

\* A function on 1 .. n into Bytes is a sequence of bytes.
LEMMA FunIsSeq ==
    ASSUME NEW n \in Nat, NEW f \in [1 .. n -> Bytes]
    PROVE  f \in Seq(Bytes)
BY SMT

LEMMA ResizeType ==
    ASSUME NEW d \in Seq(Bytes), NEW n \in Nat
    PROVE  Resize(d, n) \in Seq(Bytes)
<1>1. \A i \in 1 .. n : (IF i <= Len(d) THEN d[i] ELSE JUNK) \in Bytes
  BY ElementOfSeq DEF Bytes, JUNK
<1>2. Resize(d, n) \in [1 .. n -> Bytes]
  BY <1>1 DEF Resize
<1>. QED
  BY <1>2, FunIsSeq

LEMMA CopyInType ==
    ASSUME NEW d \in Seq(Bytes), NEW off, NEW w \in Bytes, NEW n
    PROVE  CopyIn(d, off, w, n) \in Seq(Bytes)
<1>1. CopyIn(d, off, w, n) \in [1 .. Len(d) -> Bytes]
  BY ElementOfSeq DEF CopyIn
<1>. QED
  BY <1>1, FunIsSeq, LenProperties

LEMMA TerminateType ==
    ASSUME NEW d \in Seq(Bytes), NEW k
    PROVE  Terminate(d, k) \in Seq(Bytes)
<1>1. Terminate(d, k) \in [1 .. Len(d) -> Bytes]
  BY ElementOfSeq DEF Terminate, Bytes, ZERO
<1>. QED
  BY <1>1, FunIsSeq, LenProperties

LEMMA AttrMaxRange == AttrMax \in 0 .. U16Max
BY U16MaxNat DEF AttrMax

LEMMA InitTypeInv == Init => TypeInv
<1> SUFFICES ASSUME Init PROVE TypeInv
  OBVIOUS
<1>1. InitValue \o <<ZERO>> \in Seq(Bytes)
  BY DEF InitValue, Fill, Bytes, ZERO
<1>2. heap \in [Blocks -> BlockType]
  BY <1>1 DEF Init, BlockType
<1>3. /\ val \in Blocks /\ len \in 0 .. U16Max /\ cap \in 0 .. U16Max
      /\ pc \in [Tasks -> {"idle", "clear", "append", "commit"}]
      /\ res \in [Tasks -> Blocks \cup {Null}]
      /\ faults \subseteq {"overflow", "uaf"}
  BY DEF Init, Blocks
<1>4. /\ op \in [Tasks -> [kind : {"set", "append"}, n : Nat]]
      /\ newLen \in [Tasks -> 0 .. AttrMax]
      /\ \A t \in Tasks : pc[t] = "commit" => res[t] \in Blocks
  BY AttrMaxRange DEF Init
<1>. QED
  BY <1>2, <1>3, <1>4 DEF TypeInv, TypeOK, BlockType

(***************************************************************************)
(* Each step keeps TypeInv.                                                *)
(***************************************************************************)

LEMMA CallTypeInv ==
    ASSUME TypeInv, NEW t \in Tasks, NEW k \in Kinds, NEW n \in Sizes,
           Call(t, k, n)
    PROVE  TypeInv'
<1>1. /\ pc' = [pc EXCEPT ![t] = IF k = "set" THEN "clear" ELSE "append"]
      /\ op' = [op EXCEPT ![t] = [kind |-> k, n |-> n]]
      /\ UNCHANGED <<val, len, cap, heap, newLen, res, faults>>
  BY DEF Call
<1>2. /\ pc' \in [Tasks -> {"idle", "clear", "append", "commit"}]
      /\ \A u \in Tasks : pc'[u] = "commit" => pc[u] = "commit"
  BY <1>1 DEF TypeInv, TypeOK
<1>3. op' \in [Tasks -> [kind : {"set", "append"}, n : Nat]]
  BY <1>1 DEF TypeInv
<1>. QED
  BY <1>1, <1>2, <1>3 DEF TypeInv, TypeOK

LEMMA ClearTypeInv ==
    ASSUME TypeInv, NEW t \in Tasks, SetValueClear(t)
    PROVE  TypeInv'
<1>1. /\ pc[t] = "clear" /\ len' = 0
      /\ pc' = [pc EXCEPT ![t] = "append"]
      /\ UNCHANGED <<val, cap, heap, op, newLen, res, faults>>
  BY DEF SetValueClear
<1>2. /\ pc' \in [Tasks -> {"idle", "clear", "append", "commit"}]
      /\ \A u \in Tasks : pc'[u] = "commit" => pc[u] = "commit"
  BY <1>1 DEF TypeInv, TypeOK
<1>. QED
  BY <1>1, <1>2, U16MaxNat DEF TypeInv, TypeOK

LEMMA ReadTypeInv ==
    ASSUME TypeInv, GattRead
    PROVE  TypeInv'
BY DEF GattRead, TypeInv, TypeOK

\* realloc grows a block in place ...
LEMMA SetDataType ==
    ASSUME NEW H \in [Blocks -> BlockType], NEW b \in Blocks,
           NEW d \in Seq(Bytes)
    PROVE  [H EXCEPT ![b].data = d] \in [Blocks -> BlockType]
BY DEF BlockType

\* ... or moves the bytes to a fresh block and frees the old one.
LEMMA MoveBlockType ==
    ASSUME NEW H \in [Blocks -> BlockType], NEW b \in Blocks,
           NEW v \in Blocks, NEW d \in Seq(Bytes)
    PROVE  [H EXCEPT ![b] = [st |-> "alive", data |-> d], ![v].st = "freed"]
               \in [Blocks -> BlockType]
BY DEF BlockType

LEMMA PrepareTypeInv ==
    ASSUME TypeInv, NEW t \in Tasks, AppendPrepare(t)
    PROVE  TypeInv'
<1> DEFINE n  == op[t].n
           nl == len + n
<1>1. /\ pc[t] = "append" /\ UNCHANGED <<val, len, op, faults>>
      /\ heap \in [Blocks -> BlockType] /\ val \in Blocks /\ n \in Nat
      /\ len \in 0 .. U16Max /\ pc \in [Tasks -> PcSet]
      /\ res \in [Tasks -> Blocks \cup {Null}]
  BY DEF AppendPrepare, TypeInv, TypeOK, BlockType, PcSet
<1>2. CASE n = 0 \/ ~Fits(n)
  \* An early return: nothing but the task's pc changes.
  <2>1. pc' = [pc EXCEPT ![t] = "idle"] /\ UNCHANGED <<cap, heap, newLen, res>>
    BY <1>2 DEF AppendPrepare
  <2>. QED
    BY <1>1, <2>1 DEF TypeInv, TypeOK, BlockType
<1>3. CASE ~(n = 0 \/ ~Fits(n))
  <2>1. newLen' = [newLen EXCEPT ![t] = nl] /\ Realloc(t, nl)
    BY <1>3 DEF AppendPrepare
  \* new_len fits: it is computed from the length just checked.
  <2>2. nl \in 0 .. AttrMax
    BY <1>1, <1>3, AttrMaxRange DEF Fits
  <2>3. newLen' \in [Tasks -> 0 .. AttrMax]
    BY <2>1, <2>2 DEF TypeInv
  <2>4. heap[val].data \in Seq(Bytes) /\ nl + 1 \in Nat
    BY <1>1, <2>2, AttrMaxRange DEF BlockType
  <2>5. CASE nl > cap
    \* realloc grows the block in place, moves it, or fails.
    <3> DEFINE d == Resize(heap[val].data, nl + 1)
               Grow == /\ heap' = [heap EXCEPT ![val].data = d]
                       /\ res' = [res EXCEPT ![t] = val]
                       /\ pc' = [pc EXCEPT ![t] = "commit"]
               Move(bb) ==
                       /\ heap' = [heap EXCEPT ![bb] = [st |-> "alive", data |-> d],
                                               ![val].st = "freed"]
                       /\ res' = [res EXCEPT ![t] = bb]
                       /\ pc' = [pc EXCEPT ![t] = "commit"]
               Fail == /\ res' = [res EXCEPT ![t] = Null]
                       /\ pc' = [pc EXCEPT ![t] = "idle"]
                       /\ UNCHANGED heap
    <3>1. cap' = nl /\ (Grow \/ (\E bb \in Blocks : Move(bb)) \/ Fail)
      BY <2>1, <2>5 DEF Realloc
    <3>2. d \in Seq(Bytes)
      BY <2>4, ResizeType
    <3>3. /\ heap' \in [Blocks -> BlockType]
          /\ pc' \in [Tasks -> PcSet]
          /\ res' \in [Tasks -> Blocks \cup {Null}]
          /\ \A u \in Tasks : pc'[u] = "commit" => res'[u] \in Blocks
      <4>1. CASE Grow
        BY <1>1, <3>2, <4>1, SetDataType DEF TypeInv, PcSet
      <4>2. CASE \E bb \in Blocks : Move(bb)
        <5>1. PICK bb \in Blocks : Move(bb)
          BY <4>2
        <5>2. heap' \in [Blocks -> BlockType]
          <6>1. heap' = [heap EXCEPT ![bb] = [st |-> "alive", data |-> d],
                                     ![val].st = "freed"]
            BY <5>1 DEF Move
          <6>. QED
            BY <1>1, <3>2, <6>1, MoveBlockType
        <5>3. res' = [res EXCEPT ![t] = bb] /\ pc' = [pc EXCEPT ![t] = "commit"]
          BY <5>1 DEF Move
        <5>. QED
          BY <1>1, <5>2, <5>3 DEF TypeInv, PcSet
      <4>3. CASE Fail
        BY <1>1, <4>3 DEF TypeInv, PcSet
      <4>. QED
        BY <3>1, <4>1, <4>2, <4>3
    <3>4. cap' \in 0 .. U16Max
      BY <2>2, <3>1, AttrMaxRange, U16MaxNat
    <3>. QED
      BY <1>1, <2>3, <3>3, <3>4 DEF TypeInv, TypeOK, PcSet, BlockType
  <2>6. CASE ~(nl > cap)
    \* No realloc: res is m_attr_value as read now.
    <3>1. /\ res' = [res EXCEPT ![t] = val] /\ pc' = [pc EXCEPT ![t] = "commit"]
          /\ UNCHANGED <<cap, heap>>
      BY <2>1, <2>6 DEF Realloc
    <3>2. /\ pc' \in [Tasks -> PcSet]
          /\ res' \in [Tasks -> Blocks \cup {Null}]
          /\ \A u \in Tasks : pc'[u] = "commit" => res'[u] \in Blocks
      BY <1>1, <3>1 DEF TypeInv, PcSet
    <3>. QED
      BY <1>1, <2>3, <3>1, <3>2 DEF TypeInv, TypeOK, PcSet, BlockType
  <2>. QED
    BY <2>5, <2>6
<1>. QED
  BY <1>2, <1>3

LEMMA CommitTypeInv ==
    ASSUME TypeInv, NEW t \in Tasks, AppendCommit(t)
    PROVE  TypeInv'
<1> DEFINE b   == res[t]
           nl  == newLen[t]
           out == Terminate(CopyIn(Data(b), len, t, op[t].n), nl)
<1>1. /\ pc[t] = "commit"
      /\ heap' = IF b \in Blocks THEN [heap EXCEPT ![b].data = out] ELSE heap
      /\ val' = b /\ len' = nl
      /\ pc' = [pc EXCEPT ![t] = "idle"]
      /\ faults' \subseteq faults \cup {"overflow", "uaf"}
      /\ UNCHANGED <<cap, op, newLen, res>>
  BY DEF AppendCommit
\* res is a block at the commit: realloc's nullptr result returned early.
<1>2. b \in Blocks /\ heap \in [Blocks -> BlockType]
  BY <1>1 DEF TypeInv, TypeOK, BlockType
<1>3. out \in Seq(Bytes)
  <2>1. Data(b) \in Seq(Bytes)
    BY <1>2 DEF Data, BlockType
  <2>2. CopyIn(Data(b), len, t, op[t].n) \in Seq(Bytes)
    BY <2>1, CopyInType DEF Bytes
  <2>. QED
    BY <2>2, TerminateType
<1>4. heap' \in [Blocks -> BlockType]
  BY <1>1, <1>2, <1>3, SetDataType
\* The committed length is a new_len that fit when it was computed.
<1>5. len' \in 0 .. U16Max
  BY <1>1, AttrMaxRange, U16MaxNat DEF TypeInv
<1>. QED
  BY <1>1, <1>2, <1>4, <1>5 DEF TypeInv, TypeOK, BlockType

LEMMA NextTypeInv ==
    ASSUME TypeInv, [Next]_vars
    PROVE  TypeInv'
<1>1. CASE UNCHANGED vars
  BY <1>1 DEF vars, TypeInv, TypeOK
<1>. QED
  BY <1>1, CallTypeInv, ClearTypeInv, PrepareTypeInv, CommitTypeInv,
     ReadTypeInv DEF Next

(* Type correctness of BLEAttValue (TypeOK): under every interleaving of  *)
(* the two tasks' setValue / append and GATT reads, and every outcome of  *)
(* realloc, m_attr_value points to a heap block, m_attr_len and           *)
(* m_capacity stay within uint16_t, and a task reaches append's critical  *)
(* section only with a block from realloc, never with its nullptr.        *)
THEOREM TypeCorrect == Spec => []TypeOK
<1>1. Init => TypeInv
  BY InitTypeInv
<1>2. TypeInv /\ [Next]_vars => TypeInv'
  BY NextTypeInv
<1>3. TypeInv => TypeOK
  BY DEF TypeInv
<1>. QED
  BY <1>1, <1>2, <1>3, PTL DEF Spec

=============================================================================
