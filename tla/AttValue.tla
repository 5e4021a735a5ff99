------------------------------ MODULE AttValue ------------------------------
(***************************************************************************)
(* BLEAttValue, the value buffer of every local attribute, with the tasks *)
(* that use it: the application task (setValue / append) and the host     *)
(* task, which writes it on a GATT write (writeEvent -> setValue) and     *)
(* reads it on a GATT read (handleGattEvent, os_mbuf_append under the     *)
(* critical section).                                                     *)
(*                                                                         *)
(* setValue is `m_attr_len = 0' followed by append; append checks, may    *)
(* realloc outside the critical section, and commits the bytes, pointer   *)
(* and length inside it.  Each of these is one step, so the other task    *)
(* may run between them.  The heap is a set of blocks that realloc may    *)
(* extend in place, move (freeing the old block) or fail to provide.      *)
(* Bytes are abstracted to the task that wrote them.                      *)
(***************************************************************************)
EXTENDS Naturals, Sequences

CONSTANTS
    Tasks,        \* tasks calling setValue / append
    Host,         \* the host task, which serves GATT reads (and may write)
    Kinds,        \* the calls made: a subset of {"set", "append"}
    Sizes,        \* lengths of the values passed to them
    HardMax,      \* BLE_ATT_ATTR_MAX_LEN
    MaxLenArg,    \* the max_len given to the constructor
    InitLen,      \* length of the value given to the constructor
    MaxOps,       \* calls per task (model bound)
    NBlocks,      \* heap blocks the allocator may hand out (model bound)
    AllocMayFail, \* whether realloc may return NULL
    Null          \* nullptr

\* The largest value of the uint16_t lengths (m_attr_len, m_capacity).
U16Max == 65535

ASSUME AttAssumption ==
    /\ Kinds \subseteq {"set", "append"}
    /\ Sizes \subseteq Nat
    /\ HardMax \in 0 .. U16Max        \* the uint16_t parameters
    /\ MaxLenArg \in 0 .. U16Max
    /\ InitLen \in 0 .. U16Max
    /\ MaxOps \in Nat
    /\ NBlocks \in Nat \ {0}
    /\ AllocMayFail \in BOOLEAN

VARIABLES
    val,       \* m_attr_value: the block it points to
    len,       \* m_attr_len
    cap,       \* m_capacity
    heap,      \* each block: "unused", "alive" or "freed", and its bytes
    pc,        \* where each task is in setValue / append
    op,        \* the call each task is making
    newLen,    \* append's local new_len
    res,       \* append's local res
    ops,       \* calls made by each task
    faults,    \* "overflow" and "uaf" once a write or read left its block
    lastRead,  \* the bytes the last GATT read sent
    commits,   \* every value a call left on return or a setValue is storing
    expect     \* the value the last call should leave (spec sections 3, 8)

vars == <<val, len, cap, heap, pc, op, newLen, res, ops, faults, lastRead, commits, expect>>

ZERO == "nul"
JUNK == "junk"
Blocks == 1 .. NBlocks
Bytes == Tasks \cup {"init", ZERO, JUNK}

\* m_attr_max_len = std::min(BLE_ATT_ATTR_MAX_LEN, max_len)
AttrMax == IF MaxLenArg < HardMax THEN MaxLenArg ELSE HardMax

Fill(b, n) == [i \in 1 .. n |-> b]

\* The n bytes from the start of block b (past its end: whatever is there).
Read(b, n) == [i \in 1 .. n |-> IF i <= Len(heap[b].data) THEN heap[b].data[i] ELSE JUNK]

\* The logical value: m_attr_len bytes of m_attr_value.
Stored == Read(val, len)

InitValue == Fill("init", InitLen)
NoRead == <<JUNK>>

Init ==
    /\ val = 1
    /\ len = InitLen
    /\ cap = InitLen
    /\ heap = [b \in Blocks |->
                 IF b = 1 THEN [st |-> "alive", data |-> InitValue \o <<ZERO>>]
                 ELSE [st |-> "unused", data |-> <<>>]]
    /\ pc = [t \in Tasks |-> "idle"]
    /\ op = [t \in Tasks |-> [kind |-> "set", n |-> 0]]
    /\ newLen = [t \in Tasks |-> 0]
    /\ res = [t \in Tasks |-> Null]
    /\ ops = [t \in Tasks |-> 0]
    /\ faults = {}
    /\ lastRead = NoRead
    /\ commits = {InitValue}
    /\ expect = InitValue

(***************************************************************************)
(* Helpers for the heap.                                                  *)
(***************************************************************************)

\* d grown (or cut) to n bytes: realloc keeps the old bytes it has room for.
ResizeShort(d, n) == [i \in 1 .. n - 1 |-> IF i <= Len(d) THEN d[i] ELSE JUNK]
Resize(d, n) == [i \in 1 .. n |-> IF i <= Len(d) THEN d[i] ELSE JUNK]

\* memcpy(d + off, value, n) where every byte of value is w; bytes past the
\* end of the block are lost (they land outside it).
CopyIn(d, off, w, n) == [i \in 1 .. Len(d) |-> IF off < i /\ i <= off + n THEN w ELSE d[i]]

\* d[k] = '\0' (0-based k), lost when k is past the end.
Terminate(d, k) == [i \in 1 .. Len(d) |-> IF i = k + 1 THEN ZERO ELSE d[i]]

(***************************************************************************)
(* A call starts: setValue (value, n) or append (value, n), every byte of *)
(* value being the caller's.  expect is what the call should leave, as    *)
(* the specification states it: setValue stores value when it fits and    *)
(* otherwise leaves the value unchanged; append extends it when it fits.  *)
(* The value a fitting setValue stores is one a reader may legitimately  *)
(* see from now on.  The host task only writes through writeEvent ->     *)
(* setValue.                                                              *)
(***************************************************************************)
Call(t, k, n) ==
    /\ pc[t] = "idle"
    /\ t = Host => k = "set"
    /\ ops[t] < MaxOps
    /\ op' = [op EXCEPT ![t] = [kind |-> k, n |-> n]]
    /\ ops' = [ops EXCEPT ![t] = @ + 1]
    /\ expect' = IF k = "set"
                 THEN IF n <= AttrMax THEN Fill(t, n) ELSE Stored
                 ELSE IF len + n <= AttrMax THEN Stored \o Fill(t, n) ELSE Stored
    /\ commits' = IF k = "set" /\ n <= AttrMax THEN commits \cup {Fill(t, n)} ELSE commits
    /\ pc' = [pc EXCEPT ![t] = IF k = "set" THEN "clear" ELSE "append"]
    /\ UNCHANGED <<val, len, cap, heap, newLen, res, faults, lastRead>>

\* setValue: m_attr_len = 0, outside any critical section.
SetValueClear(t) ==
    /\ pc[t] = "clear"
    /\ len' = 0
    /\ pc' = [pc EXCEPT ![t] = "append"]
    /\ UNCHANGED <<val, cap, heap, op, newLen, res, ops, faults, lastRead, commits, expect>>

\* append's length check: (m_attr_len + len) > m_attr_max_len rejects.
Fits(n) == len + n <= AttrMax

\* realloc(m_attr_value, new_len + 1) when new_len exceeds m_capacity, which
\* is set to new_len whether or not realloc succeeds; then the NULL check.
\* realloc keeps the block, moves the bytes to a fresh block and frees the
\* old one, or fails.  Without a realloc, res is m_attr_value as read now.
ReallocNoNullCheck(t, nl) ==
    IF nl > cap
    THEN /\ cap' = nl
         /\ \/ /\ heap' = [heap EXCEPT ![val].data = Resize(@, nl + 1)]
               /\ res' = [res EXCEPT ![t] = val]
            \/ \E b \in Blocks :
                  /\ heap[b].st = "unused"
                  /\ heap' = [heap EXCEPT ![b] = [st |-> "alive", data |-> Resize(heap[val].data, nl + 1)],
                                          ![val].st = "freed"]
                  /\ res' = [res EXCEPT ![t] = b]
            \/ /\ AllocMayFail
               /\ res' = [res EXCEPT ![t] = Null]
               /\ UNCHANGED heap
         /\ pc' = [pc EXCEPT ![t] = "commit"]
    ELSE /\ res' = [res EXCEPT ![t] = val]
         /\ pc' = [pc EXCEPT ![t] = "commit"]
         /\ UNCHANGED <<cap, heap>>

Realloc(t, nl) ==
    IF nl > cap
    THEN /\ cap' = nl
         /\ \/ /\ heap' = [heap EXCEPT ![val].data = Resize(@, nl + 1)]
               /\ res' = [res EXCEPT ![t] = val]
               /\ pc' = [pc EXCEPT ![t] = "commit"]
            \/ \E b \in Blocks :
                  /\ heap[b].st = "unused"
                  /\ heap' = [heap EXCEPT ![b] = [st |-> "alive", data |-> Resize(heap[val].data, nl + 1)],
                                          ![val].st = "freed"]
                  /\ res' = [res EXCEPT ![t] = b]
                  /\ pc' = [pc EXCEPT ![t] = "commit"]
            \/ /\ AllocMayFail
               /\ res' = [res EXCEPT ![t] = Null]
               /\ pc' = [pc EXCEPT ![t] = "idle"]
               /\ UNCHANGED heap
    ELSE /\ res' = [res EXCEPT ![t] = val]
         /\ pc' = [pc EXCEPT ![t] = "commit"]
         /\ UNCHANGED <<cap, heap>>

\* append up to its critical section: the two early returns (len == 0, too
\* long), new_len, and the realloc.  A call that returns here records the
\* value it leaves.
AppendPrepare(t) ==
    LET n == op[t].n
    IN  /\ pc[t] = "append"
        /\ IF n = 0 \/ ~Fits(n)
           THEN /\ pc' = [pc EXCEPT ![t] = "idle"]
                /\ UNCHANGED <<cap, heap, newLen, res>>
           ELSE /\ newLen' = [newLen EXCEPT ![t] = len + n]
                /\ Realloc(t, len + n)
        /\ commits' = IF pc'[t] = "idle" THEN commits \cup {Stored} ELSE commits
        /\ UNCHANGED <<val, len, op, ops, faults, lastRead, expect>>

\* The bytes of block b; nullptr is a block of no bytes.
Data(b) == IF b \in Blocks THEN heap[b].data ELSE <<>>
Freed(b) == b \in Blocks /\ heap[b].st = "freed"

\* append's critical section: memcpy(res + m_attr_len, value, len),
\* m_attr_value = res, m_attr_len = new_len, m_attr_value[m_attr_len] = 0.
\* m_attr_len is read afresh here; new_len and res were computed before.
AppendCommit(t) ==
    LET b   == res[t]
        nl  == newLen[t]
        d   == Data(b)
        out == Terminate(CopyIn(d, len, t, op[t].n), nl)
    IN  /\ pc[t] = "commit"
        /\ heap' = IF b \in Blocks THEN [heap EXCEPT ![b].data = out] ELSE heap
        /\ faults' = faults
                     \cup (IF len + op[t].n > Len(d) \/ nl + 1 > Len(d) THEN {"overflow"} ELSE {})
                     \cup (IF Freed(b) THEN {"uaf"} ELSE {})
        /\ val' = b
        /\ len' = nl
        /\ commits' = commits \cup {[i \in 1 .. nl |-> IF i <= Len(out) THEN out[i] ELSE JUNK]}
        /\ pc' = [pc EXCEPT ![t] = "idle"]
        /\ UNCHANGED <<cap, op, newLen, res, ops, lastRead, expect>>

\* handleGattEvent, READ: os_mbuf_append(om, val.data(), val.size()) in a
\* critical section, on the host task while it is not itself writing.
GattRead ==
    /\ Host \in Tasks => pc[Host] = "idle"
    /\ lastRead' = Stored
    /\ faults' = faults \cup (IF heap[val].st = "freed" THEN {"uaf"} ELSE {})
    /\ UNCHANGED <<val, len, cap, heap, pc, op, newLen, res, ops, commits, expect>>

Next ==
    \/ \E t \in Tasks, k \in Kinds, n \in Sizes : Call(t, k, n)
    \/ \E t \in Tasks : SetValueClear(t) \/ AppendPrepare(t) \/ AppendCommit(t)
    \/ GattRead

Spec == Init /\ [][Next]_vars

(***************************************************************************)
(* Properties.                                                            *)
(***************************************************************************)

TypeOK ==
    /\ val \in Blocks
    /\ len \in 0 .. U16Max /\ cap \in 0 .. U16Max
    /\ heap \in [Blocks -> [st : {"unused", "alive", "freed"}, data : Seq(Bytes)]]
    /\ pc \in [Tasks -> {"idle", "clear", "append", "commit"}]
    /\ res \in [Tasks -> Blocks \cup {Null}]
    /\ faults \subseteq {"overflow", "uaf"}

\* No memcpy or terminator store of append lands past the end of the block
\* that realloc / calloc gave it.
NoOverflow == "overflow" \notin faults

\* No read (a GATT read) or write (append's commit) touches a block that
\* realloc has already freed.
NoUseAfterFree == "uaf" \notin faults

\* Whenever no call is in progress, the value is what the last setValue /
\* append call should have left: a call that fails leaves the value as it
\* was (spec section 3: an append beyond the maximum is rejected without
\* partial mutation; section 8, properties 1 and 7: the stored length and
\* value are unchanged by a failed or oversized write).
ValueMatchesLastWrite == (\A t \in Tasks : pc[t] = "idle") => Stored = expect

\* A GATT read sends a value the attribute may legitimately hold: the
\* initial value, one some call left when it returned, or the value a
\* setValue in progress is storing (spec 4.1: setValue replaces the content
\* atomically with respect to concurrent readers).
ReadSeesWrittenValue == lastRead = NoRead \/ lastRead \in commits

\* setValue behaves as one replacement of the content: a call that fails
\* leaves the old value, and a concurrent GATT read sees the old or the new
\* value, never the emptied one in between (spec 4.1).
SetValueAtomic == ValueMatchesLastWrite /\ ReadSeesWrittenValue
=============================================================================
