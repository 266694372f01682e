--------------------------- MODULE CircularBuffer ---------------------------
(***************************************************************************)
(* The circular buffer library, libs/circbuf/circbuf.c: one buffer and one *)
(* caller (every buffer of the program is used under a mutex).  A call of  *)
(* one of the *Many functions is a first step that checks the arguments,   *)
(* one step for each iteration of its loop, and a last step that returns.  *)
(***************************************************************************)
EXTENDS Integers, Sequences

CONSTANTS Item,       \* the values a slot can hold
          Capacity,   \* capacity given to CircularBuffer_create
          MaxBatch,   \* bound: the largest itemCount given to a *Many call
          UintMod,    \* 2^32, the modulus of uint32_t
          NULL,       \* a null item pointer
          Garbage     \* the content of a slot that was never written

\* Offsets are added in uint32_t: twice the capacity must fit.  (The program
\* creates buffers of capacity 1, 10 and 100.)
ASSUME CapacityAssumption == /\ Capacity \in Nat \ {0}
                             /\ UintMod \in Nat
                             /\ 2 * Capacity <= UintMod
ASSUME ValuesAssumption == /\ NULL \notin Item
                           /\ Garbage \notin Item
                           /\ MaxBatch \in Nat

VARIABLES
  handle,      \* the caller's pointer: "unset", "NULL" or "live"
  buffer,      \* buffer[i]: the item in slot i
  readOffset,
  itemCount,
  call,        \* the function called last
  pc,          \* "loop": that call is in its loop; "idle": it has returned
  items,       \* its input array
  count,       \* how many items it is to transfer
  done,        \* how many it has transferred: its result when it returns one
  out,         \* what it has copied to the caller's output
  atCall       \* history: the buffer's content when it was called

struct == <<buffer, readOffset, itemCount>>
frame == <<call, pc, items, count, done, out>>
vars == <<handle, struct, frame, atCall>>

Slots == 0 .. Capacity - 1

\* The slot that lies i places after the read offset.
Slot(i) == IF readOffset + i < Capacity THEN readOffset + i
                                        ELSE readOffset + i - Capacity

\* The items held, oldest first.
Content == IF handle = "live"
             THEN [i \in 1 .. itemCount |-> buffer[Slot(i - 1)]]
             ELSE <<>>

-----------------------------------------------------------------------------
Init == /\ handle = "unset"
        /\ buffer = [i \in Slots |-> Garbage]
        /\ readOffset = 0 /\ itemCount = 0
        /\ call = "none" /\ pc = "idle"
        /\ items = <<>> /\ count = 0 /\ done = 0 /\ out = <<>>
        /\ atCall = <<>>

\* The program may call f: it holds a pointer and no other call is running.
Enter(f) == /\ pc = "idle"
            /\ handle # "unset"
            /\ call' = f
            /\ atCall' = Content

\* The call just made transfers n items and returns at once.
Return(in, n, k) == /\ pc' = "idle"
                    /\ items' = in /\ count' = n /\ done' = k
                    /\ UNCHANGED handle

\* Neither self nor the item pointer is NULL.
Valid(ptr) == handle = "live" /\ ptr # NULL

\* Sensitivity variant: a full buffer is overwritten without moving readOffset.
writeItem_staleOffset(x) ==
  LET sum == (readOffset + itemCount) % UintMod
      writeOffset == IF sum >= Capacity THEN sum - Capacity ELSE sum
  IN  /\ buffer' = [buffer EXCEPT ![writeOffset] = x]
      /\ itemCount' = IF itemCount = Capacity THEN itemCount ELSE itemCount + 1
      /\ UNCHANGED readOffset

\* The copy and the bookkeeping of CircularBuffer_write for valid arguments.
writeItem(x) ==
  LET sum == (readOffset + itemCount) % UintMod
      writeOffset == IF sum >= Capacity THEN sum - Capacity ELSE sum
      full == writeOffset = readOffset /\ 0 < itemCount
  IN  /\ buffer' = [buffer EXCEPT ![writeOffset] = x]
      /\ IF full
           THEN /\ readOffset' = IF writeOffset + 1 < Capacity
                                   THEN writeOffset + 1 ELSE 0
                /\ UNCHANGED itemCount
           ELSE /\ itemCount' = itemCount + 1
                /\ UNCHANGED readOffset

\* Sensitivity variant: the read offset does not wrap around.
readItem_noWrap(o) == /\ out' = Append(o, buffer[readOffset])
                      /\ itemCount' = itemCount - 1
                      /\ readOffset' = readOffset + 1
                      /\ UNCHANGED buffer

\* CircularBuffer_read of a buffer that holds an item, appending to o.
readItem(o) == /\ out' = Append(o, buffer[readOffset])
               /\ itemCount' = itemCount - 1
               /\ readOffset' = IF readOffset + 1 = Capacity
                                  THEN 0 ELSE readOffset + 1
               /\ UNCHANGED buffer

\* Sensitivity variant: a peek that consumes the item.
peekItem_consumes(o) == readItem(o)

\* CircularBuffer_peek of a buffer that holds an item, appending to o.
peekItem(o) == out' = Append(o, buffer[readOffset]) /\ UNCHANGED struct

-----------------------------------------------------------------------------
(* Creation and destruction.                                               *)

\* Either malloc may fail, and the pointer is then NULL.
CircularBuffer_create ==
  /\ handle = "unset"
  /\ \/ /\ handle' = "live"
        /\ buffer' = [i \in Slots |-> Garbage]
        /\ readOffset' = 0 /\ itemCount' = 0
     \/ handle' = "NULL" /\ UNCHANGED struct
  /\ call' = "create"
  /\ atCall' = <<>>
  /\ UNCHANGED <<pc, items, count, done, out>>

CircularBuffer_destroy == /\ Enter("destroy")
                          /\ handle' = "unset"
                          /\ UNCHANGED <<struct, pc, items, count, done, out>>

CircularBuffer_clear == /\ Enter("clear")
                        /\ IF handle = "live"
                             THEN itemCount' = 0 /\ readOffset' = 0
                             ELSE UNCHANGED <<itemCount, readOffset>>
                        /\ Return(<<>>, 0, 0)
                        /\ UNCHANGED <<buffer, out>>

-----------------------------------------------------------------------------
(* One item.                                                               *)

CircularBuffer_write(ptr) ==
  /\ Enter("write")
  /\ UNCHANGED out
  /\ IF Valid(ptr) THEN writeItem(ptr) /\ Return(<<ptr>>, 1, 1)
                   ELSE UNCHANGED struct /\ Return(<<>>, 0, 0)

CircularBuffer_tryWrite(ptr) ==
  /\ Enter("tryWrite")
  /\ UNCHANGED out
  /\ IF Valid(ptr) /\ itemCount < Capacity
       THEN writeItem(ptr) /\ Return(<<ptr>>, 1, 1)
       ELSE UNCHANGED struct /\ Return(IF ptr = NULL THEN <<>> ELSE <<ptr>>, 0, 0)

CircularBuffer_read ==
  /\ Enter("read")
  /\ IF handle = "live" /\ itemCount >= 1
       THEN readItem(<<>>) /\ Return(<<>>, 1, 1)
       ELSE out' = <<>> /\ UNCHANGED struct /\ Return(<<>>, 1, 0)

CircularBuffer_peek ==
  /\ Enter("peek")
  /\ IF handle = "live" /\ itemCount >= 1
       THEN peekItem(<<>>) /\ Return(<<>>, 1, 1)
       ELSE out' = <<>> /\ UNCHANGED struct /\ Return(<<>>, 1, 0)

-----------------------------------------------------------------------------
(* Several items.                                                          *)

\* The loop of the call just made is to transfer up to n items.
Start(in, n) == /\ pc' = "loop"
                /\ items' = in /\ count' = n /\ done' = 0
                /\ UNCHANGED <<handle, struct>>

CircularBuffer_writeMany(in) ==
  /\ Enter("writeMany")
  /\ UNCHANGED out
  /\ IF handle = "live" /\ Len(in) >= 1
       THEN Start(in, Len(in))
       ELSE UNCHANGED struct /\ Return(in, 0, 0)

uint32Min(a, b) == IF a < b THEN a ELSE b

\* Sensitivity variant: the available capacity is not subtracted.
CircularBuffer_tryWriteMany_ignoresHeld(in) ==
  LET writeCount == uint32Min(Len(in), Capacity)
  IN  /\ Enter("tryWriteMany")
      /\ UNCHANGED out
      /\ IF handle = "live" /\ writeCount >= 1
           THEN Start(in, writeCount)
           ELSE UNCHANGED struct /\ Return(in, 0, 0)

\* Its writeMany returns at once when the buffer is full.
CircularBuffer_tryWriteMany(in) ==
  LET availableCapacity == Capacity - itemCount
      writeCount == uint32Min(Len(in), availableCapacity)
  IN  /\ Enter("tryWriteMany")
      /\ UNCHANGED out
      /\ IF handle = "live" /\ writeCount >= 1
           THEN Start(in, writeCount)
           ELSE UNCHANGED struct /\ Return(in, 0, 0)

CircularBuffer_readMany(n) ==
  /\ Enter("readMany")
  /\ out' = <<>>
  /\ IF handle = "live" /\ n >= 1
       THEN Start(<<>>, n)
       ELSE UNCHANGED struct /\ Return(<<>>, n, 0)

CircularBuffer_peekMany(n) ==
  /\ Enter("peekMany")
  /\ out' = <<>>
  /\ IF handle = "live" /\ n >= 1
       THEN Start(<<>>, n)
       ELSE UNCHANGED struct /\ Return(<<>>, n, 0)

\* One iteration of the loop of the call f.
Iterate(f) == /\ pc = "loop" /\ call = f /\ done < count
              /\ done' = done + 1
              /\ UNCHANGED <<handle, call, pc, items, count, atCall>>

writeManyStep == /\ \/ Iterate("writeMany")
                    \/ Iterate("tryWriteMany")
                 /\ writeItem(items[done + 1])
                 /\ UNCHANGED out

readManyStep == Iterate("readMany") /\ itemCount >= 1 /\ readItem(out)

peekManyStep == Iterate("peekMany") /\ itemCount >= 1 /\ peekItem(out)

\* Sensitivity variant: the loop ends one iteration too early.
manyReturn_early ==
  /\ pc = "loop"
  /\ done + 1 >= count \/ (call \in {"readMany", "peekMany"} /\ itemCount < 1)
  /\ pc' = "idle"
  /\ UNCHANGED <<handle, struct, call, items, count, done, out, atCall>>

\* The loop ends: the count is reached, or a read finds the buffer empty.
manyReturn == /\ pc = "loop"
              /\ done = count \/ (call \in {"readMany", "peekMany"} /\ itemCount < 1)
              /\ pc' = "idle"
              /\ UNCHANGED <<handle, struct, call, items, count, done, out, atCall>>

-----------------------------------------------------------------------------
Batches == UNION {[1 .. n -> Item] : n \in 0 .. MaxBatch}

Next == \/ CircularBuffer_create
        \/ CircularBuffer_destroy
        \/ CircularBuffer_clear
        \/ \E ptr \in Item \cup {NULL} : \/ CircularBuffer_write(ptr)
                                         \/ CircularBuffer_tryWrite(ptr)
        \/ CircularBuffer_read
        \/ CircularBuffer_peek
        \/ \E in \in Batches : \/ CircularBuffer_writeMany(in)
                               \/ CircularBuffer_tryWriteMany(in)
        \/ \E n \in 0 .. MaxBatch : \/ CircularBuffer_readMany(n)
                                    \/ CircularBuffer_peekMany(n)
        \/ writeManyStep
        \/ readManyStep
        \/ peekManyStep
        \/ manyReturn

Spec == Init /\ [][Next]_vars

-----------------------------------------------------------------------------
(* Properties.                                                             *)

Calls == {"none", "create", "destroy", "clear", "write", "tryWrite", "read",
          "peek", "writeMany", "tryWriteMany", "readMany", "peekMany"}

\* The offsets stay inside the allocated slots and the count within the
\* capacity, whatever sequence of calls of circbuf.c is made.
TypeOK == /\ handle \in {"unset", "NULL", "live"}
          /\ buffer \in [Slots -> Item \cup {Garbage}]
          /\ readOffset \in Slots
          /\ itemCount \in 0 .. Capacity
          /\ call \in Calls
          /\ pc \in {"idle", "loop"}
          /\ items \in Seq(Item)
          /\ count \in Nat /\ done \in Nat
          /\ done <= count
          /\ out \in Seq(Item)
          /\ atCall \in Seq(Item)

\* circbuf.c implements the bounded queue: every step of every call is a step
\* of the queue, wrap-around and overwriting included.
Queue == INSTANCE BoundedQueue WITH queue <- Content, out <- out
ImplementsQueue == Queue!Spec

\* The last n items of s.
LastItems(s, n) == IF Len(s) <= n THEN s ELSE SubSeq(s, Len(s) - n + 1, Len(s))

Smaller(a, b) == IF a <= b THEN a ELSE b

\* A finished CircularBuffer_read or readMany has handed out exactly the
\* oldest items, in order, has removed those and no other, and reports their
\* number; a peek hands out the oldest item and leaves the buffer as it is.
HandsOutOldest ==
  /\ (pc = "idle" /\ call \in {"read", "readMany"}) =>
       /\ done = Smaller(count, Len(atCall))
       /\ out = SubSeq(atCall, 1, done)
       /\ Content = SubSeq(atCall, done + 1, Len(atCall))
  /\ (pc = "idle" /\ call = "peek") =>
       /\ out = SubSeq(atCall, 1, Smaller(1, Len(atCall)))
       /\ Content = atCall

\* After CircularBuffer_write or writeMany the buffer holds the newest
\* Capacity items of what it held followed by what was written.
WriteKeepsNewest ==
  (pc = "idle" /\ call \in {"write", "writeMany"} /\ handle = "live") =>
     Content = LastItems(atCall \o items, Capacity)

\* CircularBuffer_tryWrite and tryWriteMany write the first items that fit,
\* lose none that were held, and report how many they wrote.
TryWriteLosesNothing ==
  (pc = "idle" /\ call \in {"tryWrite", "tryWriteMany"} /\ handle = "live") =>
     /\ done = Smaller(Len(items), Capacity - Len(atCall))
     /\ Content = atCall \o SubSeq(items, 1, done)
=============================================================================
