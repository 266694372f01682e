------------------------ MODULE CircularBufferProofs ------------------------
(***************************************************************************)
(* Proofs about CircularBuffer: the offsets stay inside the allocation for *)
(* every capacity and every sequence of calls, and the struct implements   *)
(* the bounded queue.                                                      *)
(***************************************************************************)
EXTENDS CircularBuffer, SequenceTheorems, TLAPS

\* The slots between the read offset and the write offset hold written items.
HeldAreWritten == handle = "live" =>
                    \A i \in 0 .. itemCount - 1 : buffer[Slot(i)] \in Item

\* A loop runs on a live buffer, and a writing loop stays inside its input.
LoopInBounds == pc = "loop" => /\ handle = "live"
                               /\ (call \in {"writeMany", "tryWriteMany"}) =>
                                     count <= Len(items)

IndInv == TypeOK /\ HeldAreWritten /\ LoopInBounds

-----------------------------------------------------------------------------
\* A sum of two offsets does not wrap around in uint32_t.
LEMMA SumFits ==
  ASSUME NEW a \in Nat, NEW m \in Nat, a < m
  PROVE  a % m = a
  OBVIOUS

\* Slots of different places are different and lie inside the allocation.
LEMMA SlotFacts ==
  ASSUME TypeOK
  PROVE  /\ \A i \in 0 .. Capacity : Slot(i) \in Slots
         /\ \A i, j \in 0 .. Capacity - 1 : Slot(i) = Slot(j) => i = j
         /\ Slot(0) = readOffset
         /\ Slot(Capacity) = readOffset
         /\ \A i \in 0 .. Capacity : Slot(i) = readOffset => i \in {0, Capacity}
  BY CapacityAssumption DEF TypeOK, Slot, Slots

\* What CircularBuffer_write does, in terms of places instead of offsets.
LEMMA WriteEffect ==
  ASSUME TypeOK, NEW x \in Item, writeItem(x)
  PROVE  /\ buffer' = [buffer EXCEPT ![Slot(itemCount)] = x]
         /\ itemCount < Capacity => /\ itemCount' = itemCount + 1
                                    /\ readOffset' = readOffset
         /\ itemCount = Capacity => /\ itemCount' = itemCount
                                    /\ readOffset' = Slot(1)
<1>1. /\ readOffset \in Nat /\ itemCount \in Nat /\ Capacity \in Nat
      /\ readOffset < Capacity /\ itemCount <= Capacity /\ UintMod \in Nat
      /\ readOffset + itemCount < UintMod
  BY CapacityAssumption DEF TypeOK, Slots
<1>2. (readOffset + itemCount) % UintMod = readOffset + itemCount
  BY <1>1, SumFits
<1> DEFINE sum == (readOffset + itemCount) % UintMod
           w == IF sum >= Capacity THEN sum - Capacity ELSE sum
           full == w = readOffset /\ 0 < itemCount
<1>3. w = Slot(itemCount)
  BY <1>1, <1>2 DEF Slot
<1>4. full <=> itemCount = Capacity
  BY <1>1, <1>2, CapacityAssumption
<1>5. /\ buffer' = [buffer EXCEPT ![w] = x]
      /\ full => /\ readOffset' = IF w + 1 < Capacity THEN w + 1 ELSE 0
                 /\ itemCount' = itemCount
      /\ ~full => itemCount' = itemCount + 1 /\ readOffset' = readOffset
  BY DEF writeItem
<1>6. full => (IF w + 1 < Capacity THEN w + 1 ELSE 0) = Slot(1)
  BY <1>1, <1>4, <1>2 DEF Slot
<1> HIDE DEF sum, w, full
<1>7. QED
  BY <1>1, <1>3, <1>4, <1>5, <1>6

\* The content is a sequence of items, as long as the count says.
LEMMA ContentFacts ==
  ASSUME TypeOK, HeldAreWritten
  PROVE  /\ Content \in Seq(Item)
         /\ handle = "live" =>
              /\ Len(Content) = itemCount
              /\ \A i \in 1 .. itemCount : Content[i] = buffer[Slot(i - 1)]
<1>1. CASE handle = "live"
  <2>1. itemCount \in Nat
    BY CapacityAssumption DEF TypeOK
  <2>2. \A i \in 1 .. itemCount : buffer[Slot(i - 1)] \in Item
    BY <1>1, <2>1 DEF HeldAreWritten
  <2>3. Content = [i \in 1 .. itemCount |-> buffer[Slot(i - 1)]]
    BY <1>1 DEF Content
  <2>4. QED
    BY <2>1, <2>2, <2>3
<1>2. CASE handle # "live"
  BY <1>2 DEF Content
<1>3. QED
  BY <1>1, <1>2

\* A write keeps offsets and slots well formed.
LEMMA WriteKeepsInv ==
  ASSUME TypeOK, HeldAreWritten, NEW x \in Item, writeItem(x),
         handle' = handle, handle = "live"
  PROVE  /\ buffer' \in [Slots -> Item \cup {Garbage}]
         /\ readOffset' \in Slots
         /\ itemCount' \in 0 .. Capacity
         /\ HeldAreWritten'
<1>1. buffer' \in [Slots -> Item \cup {Garbage}]
  BY WriteEffect, SlotFacts, CapacityAssumption DEF TypeOK
<1>2. readOffset' \in Slots /\ itemCount' \in 0 .. Capacity
  <2>1. CASE itemCount < Capacity
    BY <2>1, WriteEffect, CapacityAssumption DEF TypeOK
  <2>2. CASE itemCount = Capacity
    BY <2>2, WriteEffect, SlotFacts, CapacityAssumption DEF TypeOK
  <2>3. QED
    BY <2>1, <2>2, CapacityAssumption DEF TypeOK
<1>3. ASSUME NEW i \in 0 .. itemCount' - 1
      PROVE  buffer'[Slot(i)'] \in Item
  <2>1. CASE itemCount < Capacity
    <3>1. Slot(i)' = Slot(i) /\ i \in 0 .. itemCount
      BY <2>1, <1>3, WriteEffect DEF Slot, TypeOK
    <3>2. QED
      BY <2>1, <3>1, WriteEffect, SlotFacts, CapacityAssumption
         DEF TypeOK, HeldAreWritten
  <2>2. CASE itemCount = Capacity
    <3>1. Slot(i)' = Slot(i + 1) /\ i \in 0 .. Capacity - 1
      BY <2>2, <1>3, WriteEffect, CapacityAssumption DEF Slot, TypeOK, Slots
    <3>2. CASE i = Capacity - 1
      BY <2>2, <3>1, <3>2, WriteEffect, SlotFacts, CapacityAssumption DEF TypeOK
    <3>3. CASE i < Capacity - 1
      BY <2>2, <3>1, <3>3, WriteEffect, SlotFacts, CapacityAssumption
         DEF TypeOK, HeldAreWritten
    <3>4. QED
      BY <3>1, <3>2, <3>3, CapacityAssumption
  <2>3. QED
    BY <2>1, <2>2, CapacityAssumption DEF TypeOK
<1>4. QED
  BY <1>1, <1>2, <1>3 DEF HeldAreWritten

\* A read hands out a written item and keeps the rest of the buffer.
LEMMA ReadKeepsInv ==
  ASSUME TypeOK, HeldAreWritten, NEW o \in Seq(Item), readItem(o),
         handle' = handle, handle = "live", itemCount >= 1
  PROVE  /\ buffer' \in [Slots -> Item \cup {Garbage}]
         /\ readOffset' \in Slots
         /\ itemCount' \in 0 .. Capacity
         /\ out' \in Seq(Item)
         /\ HeldAreWritten'
<1>1. buffer[readOffset] \in Item
  BY SlotFacts DEF HeldAreWritten, TypeOK
<1>2. /\ buffer' \in [Slots -> Item \cup {Garbage}]
      /\ readOffset' \in Slots
      /\ itemCount' \in 0 .. Capacity
      /\ out' \in Seq(Item)
  BY <1>1, CapacityAssumption DEF readItem, TypeOK, Slots
<1>3. ASSUME NEW i \in 0 .. itemCount' - 1
      PROVE  Slot(i)' = Slot(i + 1) /\ i + 1 \in 0 .. itemCount - 1
  BY <1>3, CapacityAssumption DEF readItem, TypeOK, Slots, Slot
<1>4. QED
  BY <1>2, <1>3 DEF HeldAreWritten, readItem

-----------------------------------------------------------------------------
\* The inductive invariant holds initially and every step of circbuf.c keeps
\* it.
LEMMA InductiveInit == Init => IndInv
<1> SUFFICES ASSUME Init PROVE IndInv
  OBVIOUS
<1>1. buffer \in [Slots -> Item \cup {Garbage}]
  BY DEF Init
<1>2. readOffset \in Slots /\ itemCount \in 0 .. Capacity
  BY CapacityAssumption DEF Init, Slots
<1>3. count \in Nat /\ done \in Nat /\ done <= count
  BY DEF Init
<1>4. items \in Seq(Item) /\ out \in Seq(Item) /\ atCall \in Seq(Item)
  BY DEF Init
<1>5. handle \in {"unset", "NULL", "live"} /\ call \in Calls
  BY DEF Init, Calls
<1>6. pc \in {"idle", "loop"}
  BY DEF Init
<1>7. HeldAreWritten /\ LoopInBounds
  BY DEF Init, HeldAreWritten, LoopInBounds
<1>8. QED
  BY <1>1, <1>2, <1>3, <1>4, <1>5, <1>6, <1>7 DEF IndInv, TypeOK

\* Every step of every call keeps IndInv.
LEMMA InductiveStep == IndInv /\ [Next]_vars => IndInv'
<1> SUFFICES ASSUME IndInv, [Next]_vars PROVE IndInv'
  OBVIOUS
<1> USE DEF IndInv
<1>c. Content \in Seq(Item)
  BY ContentFacts
<1>e. <<>> \in Seq(Item) /\ \A x \in Item : <<x>> \in Seq(Item)
  OBVIOUS
<1>h. UNCHANGED <<handle, struct>> =>
        /\ HeldAreWritten'
        /\ buffer' = buffer /\ readOffset' = readOffset /\ itemCount' = itemCount
  BY DEF HeldAreWritten, struct, Slot
<1>1. CASE CircularBuffer_create
  BY <1>1, CapacityAssumption
     DEF CircularBuffer_create, TypeOK, HeldAreWritten, LoopInBounds, struct,
         Slots, Calls
<1>2. CASE CircularBuffer_destroy
  BY <1>2, <1>c
     DEF CircularBuffer_destroy, Enter, TypeOK, HeldAreWritten, LoopInBounds,
         struct, Calls
<1>3. CASE CircularBuffer_clear
  BY <1>3, <1>c, CapacityAssumption
     DEF CircularBuffer_clear, Enter, Return, TypeOK, HeldAreWritten,
         LoopInBounds, Slots, Slot, Calls
<1>4. ASSUME NEW ptr \in Item \cup {NULL}, CircularBuffer_write(ptr)
      PROVE  IndInv'
  <2>0. pc' = "idle" /\ call' = "write" /\ handle' = handle /\ atCall' = Content
    BY <1>4 DEF CircularBuffer_write, Enter, Return
  <2>1. CASE Valid(ptr)
    <3>1. /\ ptr \in Item /\ writeItem(ptr) /\ handle = "live"
          /\ items' = <<ptr>> /\ count' = 1 /\ done' = 1 /\ out' = out
      BY <1>4, <2>1 DEF CircularBuffer_write, Valid, Return
    <3>2. /\ buffer' \in [Slots -> Item \cup {Garbage}]
          /\ readOffset' \in Slots /\ itemCount' \in 0 .. Capacity
          /\ HeldAreWritten'
      BY <2>0, <3>1, WriteKeepsInv
    <3>3. QED
      BY <2>0, <3>1, <3>2, <1>c, <1>e DEF TypeOK, LoopInBounds, Calls
  <2>2. CASE ~Valid(ptr)
    <3>1. /\ items' \in Seq(Item) /\ count' = 0 /\ done' = 0 /\ out' = out
          /\ UNCHANGED struct
      BY <1>4, <2>2, <1>e DEF CircularBuffer_write, Return
    <3>2. QED
      BY <2>0, <3>1, <1>c, <1>e, <1>h DEF TypeOK, LoopInBounds, Calls
  <2>3. QED
    BY <2>1, <2>2
<1>5. ASSUME NEW ptr \in Item \cup {NULL}, CircularBuffer_tryWrite(ptr)
      PROVE  IndInv'
  <2>0. pc' = "idle" /\ call' = "tryWrite" /\ handle' = handle /\ atCall' = Content
    BY <1>5 DEF CircularBuffer_tryWrite, Enter, Return
  <2>1. CASE Valid(ptr) /\ itemCount < Capacity
    <3>1. /\ ptr \in Item /\ writeItem(ptr) /\ handle = "live"
          /\ items' = <<ptr>> /\ count' = 1 /\ done' = 1 /\ out' = out
      BY <1>5, <2>1 DEF CircularBuffer_tryWrite, Valid, Return
    <3>2. /\ buffer' \in [Slots -> Item \cup {Garbage}]
          /\ readOffset' \in Slots /\ itemCount' \in 0 .. Capacity
          /\ HeldAreWritten'
      BY <2>0, <3>1, WriteKeepsInv
    <3>3. QED
      BY <2>0, <3>1, <3>2, <1>c, <1>e DEF TypeOK, LoopInBounds, Calls
  <2>2. CASE ~(Valid(ptr) /\ itemCount < Capacity)
    <3>1. /\ items' \in Seq(Item) /\ count' = 0 /\ done' = 0 /\ out' = out
          /\ UNCHANGED struct
      BY <1>5, <2>2, <1>e DEF CircularBuffer_tryWrite, Return
    <3>2. QED
      BY <2>0, <3>1, <1>c, <1>e, <1>h DEF TypeOK, LoopInBounds, Calls
  <2>3. QED
    BY <2>1, <2>2
<1>6. CASE CircularBuffer_read
  <2>0. pc' = "idle" /\ call' = "read" /\ handle' = handle /\ atCall' = Content
    BY <1>6 DEF CircularBuffer_read, Enter, Return
  <2>1. CASE handle = "live" /\ itemCount >= 1
    <3>1. readItem(<<>>) /\ items' = <<>> /\ count' = 1 /\ done' = 1
      BY <1>6, <2>1 DEF CircularBuffer_read, Return
    <3>2. /\ buffer' \in [Slots -> Item \cup {Garbage}]
          /\ readOffset' \in Slots /\ itemCount' \in 0 .. Capacity
          /\ out' \in Seq(Item) /\ HeldAreWritten'
      BY <2>0, <2>1, <3>1, <1>e, ReadKeepsInv
    <3>3. QED
      BY <2>0, <3>1, <3>2, <1>c, <1>e DEF TypeOK, LoopInBounds, Calls
  <2>2. CASE ~(handle = "live" /\ itemCount >= 1)
    <3>1. /\ items' = <<>> /\ count' = 1 /\ done' = 0 /\ out' = <<>>
          /\ UNCHANGED struct
      BY <1>6, <2>2 DEF CircularBuffer_read, Return
    <3>2. QED
      BY <2>0, <3>1, <1>c, <1>e, <1>h DEF TypeOK, LoopInBounds, Calls
  <2>3. QED
    BY <2>1, <2>2
<1>7. CASE CircularBuffer_peek
  <2>0. pc' = "idle" /\ call' = "peek" /\ handle' = handle /\ atCall' = Content
    BY <1>7 DEF CircularBuffer_peek, Enter, Return
  <2>1. CASE handle = "live" /\ itemCount >= 1
    <3>1. /\ out' = Append(<<>>, buffer[readOffset])
          /\ items' = <<>> /\ count' = 1 /\ done' = 1 /\ UNCHANGED struct
      BY <1>7, <2>1 DEF CircularBuffer_peek, peekItem, Return
    <3>2. out' \in Seq(Item)
      BY <2>1, <3>1, <1>e, SlotFacts DEF HeldAreWritten, TypeOK
    <3>3. QED
      BY <2>0, <3>1, <3>2, <1>c, <1>e, <1>h DEF TypeOK, LoopInBounds, Calls
  <2>2. CASE ~(handle = "live" /\ itemCount >= 1)
    <3>1. /\ items' = <<>> /\ count' = 1 /\ done' = 0 /\ out' = <<>>
          /\ UNCHANGED struct
      BY <1>7, <2>2 DEF CircularBuffer_peek, Return
    <3>2. QED
      BY <2>0, <3>1, <1>c, <1>e, <1>h DEF TypeOK, LoopInBounds, Calls
  <2>3. QED
    BY <2>1, <2>2
<1>8. ASSUME NEW in \in Batches, \/ CircularBuffer_writeMany(in)
                                 \/ CircularBuffer_tryWriteMany(in)
      PROVE  IndInv'
  <2>1. in \in Seq(Item) /\ Len(in) \in Nat
    BY <1>8, ValuesAssumption DEF Batches
  <2>2. CASE CircularBuffer_writeMany(in)
    BY <2>1, <2>2, <1>c, <1>e, <1>h
       DEF CircularBuffer_writeMany, Enter, Return, Start, TypeOK, LoopInBounds,
           Calls
  <2>3. CASE CircularBuffer_tryWriteMany(in)
    <3>1. /\ uint32Min(Len(in), Capacity - itemCount) \in Int
          /\ uint32Min(Len(in), Capacity - itemCount) <= Len(in)
      BY <2>1, CapacityAssumption DEF uint32Min, TypeOK
    <3>2. QED
      BY <2>1, <2>3, <3>1, <1>c, <1>e, <1>h
         DEF CircularBuffer_tryWriteMany, Enter, Return, Start, TypeOK,
             LoopInBounds, Calls
  <2>4. QED
    BY <1>8, <2>2, <2>3
<1>9. ASSUME NEW n \in 0 .. MaxBatch, \/ CircularBuffer_readMany(n)
                                      \/ CircularBuffer_peekMany(n)
      PROVE  IndInv'
  <2>1. /\ call' \in {"readMany", "peekMany"} /\ pc' \in {"idle", "loop"}
        /\ pc' = "loop" => handle = "live"
        /\ atCall' = Content /\ items' = <<>> /\ out' = <<>>
        /\ count' = n /\ done' = 0
        /\ UNCHANGED <<handle, struct>>
    BY <1>9 DEF CircularBuffer_readMany, CircularBuffer_peekMany, Enter, Return,
                Start
  <2>2. n \in Nat
    BY ValuesAssumption
  <2>3. QED
    BY <2>1, <2>2, <1>c, <1>e, <1>h DEF TypeOK, LoopInBounds, Calls
<1>10. CASE writeManyStep
  <2>1. /\ handle' = handle /\ handle = "live"
        /\ items[done + 1] \in Item /\ writeItem(items[done + 1])
    BY <1>10 DEF writeManyStep, Iterate, LoopInBounds, TypeOK
  <2>2. /\ buffer' \in [Slots -> Item \cup {Garbage}]
        /\ readOffset' \in Slots /\ itemCount' \in 0 .. Capacity
        /\ HeldAreWritten'
    BY <2>1, WriteKeepsInv
  <2>3. QED
    BY <1>10, <2>1, <2>2
       DEF writeManyStep, Iterate, LoopInBounds, TypeOK
<1>11. CASE readManyStep
  <2>1. /\ handle' = handle /\ handle = "live"
        /\ out \in Seq(Item) /\ readItem(out) /\ itemCount >= 1
    BY <1>11 DEF readManyStep, Iterate, LoopInBounds, TypeOK
  <2>2. /\ buffer' \in [Slots -> Item \cup {Garbage}]
        /\ readOffset' \in Slots /\ itemCount' \in 0 .. Capacity
        /\ out' \in Seq(Item) /\ HeldAreWritten'
    BY <2>1, ReadKeepsInv
  <2>3. QED
    BY <1>11, <2>1, <2>2 DEF readManyStep, Iterate, LoopInBounds, TypeOK
<1>12. CASE peekManyStep
  <2>1. handle = "live" /\ itemCount >= 1
    BY <1>12 DEF peekManyStep, Iterate, LoopInBounds
  <2>2. buffer[readOffset] \in Item
    BY <2>1, SlotFacts DEF HeldAreWritten, TypeOK
  <2>3. QED
    BY <1>12, <2>1, <2>2, <1>h
       DEF peekManyStep, peekItem, Iterate, LoopInBounds, TypeOK
<1>13. CASE manyReturn
  BY <1>13, <1>h DEF manyReturn, TypeOK, LoopInBounds
<1>14. CASE UNCHANGED vars
  BY <1>14
     DEF vars, struct, frame, TypeOK, LoopInBounds, HeldAreWritten, Slot
<1>15. QED
  BY <1>1, <1>2, <1>3, <1>4, <1>5, <1>6, <1>7, <1>8, <1>9, <1>10, <1>11,
     <1>12, <1>13, <1>14
     DEF Next

\* Offsets and count stay in range for every capacity and every sequence of
\* calls.
THEOREM TypeCorrect == Spec => []TypeOK
<1>1. IndInv => TypeOK
  BY DEF IndInv
<1>2. QED
  BY <1>1, InductiveInit, InductiveStep, PTL DEF Spec

-----------------------------------------------------------------------------
(* The refinement of BoundedQueue.                                         *)

\* Two sequences of the same length with the same elements are equal.
LEMMA SameItems ==
  ASSUME NEW s \in Seq(Item), NEW t \in Seq(Item), Len(s) = Len(t),
         \A i \in 1 .. Len(s) : s[i] = t[i]
  PROVE  s = t
  OBVIOUS

\* A write to the struct is a write to the queue, which loses its oldest item
\* when it is full.
LEMMA WriteRefines ==
  ASSUME IndInv, IndInv', NEW x \in Item, writeItem(x),
         handle' = handle, handle = "live"
  PROVE  Content' = Queue!Push(Content, Capacity, x)
<1>1. /\ Content \in Seq(Item) /\ Len(Content) = itemCount
      /\ \A i \in 1 .. itemCount : Content[i] = buffer[Slot(i - 1)]
  BY ContentFacts DEF IndInv
<1>2. /\ Content' \in Seq(Item) /\ Len(Content') = itemCount'
      /\ \A i \in 1 .. itemCount' : Content'[i] = buffer'[Slot(i - 1)']
  <2>1. TypeOK' /\ HeldAreWritten' /\ handle' = "live"
    BY DEF IndInv
  <2>2. itemCount' \in Nat
    BY <2>1, CapacityAssumption DEF TypeOK
  <2>3. \A i \in 1 .. itemCount' : buffer'[Slot(i - 1)'] \in Item
    <3>1. \A j \in 0 .. itemCount' - 1 : buffer'[Slot(j)'] \in Item
      BY <2>1 DEF HeldAreWritten
    <3>2. \A n \in Nat : \A i \in 1 .. n : i - 1 \in 0 .. n - 1
      OBVIOUS
    <3>3. QED
      BY <2>2, <3>1, <3>2
  <2>4. Content' = [i \in 1 .. itemCount' |-> buffer'[Slot(i - 1)']]
    BY <2>1 DEF Content
  <2>5. QED
    BY <2>2, <2>3, <2>4
<1>3. TypeOK /\ itemCount \in 0 .. Capacity /\ Capacity \in Nat \ {0}
  BY CapacityAssumption DEF IndInv, TypeOK
<1>4. CASE itemCount < Capacity
  <2>1. /\ itemCount' = itemCount + 1
        /\ \A i \in 0 .. Capacity : Slot(i)' = Slot(i)
        /\ buffer' = [buffer EXCEPT ![Slot(itemCount)] = x]
    BY <1>3, <1>4, WriteEffect DEF Slot
  <2>2. \A i \in 1 .. itemCount : Content'[i] = Content[i]
    BY <1>1, <1>2, <1>3, <1>4, <2>1, SlotFacts DEF TypeOK
  <2>3. Content'[itemCount + 1] = x
    BY <1>1, <1>2, <1>3, <1>4, <2>1, SlotFacts DEF TypeOK
  <2>4. Content' = Append(Content, x)
    BY <1>1, <1>2, <1>3, <2>1, <2>2, <2>3
  <2>5. QED
    BY <1>1, <1>4, <2>4 DEF Queue!Push
<1>5. CASE itemCount = Capacity
  <2>1. /\ itemCount' = itemCount
        /\ \A i \in 0 .. Capacity - 1 : Slot(i)' = Slot(i + 1)
        /\ buffer' = [buffer EXCEPT ![readOffset] = x]
    <3>1. readOffset' = Slot(1) /\ itemCount' = itemCount
      BY <1>3, <1>5, WriteEffect
    <3>2. buffer' = [buffer EXCEPT ![readOffset] = x]
      BY <1>3, <1>5, WriteEffect, SlotFacts
    <3>3. \A i \in 0 .. Capacity - 1 : Slot(i)' = Slot(i + 1)
      BY <3>1, <1>3, <1>5 DEF Slot, TypeOK, Slots
    <3>4. QED
      BY <3>1, <3>2, <3>3
  <2>2. \A i \in 1 .. itemCount - 1 : Content'[i] = Content[i + 1]
    <3> SUFFICES ASSUME NEW i \in 1 .. itemCount - 1
                 PROVE  Content'[i] = Content[i + 1]
      OBVIOUS
    <3>1. Slot(i) # readOffset /\ Slot(i) \in Slots
      BY <1>3, <1>5, SlotFacts
    <3>2. Slot(i - 1)' = Slot(i)
      BY <1>3, <1>5, <2>1
    <3>3. Content'[i] = buffer'[Slot(i)] /\ Content[i + 1] = buffer[Slot(i)]
      BY <1>1, <1>2, <1>3, <2>1, <3>2
    <3>4. QED
      BY <3>1, <3>3, <2>1, <1>3 DEF TypeOK
  <2>3. Content'[itemCount] = x
    <3>1. Slot(itemCount - 1)' = readOffset /\ readOffset \in Slots
      BY <1>3, <1>5, <2>1, SlotFacts DEF TypeOK
    <3>2. Content'[itemCount] = buffer'[readOffset]
      BY <1>2, <1>3, <1>5, <2>1, <3>1
    <3>3. QED
      BY <3>1, <3>2, <2>1, <1>3 DEF TypeOK
  <2>4. Content' = Append(Tail(Content), x)
    <3>1. /\ Tail(Content) \in Seq(Item) /\ Len(Tail(Content)) = itemCount - 1
          /\ \A i \in 1 .. itemCount - 1 : Tail(Content)[i] = Content[i + 1]
      BY <1>1, <1>3, <1>5
    <3>2. QED
      BY <1>2, <1>3, <1>5, <2>1, <2>2, <2>3, <3>1
  <2>5. QED
    BY <1>1, <1>5, <1>3, <2>4 DEF Queue!Push
<1>6. QED
  BY <1>3, <1>4, <1>5

\* A read hands out the head of the content and leaves its tail.
LEMMA ReadContent ==
  ASSUME IndInv, IndInv', NEW o, readItem(o),
         handle' = handle, handle = "live", itemCount >= 1
  PROVE  /\ Content \in Seq(Item) /\ Content # <<>>
         /\ Content' = Tail(Content) /\ out' = Append(o, Head(Content))
<1>1. /\ Content \in Seq(Item) /\ Len(Content) = itemCount
      /\ \A i \in 1 .. itemCount : Content[i] = buffer[Slot(i - 1)]
  BY ContentFacts DEF IndInv
<1>2. TypeOK /\ itemCount \in 1 .. Capacity /\ Capacity \in Nat \ {0}
  BY CapacityAssumption DEF IndInv, TypeOK
<1>3. itemCount' = itemCount - 1 /\ buffer' = buffer
  BY DEF readItem
<1>4. \A i \in 0 .. itemCount - 2 : Slot(i)' = Slot(i + 1)
  BY <1>2 DEF readItem, Slot, TypeOK, Slots
<1>5. Content' = [i \in 1 .. itemCount - 1 |-> buffer[Slot(i)]]
  <2>1. Content' = [i \in 1 .. itemCount' |-> buffer'[Slot(i - 1)']]
    BY DEF Content
  <2>2. \A i \in 1 .. itemCount - 1 : Slot(i - 1)' = Slot(i)
    BY <1>2, <1>4
  <2>3. QED
    BY <2>1, <2>2, <1>3
<1>6. Content' = Tail(Content)
  <2>1. /\ Tail(Content) \in Seq(Item) /\ Len(Tail(Content)) = itemCount - 1
        /\ \A i \in 1 .. itemCount - 1 : Tail(Content)[i] = Content[i + 1]
    BY <1>1, <1>2
  <2>2. \A i \in 1 .. itemCount - 1 : Content[i + 1] = buffer[Slot(i)]
    BY <1>1, <1>2
  <2>3. Tail(Content) = [i \in 1 .. itemCount - 1 |-> buffer[Slot(i)]]
    <3> DEFINE f == [i \in 1 .. itemCount - 1 |-> buffer[Slot(i)]]
    <3>1. \A i \in 1 .. itemCount - 1 : buffer[Slot(i)] \in Item
      BY <2>2, <1>1, <1>2
    <3>2. f \in Seq(Item) /\ Len(f) = itemCount - 1
      BY <3>1, <1>2
    <3>3. \A i \in 1 .. itemCount - 1 : f[i] = Tail(Content)[i]
      BY <2>1, <2>2
    <3> HIDE DEF f
    <3>4. f = Tail(Content)
      BY <2>1, <3>2, <3>3, SameItems
    <3>5. QED
      BY <3>4 DEF f
  <2>4. QED
    BY <2>3, <1>5
<1>7. Content # <<>> /\ Head(Content) = buffer[readOffset]
  BY <1>1, <1>2, SlotFacts
<1>8. QED
  BY <1>1, <1>6, <1>7 DEF readItem

\* A read of the struct takes the head of the queue.
LEMMA ReadRefines ==
  ASSUME IndInv, IndInv', NEW o \in {<<>>, out}, readItem(o),
         handle' = handle, handle = "live", itemCount >= 1
  PROVE  Queue!Read
<1>1. /\ Content # <<>> /\ Content' = Tail(Content)
      /\ out' = Append(o, Head(Content))
  BY ReadContent
<1>2. Append(<<>>, Head(Content)) = <<Head(Content)>>
  OBVIOUS
<1>3. QED
  BY <1>1, <1>2 DEF Queue!Read, Queue!Deliver

\* Every step of circbuf.c is a step of the queue or leaves it alone.
LEMMA RefinementStep ==
  IndInv /\ IndInv' /\ [Next]_vars => [Queue!Next]_(Queue!vars)
<1> SUFFICES ASSUME IndInv, IndInv', [Next]_vars
             PROVE  [Queue!Next]_(Queue!vars)
  OBVIOUS
<1>u. UNCHANGED <<handle, struct>> => Content' = Content
  BY DEF Content, struct, Slot
<1>q. /\ Content' = <<>> /\ out' = out => Queue!Next
      /\ Content' = Content /\ out' = <<>> => Queue!Next
      /\ Content' = Content /\ out' = out => UNCHANGED Queue!vars
      /\ \A x \in Item : Content' = Queue!Push(Content, Capacity, x) /\ out' = out
                            => Queue!Next
      /\ Queue!Read => Queue!Next
      /\ Queue!Peek => Queue!Next
  BY DEF Queue!Next, Queue!Clear, Queue!NoItem, Queue!Write, Queue!vars
<1>p. ASSUME NEW o \in {<<>>, out}, peekItem(o), handle' = handle,
             handle = "live", itemCount >= 1
      PROVE  Queue!Peek
  <2>1. /\ Content \in Seq(Item) /\ Len(Content) = itemCount
        /\ \A i \in 1 .. itemCount : Content[i] = buffer[Slot(i - 1)]
    BY <1>p, ContentFacts DEF IndInv
  <2>2. Content # <<>> /\ Head(Content) = buffer[readOffset]
    BY <2>1, <1>p, SlotFacts, CapacityAssumption DEF IndInv, TypeOK
  <2>3. out' \in {<<buffer[readOffset]>>, Append(out, buffer[readOffset])}
    <3>1. out' = Append(o, buffer[readOffset])
      BY <1>p DEF peekItem
    <3>2. Append(<<>>, buffer[readOffset]) = <<buffer[readOffset]>>
      OBVIOUS
    <3>3. QED
      BY <3>1, <3>2, <1>p
  <2>4. Content' = Content
    BY <1>p, <1>u DEF peekItem
  <2>5. QED
    BY <2>2, <2>3, <2>4 DEF Queue!Peek, Queue!Deliver
<1>1. CASE CircularBuffer_create
  <2>1. Content' = <<>> /\ out' = out
    BY <1>1 DEF CircularBuffer_create, Content
  <2>2. QED
    BY <2>1, <1>q
<1>2. CASE CircularBuffer_destroy
  <2>1. Content' = <<>> /\ out' = out
    BY <1>2 DEF CircularBuffer_destroy, Content
  <2>2. QED
    BY <2>1, <1>q
<1>3. CASE CircularBuffer_clear
  <2>1. Content' = <<>> /\ out' = out
    BY <1>3 DEF CircularBuffer_clear, Return, Content
  <2>2. QED
    BY <2>1, <1>q
<1>4. ASSUME NEW ptr \in Item \cup {NULL}, \/ CircularBuffer_write(ptr)
                                           \/ CircularBuffer_tryWrite(ptr)
      PROVE  [Queue!Next]_(Queue!vars)
  <2>1. handle' = handle /\ out' = out
    BY <1>4 DEF CircularBuffer_write, CircularBuffer_tryWrite, Return
  <2>2. CASE UNCHANGED struct
    BY <2>1, <2>2, <1>u, <1>q
  <2>3. CASE ~UNCHANGED struct
    <3>1. ptr \in Item /\ writeItem(ptr) /\ handle = "live"
      BY <1>4, <2>3 DEF CircularBuffer_write, CircularBuffer_tryWrite, Valid
    <3>2. QED
      BY <2>1, <3>1, <1>q, WriteRefines
  <2>4. QED
    BY <2>2, <2>3
<1>5. CASE CircularBuffer_read
  <2>1. handle' = handle
    BY <1>5 DEF CircularBuffer_read, Return
  <2>2. CASE handle = "live" /\ itemCount >= 1
    <3>1. readItem(<<>>)
      BY <1>5, <2>2 DEF CircularBuffer_read
    <3>2. QED
      BY <2>1, <2>2, <3>1, <1>q, ReadRefines
  <2>3. CASE ~(handle = "live" /\ itemCount >= 1)
    <3>1. out' = <<>> /\ UNCHANGED struct
      BY <1>5, <2>3 DEF CircularBuffer_read
    <3>2. QED
      BY <2>1, <3>1, <1>u, <1>q
  <2>4. QED
    BY <2>2, <2>3
<1>6. CASE CircularBuffer_peek
  <2>1. handle' = handle
    BY <1>6 DEF CircularBuffer_peek, Return
  <2>2. CASE handle = "live" /\ itemCount >= 1
    <3>1. peekItem(<<>>)
      BY <1>6, <2>2 DEF CircularBuffer_peek
    <3>2. QED
      BY <2>1, <2>2, <3>1, <1>q, <1>p
  <2>3. CASE ~(handle = "live" /\ itemCount >= 1)
    <3>1. out' = <<>> /\ UNCHANGED struct
      BY <1>6, <2>3 DEF CircularBuffer_peek
    <3>2. QED
      BY <2>1, <3>1, <1>u, <1>q
  <2>4. QED
    BY <2>2, <2>3
<1>7. ASSUME NEW in \in Batches, \/ CircularBuffer_writeMany(in)
                                 \/ CircularBuffer_tryWriteMany(in)
      PROVE  [Queue!Next]_(Queue!vars)
  <2>1. UNCHANGED <<handle, struct, out>>
    BY <1>7 DEF CircularBuffer_writeMany, CircularBuffer_tryWriteMany, Start,
                Return
  <2>2. QED
    BY <2>1, <1>u, <1>q
<1>8. ASSUME NEW n \in 0 .. MaxBatch, \/ CircularBuffer_readMany(n)
                                      \/ CircularBuffer_peekMany(n)
      PROVE  [Queue!Next]_(Queue!vars)
  <2>1. UNCHANGED <<handle, struct>> /\ out' = <<>>
    BY <1>8 DEF CircularBuffer_readMany, CircularBuffer_peekMany, Start, Return
  <2>2. QED
    BY <2>1, <1>u, <1>q
<1>9. CASE writeManyStep
  <2>1. /\ handle' = handle /\ handle = "live" /\ out' = out
        /\ items[done + 1] \in Item /\ writeItem(items[done + 1])
    BY <1>9 DEF writeManyStep, Iterate, LoopInBounds, TypeOK, IndInv
  <2>2. QED
    BY <2>1, <1>q, WriteRefines
<1>10. CASE readManyStep
  <2>1. handle' = handle /\ handle = "live" /\ readItem(out) /\ itemCount >= 1
    BY <1>10 DEF readManyStep, Iterate, LoopInBounds, IndInv
  <2>2. QED
    BY <2>1, <1>q, ReadRefines
<1>11. CASE peekManyStep
  <2>1. handle' = handle /\ handle = "live" /\ peekItem(out) /\ itemCount >= 1
    BY <1>11 DEF peekManyStep, Iterate, LoopInBounds, IndInv
  <2>2. QED
    BY <2>1, <1>q, <1>p
<1>12. CASE manyReturn
  <2>1. UNCHANGED <<handle, struct, out>>
    BY <1>12 DEF manyReturn
  <2>2. QED
    BY <2>1, <1>u, <1>q
<1>13. CASE UNCHANGED vars
  <2>1. UNCHANGED <<handle, struct, out>>
    BY <1>13 DEF vars, frame
  <2>2. QED
    BY <2>1, <1>u, <1>q
<1>14. QED
  BY <1>1, <1>2, <1>3, <1>4, <1>5, <1>6, <1>7, <1>8, <1>9, <1>10, <1>11,
     <1>12, <1>13
     DEF Next

\* The struct of circbuf.c implements the overwriting first-in first-out
\* queue, for every capacity and every sequence of calls.
THEOREM QueueRefinement == Spec => ImplementsQueue
<1>1. Init => Queue!Init
  BY DEF Init, Queue!Init, Content
<1>2. QED
  BY <1>1, InductiveInit, InductiveStep, RefinementStep, PTL
     DEF Spec, ImplementsQueue, Queue!Spec

-----------------------------------------------------------------------------
(* What a whole call does.                                                 *)

\* The first n items of s and one more.
LEMMA OneMore ==
  ASSUME NEW S, NEW s \in Seq(S), NEW n \in Nat, n < Len(s)
  PROVE  /\ SubSeq(s, 1, n) \in Seq(S) /\ Len(SubSeq(s, 1, n)) = n
         /\ s[n + 1] \in S
         /\ SubSeq(s, 1, n + 1) = Append(SubSeq(s, 1, n), s[n + 1])
<1>1. Len(s) \in Nat /\ \A i \in 1 .. Len(s) : s[i] \in S
  OBVIOUS
<1>2. /\ SubSeq(s, 1, n) \in Seq(S) /\ Len(SubSeq(s, 1, n)) = n
      /\ \A i \in 1 .. n : SubSeq(s, 1, n)[i] = s[i]
  BY <1>1, SubSeqProperties
<1>3. /\ SubSeq(s, 1, n + 1) \in Seq(S) /\ Len(SubSeq(s, 1, n + 1)) = n + 1
      /\ \A i \in 1 .. n + 1 : SubSeq(s, 1, n + 1)[i] = s[i]
  BY <1>1, SubSeqProperties
<1>4. s[n + 1] \in S
  BY <1>1
<1>5. /\ Append(SubSeq(s, 1, n), s[n + 1]) \in Seq(S)
      /\ Len(Append(SubSeq(s, 1, n), s[n + 1])) = n + 1
      /\ \A i \in 1 .. n + 1 : Append(SubSeq(s, 1, n), s[n + 1])[i] = s[i]
  BY <1>2, <1>4, AppendProperties
<1>6. QED
  BY <1>2, <1>3, <1>4, <1>5, SeqEqual

\* The items of s after the first n, without the next one.
LEMMA OneLess ==
  ASSUME NEW S, NEW s \in Seq(S), NEW n \in Nat, n < Len(s)
  PROVE  /\ Head(SubSeq(s, n + 1, Len(s))) = s[n + 1]
         /\ Tail(SubSeq(s, n + 1, Len(s))) = SubSeq(s, n + 2, Len(s))
<1>1. n + 1 \in 1 .. Len(s) /\ Len(s) \in n + 1 .. Len(s) /\ (n + 1) + 1 = n + 2
  OBVIOUS
<1>2. QED
  BY <1>1, HeadTailOfSubSeq

\* What follows the first n items of s is nothing only if there are no more.
LEMMA NothingLeft ==
  ASSUME NEW S, NEW s \in Seq(S), NEW n \in Nat, n <= Len(s),
         SubSeq(s, n + 1, Len(s)) = <<>>
  PROVE  n = Len(s)
<1>1. Len(s) \in Nat /\ \A i \in n + 1 .. Len(s) : s[i] \in S
  OBVIOUS
<1>2. Len(SubSeq(s, n + 1, Len(s))) = IF n + 1 <= Len(s) THEN Len(s) - (n + 1) + 1 ELSE 0
  BY <1>1, SubSeqProperties
<1> DEFINE rest == SubSeq(s, n + 1, Len(s))
<1>3. Len(rest) = 0
  <2>1. rest = <<>>
    OBVIOUS
  <2> HIDE DEF rest
  <2>2. QED
    BY <2>1, EmptySeq
<1>4. QED
  BY <1>1, <1>2, <1>3

\* The last items of a sequence.
LEMMA LastItemsFacts ==
  ASSUME NEW S, NEW s \in Seq(S), NEW cap \in Nat,
         NEW k \in Nat, k = Smaller(Len(s), cap)
  PROVE  /\ LastItems(s, cap) \in Seq(S) /\ Len(LastItems(s, cap)) = k
         /\ k \in Nat /\ k <= Len(s)
         /\ \A i \in 1 .. k : LastItems(s, cap)[i] = s[Len(s) - k + i]
<1>1. /\ Len(s) \in Nat /\ \A i \in 1 .. Len(s) : s[i] \in S
      /\ k \in Nat /\ k <= Len(s) /\ k <= cap
  BY DEF Smaller
<1>2. CASE Len(s) <= cap
  <2>1. LastItems(s, cap) = s /\ k = Len(s)
    BY <1>2 DEF LastItems, Smaller
  <2>2. QED
    BY <1>1, <2>1
<1>3. CASE Len(s) > cap
  <2> DEFINE m == Len(s) - cap + 1
  <2>1. LastItems(s, cap) = SubSeq(s, m, Len(s)) /\ k = cap
    BY <1>1, <1>3 DEF LastItems, Smaller
  <2>2. m \in Int /\ m >= 1 /\ Len(s) - m + 1 = k
    BY <1>1, <1>3, <2>1
  <2>3. \A i \in m .. Len(s) : s[i] \in S
    BY <1>1, <2>2
  <2> HIDE DEF m
  <2>4. /\ SubSeq(s, m, Len(s)) \in Seq(S)
        /\ Len(SubSeq(s, m, Len(s))) = IF m <= Len(s) THEN Len(s) - m + 1 ELSE 0
        /\ \A i \in 1 .. Len(s) - m + 1 : SubSeq(s, m, Len(s))[i] = s[m + i - 1]
    BY <1>1, <2>2, <2>3, SubSeqProperties
  <2>5. Len(SubSeq(s, m, Len(s))) = k
    BY <1>1, <2>2, <2>4
  <2>6. \A i \in 1 .. k : m + i - 1 = Len(s) - k + i
    BY <1>1, <2>2
  <2>7. QED
    BY <1>1, <2>1, <2>2, <2>4, <2>5, <2>6
<1>4. QED
  BY <1>1, <1>2, <1>3

\* A write that may replace the oldest item keeps the newest ones.
LEMMA PushKeepsNewest ==
  ASSUME NEW S, NEW s \in Seq(S), NEW cap \in Nat \ {0}, NEW x \in S
  PROVE  Queue!Push(LastItems(s, cap), cap, x) = LastItems(Append(s, x), cap)
<1> DEFINE n == Len(s)
           t == Append(s, x)
           last == LastItems(s, cap)
           next == LastItems(t, cap)
<1>1. n \in Nat /\ t \in Seq(S) /\ Len(t) = n + 1
      /\ (\A i \in 1 .. n : t[i] = s[i]) /\ t[n + 1] = x
  BY AppendProperties
<1>2. CASE n < cap
  <2>1. last = s /\ next = t
    BY <1>1, <1>2 DEF LastItems
  <2>2. QED
    BY <1>2, <2>1 DEF Queue!Push
<1>3. CASE n >= cap
  <2>1. cap \in Nat /\ cap = Smaller(Len(s), cap) /\ cap = Smaller(Len(t), cap)
    BY <1>1, <1>3 DEF Smaller
  <2>2. /\ last \in Seq(S) /\ Len(last) = cap
        /\ \A i \in 1 .. cap : last[i] = s[n - cap + i]
    BY <2>1, LastItemsFacts
  <2> HIDE DEF t
  <2>3. /\ next \in Seq(S) /\ Len(next) = cap
        /\ \A i \in 1 .. cap : next[i] = t[Len(t) - cap + i]
    <3>1. t \in Seq(S)
      BY <1>1
    <3>2. QED
      BY <2>1, <3>1, LastItemsFacts
  <2> HIDE DEF last, next, n
  <2>4. /\ Tail(last) \in Seq(S) /\ Len(Tail(last)) = cap - 1
        /\ \A i \in 1 .. cap - 1 : Tail(last)[i] = last[i + 1]
    BY <2>2
  <2>5. /\ Append(Tail(last), x) \in Seq(S) /\ Len(Append(Tail(last), x)) = cap
        /\ \A i \in 1 .. cap - 1 : Append(Tail(last), x)[i] = last[i + 1]
        /\ Append(Tail(last), x)[cap] = x
    BY <2>4, AppendProperties
  <2>6. \A i \in 1 .. cap : Append(Tail(last), x)[i] = next[i]
    <3>1. ASSUME NEW i \in 1 .. cap - 1
          PROVE  Append(Tail(last), x)[i] = next[i]
      <4>1. /\ Append(Tail(last), x)[i] = s[n - cap + (i + 1)]
            /\ next[i] = t[n + 1 - cap + i]
        BY <1>1, <2>2, <2>3, <2>5
      <4>2. n - cap + (i + 1) = n + 1 - cap + i /\ n + 1 - cap + i \in 1 .. n
        BY <1>1, <1>3
      <4>3. QED
        BY <1>1, <4>1, <4>2
    <3>2. Append(Tail(last), x)[cap] = next[cap]
      <4>1. next[cap] = t[n + 1 - cap + cap] /\ n + 1 - cap + cap = n + 1
        BY <1>1, <2>3
      <4>2. QED
        BY <1>1, <2>5, <4>1
    <3>3. \A i \in 1 .. cap : i \in 1 .. cap - 1 \/ i = cap
      BY <2>1
    <3>4. QED
      BY <3>1, <3>2, <3>3
  <2>7. Append(Tail(last), x) = next
    BY <2>3, <2>5, <2>6, SeqEqual
  <2>8. Queue!Push(last, cap, x) = Append(Tail(last), x)
    BY <2>2 DEF Queue!Push
  <2>9. QED
    BY <2>7, <2>8 DEF last, next, t
<1>4. QED
  BY <1>1, <1>2, <1>3

-----------------------------------------------------------------------------
\* How far the call made last has come: what it has transferred of its input,
\* and what that has made of the content it found.
AtCallFits == Len(atCall) <= Capacity

WriteProgress ==
  call \in {"write", "writeMany"} /\ handle = "live" =>
    /\ count = Len(items)
    /\ pc = "idle" => done = count
    /\ Content = LastItems(atCall \o SubSeq(items, 1, done), Capacity)

TryWriteProgress ==
  call \in {"tryWrite", "tryWriteMany"} /\ handle = "live" =>
    /\ pc = "loop" => count = Smaller(Len(items), Capacity - Len(atCall))
    /\ pc = "idle" => done = Smaller(Len(items), Capacity - Len(atCall))
    /\ Content = atCall \o SubSeq(items, 1, done)

ReadProgress ==
  call \in {"read", "readMany"} =>
    /\ done <= Len(atCall)
    /\ pc = "idle" => done = Smaller(count, Len(atCall))
    /\ out = SubSeq(atCall, 1, done)
    /\ Content = SubSeq(atCall, done + 1, Len(atCall))

PeekProgress ==
  call = "peek" => /\ pc = "idle"
                   /\ out = SubSeq(atCall, 1, Smaller(1, Len(atCall)))
                   /\ Content = atCall

\* The inductive strengthening of the properties of whole calls.
CallInv == /\ AtCallFits /\ WriteProgress /\ TryWriteProgress /\ ReadProgress
           /\ PeekProgress

\* Only the calls of one kind have to be looked at.
LEMMA OtherCalls ==
  ASSUME AtCallFits'
  PROVE  /\ call' \notin {"write", "writeMany", "tryWrite", "tryWriteMany",
                          "read", "readMany", "peek"} => CallInv'
         /\ call' \in {"write", "writeMany"} /\ WriteProgress' => CallInv'
         /\ call' \in {"tryWrite", "tryWriteMany"} /\ TryWriteProgress' => CallInv'
         /\ call' \in {"read", "readMany"} /\ ReadProgress' => CallInv'
         /\ call' = "peek" /\ PeekProgress' => CallInv'
  BY DEF CallInv, WriteProgress, TryWriteProgress, ReadProgress, PeekProgress

\* A call finds a sequence of at most Capacity items.
LEMMA FoundFits ==
  ASSUME IndInv, NEW f, Enter(f)
  PROVE  /\ atCall' = Content /\ Content \in Seq(Item) /\ call' = f /\ AtCallFits'
         /\ handle = "live" => Len(Content) = itemCount
<1>1. atCall' = Content /\ call' = f
  BY DEF Enter
<1>2. Content \in Seq(Item) /\ (handle = "live" => Len(Content) = itemCount)
  BY ContentFacts DEF IndInv
<1>3. Len(Content) <= Capacity
  <2>1. CASE handle = "live"
    BY <1>2, <2>1, CapacityAssumption DEF IndInv, TypeOK
  <2>2. CASE handle # "live"
    <3>1. Content = <<>>
      BY <2>2 DEF Content
    <3>2. Len(<<>>) = 0
      BY EmptySeq
    <3>3. QED
      BY <3>1, <3>2, CapacityAssumption
  <2>3. QED
    BY <2>1, <2>2
<1>4. QED
  BY <1>1, <1>2, <1>3 DEF AtCallFits

\* A call that has transferred nothing yet.
LEMMA NothingYet ==
  ASSUME NEW s \in Seq(Item), NEW t \in Seq(Item), Len(s) <= Capacity
  PROVE  /\ SubSeq(t, 1, 0) = <<>> /\ s \o SubSeq(t, 1, 0) = s
         /\ LastItems(s, Capacity) = s
         /\ SubSeq(s, 0 + 1, Len(s)) = s
<1>1. SubSeq(t, 1, 0) = <<>>
  BY SubSeqEmpty
<1>2. s \o <<>> = s
  BY ConcatEmptySeq
<1>3. SubSeq(s, 1, Len(s)) = s
  BY SubSeqFull
<1>4. QED
  BY <1>1, <1>2, <1>3 DEF LastItems

\* A write of one item continues what a call has written.
LEMMA WriteContinues ==
  ASSUME NEW s \in Seq(Item), NEW in \in Seq(Item), NEW n \in Nat, n < Len(in)
  PROVE  /\ in[n + 1] \in Item
         /\ s \o SubSeq(in, 1, n) \in Seq(Item)
         /\ Append(s \o SubSeq(in, 1, n), in[n + 1]) = s \o SubSeq(in, 1, n + 1)
         /\ Queue!Push(LastItems(s \o SubSeq(in, 1, n), Capacity), Capacity, in[n + 1])
              = LastItems(s \o SubSeq(in, 1, n + 1), Capacity)
<1> DEFINE first == SubSeq(in, 1, n)
           more == SubSeq(in, 1, n + 1)
           x == in[n + 1]
<1>1. first \in Seq(Item) /\ x \in Item /\ more = Append(first, x)
  BY OneMore
<1> HIDE DEF first, more, x
<1>2. s \o first \in Seq(Item)
  BY <1>1, ConcatProperties
<1>3. Append(s \o first, x) = s \o more
  <2>1. Append(s \o first, x) = s \o Append(first, x)
    BY <1>1
  <2>2. QED
    BY <1>1, <2>1
<1>4. Queue!Push(LastItems(s \o first, Capacity), Capacity, x)
        = LastItems(s \o more, Capacity)
  BY <1>1, <1>2, <1>3, PushKeepsNewest, CapacityAssumption
<1>5. QED
  BY <1>1, <1>2, <1>3, <1>4 DEF first, more, x

\* One item as an input.
LEMMA OneItem ==
  ASSUME NEW x \in Item
  PROVE  <<x>> \in Seq(Item) /\ Len(<<x>>) = 1 /\ <<x>>[1] = x
  OBVIOUS

\* CircularBuffer_write keeps the newest items.
LEMMA WriteCall ==
  ASSUME IndInv, IndInv', NEW ptr \in Item \cup {NULL}, CircularBuffer_write(ptr)
  PROVE  CallInv'
<1>1. Enter("write") /\ handle' = handle /\ pc' = "idle"
  BY DEF CircularBuffer_write, Return
<1>2. /\ atCall' = Content /\ Content \in Seq(Item) /\ call' = "write" /\ AtCallFits'
      /\ Len(Content) <= Capacity
  BY <1>1, FoundFits DEF AtCallFits
<1>3. ASSUME handle = "live"
      PROVE  /\ count' = Len(items') /\ done' = count'
             /\ Content' = LastItems(Content \o SubSeq(items', 1, done'), Capacity)
  <2>1. CASE ptr \in Item
    <3>1. writeItem(ptr) /\ items' = <<ptr>> /\ count' = 1 /\ done' = 1
      BY <1>3, <2>1, ValuesAssumption DEF CircularBuffer_write, Valid, Return
    <3>2. Content' = Queue!Push(Content, Capacity, ptr)
      BY <1>1, <1>3, <2>1, <3>1, WriteRefines
    <3>3. /\ LastItems(Content, Capacity) = Content
          /\ Content \o SubSeq(items', 1, 0) = Content
      BY <1>2, <2>1, <3>1, NothingYet, OneItem
    <3>4. items' \in Seq(Item) /\ Len(items') = 1 /\ items'[1] = ptr
      BY <2>1, <3>1, OneItem
    <3>5. Queue!Push(LastItems(Content \o SubSeq(items', 1, 0), Capacity), Capacity, items'[0 + 1])
            = LastItems(Content \o SubSeq(items', 1, 0 + 1), Capacity)
      BY <1>2, <3>4, WriteContinues
    <3>6. Content' = LastItems(Content \o SubSeq(items', 1, 1), Capacity)
      <4>1. 0 + 1 = 1
        OBVIOUS
      <4>2. QED
        BY <3>2, <3>3, <3>4, <3>5, <4>1
    <3>7. QED
      BY <3>1, <3>4, <3>6
  <2>2. CASE ptr \notin Item
    <3>1. items' = <<>> /\ count' = 0 /\ done' = 0 /\ UNCHANGED struct
      BY <2>2 DEF CircularBuffer_write, Valid, Return
    <3>2. Content' = Content
      BY <1>1, <3>1 DEF Content, struct, Slot
    <3>3. <<>> \in Seq(Item) /\ Len(<<>>) = 0
      BY EmptySeq
    <3>4. QED
      BY <1>2, <3>1, <3>2, <3>3, NothingYet
  <2>3. QED
    BY <2>1, <2>2
<1>4. WriteProgress'
  BY <1>1, <1>2, <1>3 DEF WriteProgress
<1>5. QED
  BY <1>2, <1>4, OtherCalls

\* CircularBuffer_tryWrite loses nothing.
LEMMA TryWriteCall ==
  ASSUME IndInv, IndInv', NEW ptr \in Item \cup {NULL}, CircularBuffer_tryWrite(ptr)
  PROVE  CallInv'
<1>1. Enter("tryWrite") /\ handle' = handle /\ pc' = "idle"
  BY DEF CircularBuffer_tryWrite, Return
<1>2. /\ atCall' = Content /\ Content \in Seq(Item) /\ call' = "tryWrite" /\ AtCallFits'
      /\ Len(Content) <= Capacity /\ Len(Content) \in Nat
      /\ handle = "live" => Len(Content) = itemCount
  BY <1>1, FoundFits DEF AtCallFits
<1>3. ASSUME handle = "live"
      PROVE  /\ done' = Smaller(Len(items'), Capacity - Len(Content))
             /\ Content' = Content \o SubSeq(items', 1, done')
  <2>1. CASE ptr \in Item /\ itemCount < Capacity
    <3>1. writeItem(ptr) /\ items' = <<ptr>> /\ done' = 1
      BY <1>3, <2>1, ValuesAssumption DEF CircularBuffer_tryWrite, Valid, Return
    <3>2. Content' = Append(Content, ptr)
      BY <1>1, <1>2, <1>3, <2>1, <3>1, WriteRefines DEF Queue!Push
    <3>3. Append(Content \o SubSeq(items', 1, 0), items'[0 + 1]) = Content \o SubSeq(items', 1, 0 + 1)
      BY <1>2, <2>1, <3>1, WriteContinues, OneItem
    <3>4. Content \o SubSeq(items', 1, 0) = Content
      BY <1>2, <2>1, <3>1, NothingYet, OneItem
    <3>5. 1 = Smaller(1, Capacity - Len(Content))
      BY <1>2, <1>3, <2>1, CapacityAssumption DEF Smaller
    <3>6. QED
      BY <2>1, <3>1, <3>2, <3>3, <3>4, <3>5, OneItem
  <2>2. CASE ~(ptr \in Item /\ itemCount < Capacity)
    <3>1. /\ items' \in {<<>>, <<ptr>>} /\ done' = 0 /\ UNCHANGED struct
          /\ ptr \in Item \/ items' = <<>>
      BY <2>2 DEF CircularBuffer_tryWrite, Valid, Return
    <3>2. Content' = Content
      BY <1>1, <3>1 DEF Content, struct, Slot
    <3>3. items' \in Seq(Item) /\ Len(items') \in Nat
      BY DEF IndInv, TypeOK
    <3>4. 0 = Smaller(Len(items'), Capacity - Len(Content))
      <4>1. CASE items' = <<>>
        <5>1. Len(items') = 0
          BY <4>1, EmptySeq
        <5>2. QED
          BY <1>2, <5>1, CapacityAssumption DEF Smaller
      <4>2. CASE items' # <<>>
        <5>1. itemCount >= Capacity /\ Len(items') = 1
          BY <2>2, <3>1, <4>2, OneItem, CapacityAssumption DEF IndInv, TypeOK
        <5>2. QED
          BY <1>2, <1>3, <5>1, CapacityAssumption DEF Smaller
      <4>3. QED
        BY <4>1, <4>2
    <3>5. QED
      BY <1>2, <3>1, <3>2, <3>3, <3>4, NothingYet
  <2>3. QED
    BY <2>1, <2>2
<1>4. TryWriteProgress'
  BY <1>1, <1>2, <1>3 DEF TryWriteProgress
<1>5. QED
  BY <1>2, <1>4, OtherCalls

\* CircularBuffer_read takes the oldest item.
LEMMA ReadCall ==
  ASSUME IndInv, IndInv', CircularBuffer_read
  PROVE  CallInv'
<1>1. Enter("read") /\ handle' = handle /\ pc' = "idle" /\ count' = 1
  BY DEF CircularBuffer_read, Return
<1>2. /\ atCall' = Content /\ Content \in Seq(Item) /\ call' = "read" /\ AtCallFits'
      /\ Len(Content) <= Capacity /\ Len(Content) \in Nat
      /\ handle = "live" => Len(Content) = itemCount
  BY <1>1, FoundFits DEF AtCallFits
<1>3. /\ done' = Smaller(1, Len(Content)) /\ done' <= Len(Content)
      /\ out' = SubSeq(Content, 1, done')
      /\ Content' = SubSeq(Content, done' + 1, Len(Content))
  <2>1. CASE handle = "live" /\ itemCount >= 1
    <3>1. readItem(<<>>) /\ done' = 1
      BY <2>1 DEF CircularBuffer_read, Return
    <3>2. /\ Content' = Tail(Content) /\ out' = Append(<<>>, Head(Content))
          /\ Len(Content) >= 1
      BY <1>1, <1>2, <2>1, <3>1, ReadContent
    <3>3. /\ Head(SubSeq(Content, 0 + 1, Len(Content))) = Content[0 + 1]
          /\ Tail(SubSeq(Content, 0 + 1, Len(Content))) = SubSeq(Content, 0 + 2, Len(Content))
      BY <1>2, <3>2, OneLess
    <3>4. SubSeq(Content, 1, 0 + 1) = Append(SubSeq(Content, 1, 0), Content[0 + 1])
      BY <1>2, <3>2, OneMore
    <3>5. SubSeq(Content, 0 + 1, Len(Content)) = Content /\ SubSeq(Content, 1, 0) = <<>>
      BY <1>2, NothingYet
    <3>6. out' = SubSeq(Content, 1, 1) /\ Content' = SubSeq(Content, 2, Len(Content))
      BY <3>2, <3>3, <3>4, <3>5
    <3>7. 1 = Smaller(1, Len(Content))
      BY <1>2, <3>2 DEF Smaller
    <3>8. QED
      BY <3>1, <3>2, <3>6, <3>7
  <2>2. CASE ~(handle = "live" /\ itemCount >= 1)
    <3>1. out' = <<>> /\ done' = 0 /\ UNCHANGED struct
      BY <2>2 DEF CircularBuffer_read, Return
    <3>2. Content' = Content
      BY <1>1, <3>1 DEF Content, struct, Slot
    <3>3. Len(Content) = 0
      <4>1. CASE handle = "live"
        BY <1>2, <2>2, <4>1, CapacityAssumption DEF IndInv, TypeOK
      <4>2. CASE handle # "live"
        <5>1. Content = <<>>
          BY <4>2 DEF Content
        <5>2. QED
          BY <5>1, EmptySeq
      <4>3. QED
        BY <4>1, <4>2
    <3>4. 0 = Smaller(1, Len(Content))
      BY <3>3 DEF Smaller
    <3>5. QED
      BY <1>2, <3>1, <3>2, <3>3, <3>4, NothingYet
  <2>3. QED
    BY <2>1, <2>2
<1>4. ReadProgress'
  BY <1>1, <1>2, <1>3 DEF ReadProgress
<1>5. QED
  BY <1>2, <1>4, OtherCalls

\* CircularBuffer_peek shows the oldest item.
LEMMA PeekCall ==
  ASSUME IndInv, IndInv', CircularBuffer_peek
  PROVE  CallInv'
<1>1. Enter("peek") /\ handle' = handle /\ pc' = "idle" /\ UNCHANGED struct
  BY DEF CircularBuffer_peek, Return, peekItem
<1>2. /\ atCall' = Content /\ Content \in Seq(Item) /\ call' = "peek" /\ AtCallFits'
      /\ Len(Content) <= Capacity /\ Len(Content) \in Nat
      /\ handle = "live" => Len(Content) = itemCount
  BY <1>1, FoundFits DEF AtCallFits
<1>3. Content' = Content
  BY <1>1 DEF Content, struct, Slot
<1>4. out' = SubSeq(Content, 1, Smaller(1, Len(Content)))
  <2>1. CASE handle = "live" /\ itemCount >= 1
    <3>1. out' = Append(<<>>, buffer[readOffset])
      BY <2>1 DEF CircularBuffer_peek, peekItem
    <3>2. buffer[readOffset] = Content[0 + 1]
      BY <2>1, ContentFacts, SlotFacts, CapacityAssumption DEF IndInv, TypeOK
    <3>3. SubSeq(Content, 1, 0 + 1) = Append(SubSeq(Content, 1, 0), Content[0 + 1])
      BY <1>2, <2>1, OneMore
    <3>4. SubSeq(Content, 1, 0) = <<>> /\ 1 = Smaller(1, Len(Content))
      BY <1>2, <2>1, NothingYet DEF Smaller
    <3>5. QED
      BY <3>1, <3>2, <3>3, <3>4
  <2>2. CASE ~(handle = "live" /\ itemCount >= 1)
    <3>1. out' = <<>>
      BY <2>2 DEF CircularBuffer_peek
    <3>2. Len(Content) = 0
      <4>1. CASE handle = "live"
        BY <1>2, <2>2, <4>1, CapacityAssumption DEF IndInv, TypeOK
      <4>2. CASE handle # "live"
        <5>1. Content = <<>>
          BY <4>2 DEF Content
        <5>2. QED
          BY <5>1, EmptySeq
      <4>3. QED
        BY <4>1, <4>2
    <3>3. 0 = Smaller(1, Len(Content))
      BY <3>2 DEF Smaller
    <3>4. QED
      BY <1>2, <3>1, <3>3, NothingYet
  <2>3. QED
    BY <2>1, <2>2
<1>5. PeekProgress'
  BY <1>1, <1>2, <1>3, <1>4 DEF PeekProgress
<1>6. QED
  BY <1>2, <1>5, OtherCalls

\* The start of CircularBuffer_writeMany and CircularBuffer_tryWriteMany.
LEMMA WriteManyCall ==
  ASSUME IndInv, IndInv', NEW in \in Batches,
         CircularBuffer_writeMany(in) \/ CircularBuffer_tryWriteMany(in)
  PROVE  CallInv'
<1>1. in \in Seq(Item) /\ Len(in) \in Nat
  BY ValuesAssumption DEF Batches
<1>2. /\ UNCHANGED <<handle, struct>> /\ items' = in /\ done' = 0
      /\ Enter("writeMany") \/ Enter("tryWriteMany")
  BY DEF CircularBuffer_writeMany, CircularBuffer_tryWriteMany, Start, Return
<1>3. Content' = Content
  BY <1>2 DEF Content, struct, Slot
<1>4. /\ atCall' = Content /\ Content \in Seq(Item) /\ AtCallFits'
      /\ Len(Content) <= Capacity /\ Len(Content) \in Nat
      /\ handle = "live" => Len(Content) = itemCount
  BY <1>2, FoundFits DEF AtCallFits
<1>5. /\ Content \o SubSeq(in, 1, 0) = Content
      /\ LastItems(Content, Capacity) = Content
  BY <1>1, <1>4, NothingYet
<1>6. CASE CircularBuffer_writeMany(in)
  <2>1. call' = "writeMany"
    BY <1>6 DEF CircularBuffer_writeMany, Enter
  <2>2. handle = "live" => count' = Len(in) /\ (pc' = "idle" => count' = 0)
    BY <1>1, <1>6 DEF CircularBuffer_writeMany, Start, Return
  <2>3. WriteProgress'
    BY <1>2, <1>3, <1>4, <1>5, <2>1, <2>2 DEF WriteProgress
  <2>4. QED
    BY <1>4, <2>1, <2>3, OtherCalls
<1>7. CASE CircularBuffer_tryWriteMany(in)
  <2>1. call' = "tryWriteMany"
    BY <1>7 DEF CircularBuffer_tryWriteMany, Enter
  <2>2. handle = "live" =>
          /\ pc' = "loop" => count' = Smaller(Len(in), Capacity - Len(Content))
          /\ pc' = "idle" => 0 = Smaller(Len(in), Capacity - Len(Content))
    <3>1. ASSUME handle = "live"
          PROVE  uint32Min(Len(in), Capacity - itemCount)
                   = Smaller(Len(in), Capacity - Len(Content))
      BY <1>1, <1>4, <3>1, CapacityAssumption DEF uint32Min, Smaller
    <3>2. handle = "live" =>
            /\ pc' = "loop" => count' = uint32Min(Len(in), Capacity - itemCount)
            /\ pc' = "idle" => ~(uint32Min(Len(in), Capacity - itemCount) >= 1)
      BY <1>7 DEF CircularBuffer_tryWriteMany, Start, Return
    <3>3. Smaller(Len(in), Capacity - Len(Content)) \in Nat
      BY <1>1, <1>4, CapacityAssumption DEF Smaller
    <3>4. QED
      BY <3>1, <3>2, <3>3
  <2>3. TryWriteProgress'
    BY <1>2, <1>3, <1>4, <1>5, <2>1, <2>2 DEF TryWriteProgress
  <2>4. QED
    BY <1>4, <2>1, <2>3, OtherCalls
<1>8. QED
  BY <1>6, <1>7

\* The start of CircularBuffer_readMany and CircularBuffer_peekMany.
LEMMA ReadManyCall ==
  ASSUME IndInv, IndInv', NEW n \in 0 .. MaxBatch,
         CircularBuffer_readMany(n) \/ CircularBuffer_peekMany(n)
  PROVE  CallInv'
<1>1. /\ UNCHANGED <<handle, struct>> /\ count' = n /\ done' = 0 /\ out' = <<>>
      /\ Enter("readMany") \/ Enter("peekMany")
      /\ pc' = "idle" => ~(handle = "live" /\ n >= 1)
  BY DEF CircularBuffer_readMany, CircularBuffer_peekMany, Start, Return
<1>2. Content' = Content
  BY <1>1 DEF Content, struct, Slot
<1>3. /\ atCall' = Content /\ Content \in Seq(Item) /\ AtCallFits'
      /\ Len(Content) <= Capacity /\ Len(Content) \in Nat
      /\ call' \in {"readMany", "peekMany"}
  BY <1>1, FoundFits DEF AtCallFits
<1>4. pc' = "idle" => 0 = Smaller(n, Len(Content))
  <2>1. CASE handle = "live"
    BY <1>1, <1>3, <2>1, ValuesAssumption DEF Smaller
  <2>2. CASE handle # "live"
    <3>1. Content = <<>>
      BY <2>2 DEF Content
    <3>2. Len(Content) = 0
      BY <3>1, EmptySeq
    <3>3. QED
      BY <3>2, ValuesAssumption DEF Smaller
  <2>3. QED
    BY <2>1, <2>2
<1>5. /\ SubSeq(Content, 1, 0) = <<>> /\ SubSeq(Content, 0 + 1, Len(Content)) = Content
  BY <1>3, NothingYet
<1>6. ReadProgress'
  BY <1>1, <1>2, <1>3, <1>4, <1>5 DEF ReadProgress
<1>7. QED
  BY <1>3, <1>6, OtherCalls

\* An iteration that writes.
LEMMA WriteIteration ==
  ASSUME IndInv, IndInv', CallInv, writeManyStep
  PROVE  CallInv'
<1>1. /\ pc = "loop" /\ call \in {"writeMany", "tryWriteMany"} /\ done < count
      /\ done' = done + 1
      /\ UNCHANGED <<handle, call, pc, items, count, atCall>>
      /\ writeItem(items[done + 1])
  BY DEF writeManyStep, Iterate
<1>2. /\ handle = "live" /\ count <= Len(items) /\ done \in Nat /\ done < Len(items)
      /\ items \in Seq(Item) /\ atCall \in Seq(Item) /\ Len(items) \in Nat
  BY <1>1 DEF IndInv, TypeOK, LoopInBounds
<1>3. AtCallFits'
  BY <1>1 DEF CallInv, AtCallFits
<1>4. /\ items[done + 1] \in Item
      /\ Append(atCall \o SubSeq(items, 1, done), items[done + 1])
           = atCall \o SubSeq(items, 1, done + 1)
      /\ Queue!Push(LastItems(atCall \o SubSeq(items, 1, done), Capacity), Capacity, items[done + 1])
           = LastItems(atCall \o SubSeq(items, 1, done + 1), Capacity)
  BY <1>2, WriteContinues
<1>5. Content' = Queue!Push(Content, Capacity, items[done + 1])
  BY <1>1, <1>2, <1>4, WriteRefines
<1>6. CASE call = "writeMany"
  <2>1. /\ count = Len(items)
        /\ Content = LastItems(atCall \o SubSeq(items, 1, done), Capacity)
    BY <1>2, <1>6 DEF CallInv, WriteProgress
  <2>2. Content' = LastItems(atCall \o SubSeq(items, 1, done + 1), Capacity)
    BY <1>4, <1>5, <2>1
  <2>3. WriteProgress'
    BY <1>1, <1>6, <2>1, <2>2 DEF WriteProgress
  <2>4. QED
    BY <1>1, <1>3, <1>6, <2>3, OtherCalls
<1>7. CASE call = "tryWriteMany"
  <2>1. /\ count = Smaller(Len(items), Capacity - Len(atCall))
        /\ Content = atCall \o SubSeq(items, 1, done)
    BY <1>1, <1>2, <1>7 DEF CallInv, TryWriteProgress
  <2>2. Len(Content) < Capacity
    <3>1. Len(atCall) \in Nat /\ SubSeq(items, 1, done) \in Seq(Item)
          /\ Len(SubSeq(items, 1, done)) = done
      BY <1>2, OneMore
    <3>2. Len(Content) = Len(atCall) + done
      BY <1>2, <2>1, <3>1, ConcatProperties
    <3>3. count <= Capacity - Len(atCall)
      BY <1>2, <2>1, <3>1, CapacityAssumption DEF Smaller
    <3>4. QED
      BY <1>1, <1>2, <3>1, <3>2, <3>3, CapacityAssumption DEF IndInv, TypeOK
  <2>3. Content' = atCall \o SubSeq(items, 1, done + 1)
    BY <1>4, <1>5, <2>1, <2>2 DEF Queue!Push
  <2>4. TryWriteProgress'
    BY <1>1, <1>7, <2>1, <2>3 DEF TryWriteProgress
  <2>5. QED
    BY <1>1, <1>3, <1>7, <2>4, OtherCalls
<1>8. QED
  BY <1>1, <1>6, <1>7

\* An iteration that reads.
LEMMA ReadIteration ==
  ASSUME IndInv, IndInv', CallInv, readManyStep
  PROVE  CallInv'
<1>1. /\ pc = "loop" /\ call = "readMany" /\ done < count /\ itemCount >= 1
      /\ done' = done + 1 /\ readItem(out)
      /\ UNCHANGED <<handle, call, pc, items, count, atCall>>
  BY DEF readManyStep, Iterate
<1>2. handle = "live" /\ done \in Nat /\ atCall \in Seq(Item) /\ Len(atCall) \in Nat
  BY <1>1 DEF IndInv, TypeOK, LoopInBounds
<1>3. AtCallFits'
  BY <1>1 DEF CallInv, AtCallFits
<1>4. /\ done <= Len(atCall) /\ out = SubSeq(atCall, 1, done)
      /\ Content = SubSeq(atCall, done + 1, Len(atCall))
  BY <1>1 DEF CallInv, ReadProgress
<1>5. /\ Content # <<>> /\ Content' = Tail(Content) /\ out' = Append(out, Head(Content))
  BY <1>1, <1>2, ReadContent
<1>6. done < Len(atCall)
  <2>1. CASE done = Len(atCall)
    <3>1. SubSeq(atCall, done + 1, Len(atCall)) = <<>>
      BY <1>2, <2>1, SubSeqEmpty
    <3>2. QED
      BY <1>4, <1>5, <3>1
  <2>2. QED
    BY <1>2, <1>4, <2>1
<1>7. /\ Head(Content) = atCall[done + 1]
      /\ Content' = SubSeq(atCall, done + 2, Len(atCall))
  BY <1>2, <1>4, <1>5, <1>6, OneLess
<1>8. out' = SubSeq(atCall, 1, done + 1)
  BY <1>2, <1>4, <1>5, <1>6, <1>7, OneMore
<1>9. (done + 1) + 1 = done + 2 /\ done + 1 <= Len(atCall)
  BY <1>2, <1>6
<1>10. ReadProgress'
  BY <1>1, <1>7, <1>8, <1>9 DEF ReadProgress
<1>11. QED
  BY <1>1, <1>3, <1>10, OtherCalls

\* The end of a loop.
LEMMA ManyReturns ==
  ASSUME IndInv, IndInv', CallInv, manyReturn
  PROVE  CallInv'
<1>1. /\ UNCHANGED <<handle, struct, call, items, count, done, out, atCall>>
      /\ pc = "loop" /\ pc' = "idle"
      /\ done = count \/ (call \in {"readMany", "peekMany"} /\ itemCount < 1)
  BY DEF manyReturn
<1>2. Content' = Content
  BY <1>1 DEF Content, struct, Slot
<1>3. handle = "live" /\ done \in Nat /\ count \in Nat /\ done <= count
      /\ atCall \in Seq(Item) /\ Len(atCall) \in Nat
      /\ itemCount \in Nat /\ Content \in Seq(Item) /\ Len(Content) = itemCount
  BY <1>1, ContentFacts, CapacityAssumption DEF IndInv, TypeOK, LoopInBounds
<1>4. AtCallFits'
  BY <1>1 DEF CallInv, AtCallFits
<1>5. CASE call \in {"write", "writeMany"}
  <2>1. WriteProgress'
    BY <1>1, <1>2, <1>5 DEF CallInv, WriteProgress
  <2>2. QED
    BY <1>1, <1>4, <1>5, <2>1, OtherCalls
<1>6. CASE call \in {"tryWrite", "tryWriteMany"}
  <2>1. TryWriteProgress'
    BY <1>1, <1>2, <1>6 DEF CallInv, TryWriteProgress
  <2>2. QED
    BY <1>1, <1>4, <1>6, <2>1, OtherCalls
<1>7. CASE call \in {"read", "readMany"}
  <2>1. /\ done <= Len(atCall) /\ out = SubSeq(atCall, 1, done)
        /\ Content = SubSeq(atCall, done + 1, Len(atCall))
    BY <1>7 DEF CallInv, ReadProgress
  <2>2. done = Smaller(count, Len(atCall))
    <3>1. CASE done = count
      BY <1>3, <2>1, <3>1 DEF Smaller
    <3>2. CASE itemCount < 1
      <4>1. Content = <<>>
        BY <1>3, <3>2, EmptySeq
      <4>2. done = Len(atCall)
        BY <1>3, <2>1, <4>1, NothingLeft
      <4>3. QED
        BY <1>3, <4>2 DEF Smaller
    <3>3. QED
      BY <1>1, <3>1, <3>2
  <2>3. ReadProgress'
    BY <1>1, <1>2, <2>1, <2>2 DEF ReadProgress
  <2>4. QED
    BY <1>1, <1>4, <1>7, <2>3, OtherCalls
<1>8. CASE call \notin {"write", "writeMany", "tryWrite", "tryWriteMany", "read", "readMany", "peek"}
  BY <1>1, <1>4, <1>8, OtherCalls
<1>9. CASE call = "peek"
  BY <1>1, <1>9 DEF CallInv, PeekProgress
<1>10. QED
  BY <1>5, <1>6, <1>7, <1>8, <1>9

\* The progress of a call is kept by every step.
LEMMA CallStep == IndInv /\ IndInv' /\ CallInv /\ [Next]_vars => CallInv'
<1> SUFFICES ASSUME IndInv, IndInv', CallInv, [Next]_vars PROVE CallInv'
  OBVIOUS
<1>1. CASE CircularBuffer_create
  <2>1. atCall' = <<>> /\ call' = "create" /\ Len(<<>>) = 0
    BY <1>1, EmptySeq DEF CircularBuffer_create
  <2>2. AtCallFits'
    BY <2>1, CapacityAssumption DEF AtCallFits
  <2>3. QED
    BY <2>1, <2>2, OtherCalls
<1>2. CASE CircularBuffer_destroy
  BY <1>2, FoundFits, OtherCalls DEF CircularBuffer_destroy
<1>3. CASE CircularBuffer_clear
  BY <1>3, FoundFits, OtherCalls DEF CircularBuffer_clear
<1>4. CASE \E ptr \in Item \cup {NULL} : \/ CircularBuffer_write(ptr)
                                         \/ CircularBuffer_tryWrite(ptr)
  BY <1>4, WriteCall, TryWriteCall
<1>5. CASE CircularBuffer_read
  BY <1>5, ReadCall
<1>6. CASE CircularBuffer_peek
  BY <1>6, PeekCall
<1>7. CASE \E in \in Batches : \/ CircularBuffer_writeMany(in)
                               \/ CircularBuffer_tryWriteMany(in)
  BY <1>7, WriteManyCall
<1>8. CASE \E n \in 0 .. MaxBatch : \/ CircularBuffer_readMany(n)
                                    \/ CircularBuffer_peekMany(n)
  BY <1>8, ReadManyCall
<1>9. CASE writeManyStep
  BY <1>9, WriteIteration
<1>10. CASE readManyStep
  BY <1>10, ReadIteration
<1>11. CASE peekManyStep
  <2>1. call' = "peekMany" /\ AtCallFits'
    BY <1>11 DEF peekManyStep, Iterate, CallInv, AtCallFits
  <2>2. QED
    BY <2>1, OtherCalls
<1>12. CASE manyReturn
  BY <1>12, ManyReturns
<1>13. CASE UNCHANGED vars
  <2>1. Content' = Content
    BY <1>13 DEF vars, struct, Content, Slot
  <2>2. UNCHANGED <<handle, call, pc, items, count, done, out, atCall>>
    BY <1>13 DEF vars, frame
  <2>3. QED
    BY <2>1, <2>2 DEF CallInv, AtCallFits, WriteProgress, TryWriteProgress, ReadProgress, PeekProgress
<1>14. QED
  BY <1>1, <1>2, <1>3, <1>4, <1>5, <1>6, <1>7, <1>8, <1>9, <1>10, <1>11, <1>12, <1>13
     DEF Next

\* The progress of a call is an invariant.
LEMMA CallInvariance == Spec => [](IndInv /\ CallInv)
<1>1. Init => CallInv
  <2> SUFFICES ASSUME Init PROVE CallInv
    OBVIOUS
  <2>1. atCall = <<>> /\ call = "none" /\ Len(<<>>) = 0
    BY EmptySeq DEF Init
  <2>2. QED
    BY <2>1, CapacityAssumption
       DEF CallInv, AtCallFits, WriteProgress, TryWriteProgress, ReadProgress, PeekProgress
<1>2. QED
  BY <1>1, InductiveInit, InductiveStep, CallStep, PTL DEF Spec

\* A finished read hands out exactly the oldest items and leaves the others,
\* for every capacity and however many items are asked for; a peek hands out
\* the oldest item, if there is one, and changes nothing.
THEOREM ReadsOldest == Spec => []HandsOutOldest
<1>1. CallInv => HandsOutOldest
  BY DEF CallInv, ReadProgress, PeekProgress, HandsOutOldest
<1>2. QED
  BY <1>1, CallInvariance, PTL

\* After a finished write the buffer holds the newest of all items it was given,
\* for every capacity and inputs of every length, longer than the buffer too.
THEOREM WritesNewest == Spec => []WriteKeepsNewest
<1>1. IndInv /\ CallInv => WriteKeepsNewest
  <2> SUFFICES ASSUME IndInv, CallInv, pc = "idle", call \in {"write", "writeMany"}, handle = "live"
               PROVE  Content = LastItems(atCall \o items, Capacity)
    BY DEF WriteKeepsNewest
  <2>1. /\ done = Len(items)
        /\ Content = LastItems(atCall \o SubSeq(items, 1, done), Capacity)
    BY DEF CallInv, WriteProgress
  <2>2. SubSeq(items, 1, Len(items)) = items
    BY SubSeqFull DEF IndInv, TypeOK
  <2>3. QED
    BY <2>1, <2>2
<1>2. QED
  BY <1>1, CallInvariance, PTL

\* A finished tryWrite has written as many of the first items as there was
\* room for, and lost none.
THEOREM TryWritesFitting == Spec => []TryWriteLosesNothing
<1>1. CallInv => TryWriteLosesNothing
  BY DEF CallInv, TryWriteProgress, TryWriteLosesNothing
<1>2. QED
  BY <1>1, CallInvariance, PTL
=============================================================================
