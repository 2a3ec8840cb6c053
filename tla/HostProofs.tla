----------------------------- MODULE HostProofs -----------------------------
(* What the user of the simulated machine types and sees.                  *)
(*                                                                         *)
(* The console, for every size of its ring and any number of characters:   *)
(* its types, the order of its input, its interrupt line and the wake-ups  *)
(* of its reading thread.                                                  *)
(*                                                                         *)
(* The three screens, for pictures of every size: what is on them is the   *)
(* picture completed last and all of it.                                   *)
EXTENDS MCHost, SequenceTheorems, TLAPS

(* (x + y) % READ_BUF_SIZE takes one turn around the ring at most. *)
LEMMA Turn ==
    ASSUME NEW x \in 0 .. 2 * BufSize - 1
    PROVE  x % BufSize = IF x < BufSize THEN x ELSE x - BufSize
  <1>1. CASE x < BufSize
    BY <1>1, BufSizeAssumption
  <1>2. CASE ~(x < BufSize)
    BY <1>2, BufSizeAssumption
  <1> QED
    BY <1>1, <1>2

(* The variables of the console keep their types: no index leaves the ring *)
(* and the ring never holds more than READ_BUF_SIZE characters.            *)
LEMMA TypeStep == TypeOK /\ [Next]_vars => TypeOK'
  <1> SUFFICES ASSUME TypeOK, [Next]_vars
               PROVE  TypeOK'
    OBVIOUS
  <1> USE BufSizeAssumption, MaxTypedAssumption DEF TypeOK
  <1>1. ASSUME NEW c \in 0 .. MaxTyped, ~Full, Store(c),
               typed' \in 0 .. MaxTyped, pipe' \in Seq(1 .. MaxTyped), ch' \in 0 .. MaxTyped
        PROVE  TypeOK'
    <2>1. (pos + count) % BufSize \in 0 .. BufSize - 1
      OBVIOUS
    <2>2. count' \in 0 .. BufSize
      BY <1>1 DEF Store, Full
    <2> QED
      BY <1>1, <2>1, <2>2 DEF Store
  <1>2. CASE Type
    <2>1. typed' \in 1 .. MaxTyped
      BY <1>2 DEF Type
    <2>2. pipe' \in Seq(1 .. MaxTyped)
      BY <1>2, <2>1 DEF Type
    <2> QED
      BY <1>2, <2>1, <2>2 DEF Type, ring
  <1>3. CASE Poll
    <2>1. ch' \in 0 .. MaxTyped /\ pipe' \in Seq(1 .. MaxTyped) /\ typed' = typed
      BY <1>3 DEF Poll
    <2>2. CASE Full
      BY <1>3, <2>1, <2>2 DEF Poll, WaitForRoom, ring
    <2>3. CASE ~Full
      BY <1>1, <1>3, <2>1, <2>3 DEF Poll
    <2> QED
      BY <2>2, <2>3
  <1>4. CASE Retry
    <2>1. CASE Full
      BY <1>4, <2>1 DEF Retry, WaitForRoom, ring, input
    <2>2. CASE ~Full
      BY <1>1, <1>4, <2>2 DEF Retry, input
    <2> QED
      BY <2>1, <2>2
  <1>5. CASE DeliverRead
    BY <1>5 DEF DeliverRead, ring, input
  <1>6. CASE ReadChar
    <2>1. buf[pos] \in 0 .. MaxTyped /\ taken' \in Seq(0 .. MaxTyped)
      BY <1>6 DEF ReadChar
    <2>2. count' \in 0 .. BufSize /\ pos' \in 0 .. BufSize - 1
      BY <1>6 DEF ReadChar
    <2>3. level' \in BOOLEAN /\ irqDue' \in BOOLEAN /\ readDue' \in BOOLEAN
      BY <1>6 DEF ReadChar, NotifyRead
    <2> QED
      BY <1>6, <2>1, <2>2, <2>3 DEF ReadChar, NotifyRead, input
  <1>7. CASE SetEnabled
    BY <1>7 DEF SetEnabled, ring, input
  <1>8. CASE IrqUpdate
    BY <1>8 DEF IrqUpdate, Active, ring, input
  <1>9. CASE UNCHANGED vars
    BY <1>9 DEF vars, ring, input
  <1> QED
    BY <1>2, <1>3, <1>4, <1>5, <1>6, <1>7, <1>8, <1>9 DEF Next

(* Every variable of the console has its type in every reachable state. *)
THEOREM TypeCorrect == Spec => []TypeOK
  <1>1. Init => TypeOK
    <2> SUFFICES ASSUME Init
                 PROVE  TypeOK
      OBVIOUS
    <2> USE BufSizeAssumption, MaxTypedAssumption DEF Init
    <2>1. buf \in [0 .. BufSize - 1 -> 0 .. MaxTyped]
      OBVIOUS
    <2>2. pipe \in Seq(1 .. MaxTyped) /\ taken \in Seq(0 .. MaxTyped)
      OBVIOUS
    <2>3. typed \in 0 .. MaxTyped /\ ch \in 0 .. MaxTyped
          /\ pos \in 0 .. BufSize - 1 /\ count \in 0 .. BufSize
      OBVIOUS
    <2>4. level \in BOOLEAN /\ enabled \in BOOLEAN /\ line \in BOOLEAN
          /\ irqDue \in BOOLEAN /\ readDue \in BOOLEAN
      OBVIOUS
    <2> QED
      BY <2>1, <2>2, <2>3, <2>4 DEF TypeOK
  <1> QED
    BY <1>1, TypeStep, PTL DEF Spec

(* irq_line follows the registers: with irq_update_thread at rest it is up *)
(* exactly when there is a character and the interrupt is enabled.         *)
THEOREM LineFollows == Spec => []LineIsRight
  <1>1. Init => LineIsRight
    <2> SUFFICES ASSUME Init
                 PROVE  LineIsRight
      OBVIOUS
    <2>1. (count > 0) = FALSE /\ (count > 0 /\ enabled) = FALSE
      BY DEF Init
    <2>2. level = FALSE /\ line = FALSE
      BY DEF Init
    <2> QED
      BY <2>1, <2>2, Zenon DEF LineIsRight
  <1>2. TypeOK /\ LineIsRight /\ [Next]_vars => LineIsRight'
    <2> SUFFICES ASSUME TypeOK, LineIsRight, [Next]_vars
                 PROVE  LineIsRight'
      OBVIOUS
    <2> USE BufSizeAssumption DEF TypeOK, LineIsRight
    <2>1. CASE Type
      BY <2>1 DEF Type, ring
    <2>2. ASSUME NEW c, Store(c)
          PROVE  LineIsRight'
      <3>1. level' = TRUE /\ irqDue' = TRUE /\ count' > 0
        BY <2>2 DEF Store
      <3> QED
        BY <3>1
    <2>3. CASE WaitForRoom
      BY <2>3 DEF WaitForRoom, ring
    <2>4. CASE Poll \/ Retry
      BY <2>2, <2>3, <2>4 DEF Poll, Retry
    <2>5. CASE DeliverRead
      BY <2>5 DEF DeliverRead, ring
    <2>6. CASE ReadChar
      <3>1. CASE count' = 0
        <4>1. level' = FALSE
          BY <2>6, <3>1, Zenon DEF ReadChar, Lower
        <4>2. irqDue' = TRUE
          BY <2>6, <3>1, Zenon DEF ReadChar, Lower
        <4>3. (count' > 0) = FALSE
          BY <3>1
        <4> QED
          BY <4>1, <4>2, <4>3, Zenon DEF LineIsRight
      <3>2. CASE count' # 0
        <4>1. count > 0 /\ count' > 0
          BY <2>6, <3>2 DEF ReadChar
        <4>2. level' = level /\ irqDue' = irqDue /\ line' = line /\ enabled' = enabled
          BY <2>6, <3>2 DEF ReadChar, Lower
        <4> QED
          BY <4>1, <4>2
      <3> QED
        BY <3>1, <3>2
    <2>7. CASE SetEnabled
      BY <2>7 DEF SetEnabled, ring
    <2>8. CASE IrqUpdate
      BY <2>8 DEF IrqUpdate, Active, ring
    <2>9. CASE UNCHANGED vars
      BY <2>9 DEF vars, ring
    <2> QED
      BY <2>1, <2>4, <2>5, <2>6, <2>7, <2>8, <2>9 DEF Next
  <1> QED
    BY <1>1, <1>2, TypeCorrect, PTL DEF Spec

(* read_thread never sleeps beside a ring with room unless evRead is about *)
(* to wake it.                                                             *)
THEOREM WakeupsAreKept == Spec => []NoLostWakeup
  <1>1. Init => NoLostWakeup
    BY DEF Init, NoLostWakeup
  <1>2. NoLostWakeup /\ [Next]_vars => NoLostWakeup'
    <2> SUFFICES ASSUME NoLostWakeup, [Next]_vars
                 PROVE  NoLostWakeup'
      OBVIOUS
    <2> USE DEF NoLostWakeup
    <2>1. ASSUME NEW c, Store(c)
          PROVE  NoLostWakeup'
      BY <2>1 DEF Store
    <2>2. CASE Full /\ WaitForRoom
      BY <2>2 DEF Full, WaitForRoom, ring
    <2>3. CASE Poll \/ Retry
      BY <2>1, <2>2, <2>3 DEF Poll, Retry
    <2>4. CASE DeliverRead
      BY <2>4 DEF DeliverRead
    <2>5. CASE ReadChar
      BY <2>5 DEF ReadChar, NotifyRead
    <2>6. CASE Type \/ SetEnabled \/ IrqUpdate \/ UNCHANGED vars
      BY <2>6 DEF Type, SetEnabled, IrqUpdate, vars, ring
    <2> QED
      BY <2>3, <2>4, <2>5, <2>6 DEF Next
  <1> QED
    BY <1>1, <1>2, PTL DEF Spec

(* The strengthening of InputInOrder that a step preserves: wherever a     *)
(* character is, its number says how many are before it.                   *)
Taken == Len(taken)
InHand == IF reader = "polling" THEN 0 ELSE 1

Numbered ==
    /\ \A i \in 1 .. Taken : taken[i] = i
    /\ \A k \in 0 .. count - 1 : buf[(pos + k) % BufSize] = Taken + k + 1
    /\ reader # "polling" => ch = Taken + count + 1
    /\ \A i \in 1 .. Len(pipe) : pipe[i] = Taken + count + InHand + i
    /\ typed = Taken + count + InHand + Len(pipe)

(* read_thread's last lines: the character after the last one in the ring  *)
(* goes to the slot after the last one, and disturbs no other slot.        *)
LEMMA StoreNumbered ==
    ASSUME TypeOK, TypeOK', ~Full, ch' = Taken + count + 1, Store(ch'),
           \A k \in 0 .. count - 1 : buf[(pos + k) % BufSize] = Taken + k + 1
    PROVE  \A k \in 0 .. count' - 1 : buf'[(pos' + k) % BufSize] = Taken' + k + 1
  <1> SUFFICES ASSUME NEW k \in 0 .. count' - 1
               PROVE  buf'[(pos' + k) % BufSize] = Taken' + k + 1
    OBVIOUS
  <1> DEFINE last == (pos + count) % BufSize
             slot == (pos + k) % BufSize
  <1>1. /\ count \in 0 .. BufSize - 1 /\ pos \in 0 .. BufSize - 1
        /\ BufSize \in Nat \ {0} /\ Taken \in Nat
    BY BufSizeAssumption DEF TypeOK, Full, Taken
  <1>2. /\ count' = count + 1 /\ pos' = pos /\ Taken' = Taken
        /\ buf' = [buf EXCEPT ![last] = ch']
    BY DEF Store, Taken
  <1>3. last = IF pos + count < BufSize THEN pos + count ELSE pos + count - BufSize
    BY <1>1, Turn
  <1>4. slot = IF pos + k < BufSize THEN pos + k ELSE pos + k - BufSize
    BY <1>1, <1>2, Turn
  <1>5. last \in DOMAIN buf /\ slot \in DOMAIN buf
    <2>1. last \in 0 .. BufSize - 1 /\ slot \in 0 .. BufSize - 1
      BY <1>1, <1>2, <1>3, <1>4
    <2> QED
      BY <2>1 DEF TypeOK
  <1>6. CASE k = count
    BY <1>2, <1>5, <1>6
  <1>7. CASE k # count
    <2>1. k \in 0 .. count - 1
      BY <1>1, <1>2, <1>7
    <2>2. slot # last
      BY <1>1, <1>3, <1>4, <2>1
    <2>3. buf'[slot] = buf[slot]
      BY <1>2, <1>5, <2>2
    <2> QED
      BY <1>2, <2>1, <2>3
  <1> QED
    BY <1>6, <1>7

(* Register 0: the oldest character leaves the ring, and the one behind it *)
(* is the oldest now.                                                      *)
LEMMA ReadNumbered ==
    ASSUME TypeOK, ReadChar,
           \A k \in 0 .. count - 1 : buf[(pos + k) % BufSize] = Taken + k + 1
    PROVE  /\ buf[pos] = Taken + 1
           /\ \A k \in 0 .. count' - 1 : buf'[(pos' + k) % BufSize] = Taken' + k + 1
           /\ Taken' = Taken + 1
  <1>1. /\ count \in 1 .. BufSize /\ pos \in 0 .. BufSize - 1
        /\ BufSize \in Nat \ {0} /\ Taken \in Nat
    BY BufSizeAssumption DEF TypeOK, ReadChar, Taken
  <1>2. /\ count' = count - 1 /\ buf' = buf
        /\ pos' = IF pos + 1 = BufSize THEN 0 ELSE pos + 1
    BY DEF ReadChar
  <1>3. Taken' = Taken + 1
    BY DEF ReadChar, TypeOK, Taken
  <1>4. buf[pos] = Taken + 1
    <2>1. (pos + 0) % BufSize = pos
      BY <1>1, Turn
    <2> QED
      BY <1>1, <2>1
  <1>5. ASSUME NEW k \in 0 .. count' - 1
        PROVE  buf'[(pos' + k) % BufSize] = Taken' + k + 1
    <2>1. k + 1 \in 0 .. count - 1 /\ k \in Nat
      BY <1>1, <1>2
    <2>2. (pos' + k) % BufSize = (pos + (k + 1)) % BufSize
      <3>1. pos + (k + 1) \in 0 .. 2 * BufSize - 1 /\ pos' + k \in 0 .. 2 * BufSize - 1
        BY <1>1, <1>2, <2>1
      <3> QED
        BY <1>1, <1>2, <2>1, <3>1, Turn
    <2>3. buf[(pos + (k + 1)) % BufSize] = Taken + (k + 1) + 1
      BY <2>1
    <2> QED
      BY <1>1, <1>2, <1>3, <2>1, <2>2, <2>3
  <1> QED
    BY <1>3, <1>4, <1>5

(* Every step keeps the characters numbered. *)
LEMMA NumberedStep == TypeOK /\ TypeOK' /\ Numbered /\ [Next]_vars => Numbered'
  <1> SUFFICES ASSUME TypeOK, TypeOK', Numbered, [Next]_vars
               PROVE  Numbered'
    OBVIOUS
  <1>1. /\ Taken \in Nat /\ count \in Nat /\ pipe \in Seq(1 .. MaxTyped) /\ typed \in Nat
        /\ InHand \in {0, 1} /\ Len(pipe) \in Nat
    <2>1. count \in Nat /\ pipe \in Seq(1 .. MaxTyped) /\ typed \in Nat
      BY BufSizeAssumption, MaxTypedAssumption DEF TypeOK
    <2>2. Taken \in Nat
      BY DEF TypeOK, Taken
    <2>3. InHand \in {0, 1} /\ Len(pipe) \in Nat
      BY <2>1 DEF InHand
    <2> QED
      BY <2>1, <2>2, <2>3
  <1>2. CASE Type
    <2>1. Taken' = Taken /\ count' = count /\ InHand' = InHand
      BY <1>2 DEF Type, ring, Taken, InHand
    <2>2. Len(pipe') = Len(pipe) + 1 /\ typed' = typed + 1
      BY <1>1, <1>2 DEF Type
    <2>3. \A i \in 1 .. Len(pipe') : pipe'[i] = IF i = Len(pipe') THEN typed' ELSE pipe[i]
      BY <1>1, <1>2, <2>2 DEF Type
    <2> QED
      BY <1>1, <1>2, <2>1, <2>2, <2>3 DEF Type, ring, Numbered
  <1>3. CASE Poll
    <2>1. /\ ch' = Taken + count + 1 /\ reader = "polling" /\ InHand = 0
      BY <1>1, <1>3 DEF Poll, Numbered, InHand
    <2>2. Len(pipe') = Len(pipe) - 1
      BY <1>1, <1>3 DEF Poll
    <2>3. \A i \in 1 .. Len(pipe') : pipe'[i] = Taken + count + 1 + i
      <3>1. \A i \in 1 .. Len(pipe') : i + 1 \in 1 .. Len(pipe) /\ pipe'[i] = pipe[i + 1]
        BY <1>1, <1>3, <2>2 DEF Poll
      <3> QED
        BY <1>1, <2>1, <3>1 DEF Numbered
    <2>4. CASE Full
      <3>1. Taken' = Taken /\ count' = count /\ InHand' = 1 /\ taken' = taken /\ buf' = buf
            /\ pos' = pos /\ typed' = typed
        BY <1>3, <2>4 DEF Poll, WaitForRoom, ring, Taken, InHand
      <3> QED
        BY <1>1, <2>1, <2>2, <2>3, <3>1 DEF Numbered
    <2>5. CASE ~Full
      <3>1. Store(ch') /\ typed' = typed
        BY <1>3, <2>5 DEF Poll
      <3>2. Taken' = Taken /\ count' = count + 1 /\ InHand' = 0 /\ taken' = taken
            /\ reader' = "polling"
        BY <3>1 DEF Store, Taken, InHand
      <3>3. \A k \in 0 .. count' - 1 : buf'[(pos' + k) % BufSize] = Taken' + k + 1
        BY <2>1, <2>5, <3>1, StoreNumbered DEF Numbered
      <3> QED
        BY <1>1, <2>1, <2>2, <2>3, <3>1, <3>2, <3>3 DEF Numbered
    <2> QED
      BY <2>4, <2>5
  <1>4. CASE Retry
    <2>1. ch' = Taken + count + 1 /\ InHand = 1 /\ pipe' = pipe /\ typed' = typed /\ ch' = ch
      BY <1>4 DEF Retry, Numbered, InHand, input
    <2>2. CASE Full
      <3>1. Taken' = Taken /\ InHand' = 1
        BY <1>4, <2>2 DEF Retry, WaitForRoom, Taken, InHand
      <3> QED
        BY <1>4, <2>1, <2>2, <3>1 DEF Retry, WaitForRoom, ring, Numbered
    <2>3. CASE ~Full
      <3>1. Store(ch')
        BY <1>4, <2>1, <2>3 DEF Retry
      <3>2. Taken' = Taken /\ count' = count + 1 /\ InHand' = 0 /\ taken' = taken
            /\ reader' = "polling"
        BY <3>1 DEF Store, Taken, InHand
      <3>3. \A k \in 0 .. count' - 1 : buf'[(pos' + k) % BufSize] = Taken' + k + 1
        BY <2>1, <2>3, <3>1, StoreNumbered DEF Numbered
      <3> QED
        BY <1>1, <2>1, <3>2, <3>3 DEF Numbered
    <2> QED
      BY <2>2, <2>3
  <1>5. CASE DeliverRead
    <2>1. InHand' = InHand /\ (reader' # "polling" => reader # "polling") /\ Taken' = Taken
      BY <1>5 DEF DeliverRead, InHand, Taken
    <2> QED
      BY <1>5, <2>1 DEF DeliverRead, input, ring, Numbered
  <1>6. CASE ReadChar
    <2>1. /\ buf[pos] = Taken + 1
          /\ \A k \in 0 .. count' - 1 : buf'[(pos' + k) % BufSize] = Taken' + k + 1
          /\ Taken' = Taken + 1
      BY <1>6, ReadNumbered DEF Numbered
    <2>2. count' = count - 1 /\ count > 0 /\ InHand' = InHand /\ UNCHANGED <<typed, pipe, ch, reader>>
      BY <1>6 DEF ReadChar, NotifyRead, InHand, input
    <2>3. \A i \in 1 .. Taken' : taken'[i] = i
      <3>1. taken' = Append(taken, Taken + 1) /\ taken \in Seq(0 .. MaxTyped)
        BY <1>6, <2>1 DEF ReadChar, TypeOK
      <3> QED
        BY <1>1, <2>1, <3>1 DEF Numbered, Taken
    <2> QED
      BY <1>1, <2>1, <2>2, <2>3 DEF Numbered
  <1>7. CASE SetEnabled \/ IrqUpdate \/ UNCHANGED vars
    <2>1. UNCHANGED <<typed, pipe, reader, ch, buf, pos, count, taken>>
      BY <1>7 DEF SetEnabled, IrqUpdate, vars, input, ring
    <2>2. Taken' = Taken /\ InHand' = InHand
      BY <2>1 DEF Taken, InHand
    <2> QED
      BY <2>1, <2>2 DEF Numbered
  <1> QED
    BY <1>2, <1>3, <1>4, <1>5, <1>6, <1>7 DEF Next

(* Numbered characters are in order. *)
LEMMA NumberedIsInOrder == TypeOK /\ Numbered => InputInOrder
  <1> SUFFICES ASSUME TypeOK, Numbered
               PROVE  InputInOrder
    OBVIOUS
  <1> DEFINE s1 == taken \o Contents
             s2 == s1 \o Held
             s3 == s2 \o pipe
  <1>1. /\ Taken \in Nat /\ count \in Nat /\ InHand \in {0, 1} /\ Len(pipe) \in Nat
        /\ taken \in Seq(Int) /\ pipe \in Seq(Int) /\ typed \in Nat
    BY BufSizeAssumption, MaxTypedAssumption DEF TypeOK, Taken, InHand
  <1>2. /\ Contents \in Seq(Int) /\ Len(Contents) = count
        /\ \A i \in 1 .. count : Contents[i] = Taken + i
    <2>1. ASSUME NEW i \in 1 .. count
          PROVE  buf[(pos + i - 1) % BufSize] = Taken + i
      <3>1. i - 1 \in 0 .. count - 1 /\ pos + (i - 1) = pos + i - 1
        BY <1>1 DEF TypeOK
      <3>2. buf[(pos + (i - 1)) % BufSize] = Taken + (i - 1) + 1
        BY <3>1 DEF Numbered
      <3> QED
        BY <1>1, <3>1, <3>2
    <2>2. Contents = [i \in 1 .. count |-> Taken + i]
      BY <2>1 DEF Contents
    <2> QED
      BY <1>1, <2>2
  <1>3. /\ Held \in Seq(Int) /\ Len(Held) = InHand
        /\ \A i \in 1 .. InHand : Held[i] = Taken + count + i
    <2>1. CASE reader = "polling"
      <3>1. Held = <<>> /\ InHand = 0
        BY <2>1 DEF Held, InHand
      <3> QED
        BY <3>1
    <2>2. CASE reader # "polling"
      <3>1. Held = <<ch>> /\ InHand = 1 /\ ch \in Int
        BY <2>2, MaxTypedAssumption DEF Held, InHand, TypeOK
      <3>2. ch = Taken + count + 1
        BY <2>2 DEF Numbered
      <3> QED
        BY <3>1, <3>2
    <2> QED
      BY <2>1, <2>2
  <1>4. /\ s1 \in Seq(Int) /\ Len(s1) = Taken + count
        /\ \A i \in 1 .. Taken + count : s1[i] = i
    <2>1. /\ s1 \in Seq(Int) /\ Len(s1) = Taken + count
          /\ \A i \in 1 .. Taken + count :
                s1[i] = IF i <= Taken THEN taken[i] ELSE Contents[i - Taken]
      BY <1>1, <1>2, ConcatProperties DEF Taken
    <2> QED
      BY <1>1, <1>2, <2>1 DEF Numbered
  <1>5. /\ s2 \in Seq(Int) /\ Len(s2) = Taken + count + InHand
        /\ \A i \in 1 .. Taken + count + InHand : s2[i] = i
    <2> HIDE DEF s1
    <2>1. /\ s2 \in Seq(Int) /\ Len(s2) = Taken + count + InHand
          /\ \A i \in 1 .. Taken + count + InHand :
                s2[i] = IF i <= Taken + count THEN s1[i] ELSE Held[i - (Taken + count)]
      BY <1>1, <1>3, <1>4, ConcatProperties
    <2> QED
      BY <1>1, <1>3, <1>4, <2>1
  <1>6. /\ s3 \in Seq(Int) /\ Len(s3) = typed
        /\ \A i \in 1 .. typed : s3[i] = i
    <2> HIDE DEF s2
    <2>1. /\ s3 \in Seq(Int) /\ Len(s3) = Len(s2) + Len(pipe)
          /\ \A i \in 1 .. Len(s2) + Len(pipe) :
                s3[i] = IF i <= Len(s2) THEN s2[i] ELSE pipe[i - Len(s2)]
      BY <1>1, <1>5, ConcatProperties
    <2>2. Len(s2) + Len(pipe) = typed
      BY <1>1, <1>5 DEF Numbered
    <2>3. ASSUME NEW i \in 1 .. typed
          PROVE  s3[i] = i
      <3> HIDE DEF s3
      <3>1. CASE i <= Len(s2)
        BY <1>1, <1>5, <2>1, <2>2, <3>1
      <3>2. CASE ~(i <= Len(s2))
        <4>1. i - Len(s2) \in 1 .. Len(pipe) /\ s3[i] = pipe[i - Len(s2)]
          BY <1>1, <1>5, <2>1, <2>2, <3>2
        <4> QED
          BY <1>1, <1>5, <4>1 DEF Numbered
      <3> QED
        BY <3>1, <3>2
    <2> QED
      BY <2>1, <2>2, <2>3
  <1>7. s3 = [i \in 1 .. typed |-> i]
    <2> HIDE DEF s3
    <2> DEFINE t == [i \in 1 .. typed |-> i]
    <2>1. t \in Seq(Int) /\ Len(t) = typed /\ \A i \in 1 .. typed : t[i] = i
      BY <1>1
    <2> HIDE DEF t
    <2>2. s3 = t
      BY <1>6, <2>1, SeqEqual
    <2> QED
      BY <2>2 DEF t
  <1>8. s3 = taken \o Contents \o Held \o pipe
    OBVIOUS
  <1> QED
    BY <1>7, <1>8 DEF InputInOrder

(* The console's input is a queue: software reads the typed characters,    *)
(* each once and in the order in which they were typed, whatever the size  *)
(* of the ring and however often it fills up.                              *)
THEOREM InputIsOrdered == Spec => []InputInOrder
  <1>1. Init => Numbered
    <2> SUFFICES ASSUME Init
                 PROVE  Numbered
      OBVIOUS
    <2>1. Taken = 0 /\ InHand = 0 /\ Len(pipe) = 0 /\ count = 0 /\ typed = 0
          /\ reader = "polling"
      BY DEF Init, Taken, InHand
    <2> QED
      BY <2>1 DEF Numbered
  <1>2. TypeOK /\ TypeOK' /\ Numbered /\ [Next]_vars => Numbered'
    BY NumberedStep
  <1>3. TypeOK /\ Numbered => InputInOrder
    BY NumberedIsInOrder
  <1> QED
    BY <1>1, <1>2, <1>3, TypeCorrect, PTL DEF Spec
-----------------------------------------------------------------------------
(* The screens.  A device has two images: it writes one, and its viewer    *)
(* has shown or is going to show the other.  The invariant says which, and *)
(* how much of each image is of which picture.                             *)

\* The viewer behind a device whose next image goes to buffer `turn': it holds, has
\* shown or is going to show the other one, the picture completed last.
ShownCells(n) == [c \in 0 .. n - 1 |-> displayed]

\* The types of the shared images and of the copies of the viewer.
ScreenTypes(n, P) ==
    /\ image \in [0 .. 1 -> [0 .. n - 1 -> SUBSET P]]
    /\ copy \in [0 .. n - 1 -> SUBSET P] /\ area \in [0 .. n - 1 -> SUBSET P]
    /\ wi \in 0 .. 1 /\ copied \in -1 .. n /\ usr1 \in BOOLEAN
    /\ process \in {"starting", "running", "killed"}

\* Where the viewer is.  A signal that came before its handler has ended it.
InTurn(turn) ==
    /\ process # "running" => Idle
    /\ copied >= 0 => ~usr1
    /\ process # "killed" => wi = IF Idle THEN turn ELSE 1 - turn

Follows(turn, n, P) ==
    /\ ScreenTypes(n, P)
    /\ InTurn(turn)
    /\ image[1 - turn] = ShownCells(n)
    /\ \A c \in 0 .. copied - 1 : copy[c] = displayed
    /\ process # "killed" /\ Idle => area = ShownCells(n)

\* The words of an image, and those software has written of it.
WordsOf(d) == ((d[1] \div 4) * d[3]) * d[2]
Position == my * Across + mx

WriterTypes ==
    /\ dims = software
    /\ mx \in 0 .. Across - 1 /\ my \in 0 .. dims[2] - 1 /\ ii \in 0 .. 1
    /\ (mx = 0 /\ my = 0) \/ \E p \in RamdacPictures : drawn = {p}

RamdacInv ==
    /\ software \in Dimensions
    /\ ~ready => NoViewer /\ mx = 0 /\ my = 0 /\ ii = 0
    /\ ready => /\ WriterTypes
                /\ Follows(ii, WordsOf(dims), RamdacPictures)
                /\ \A c \in 0 .. Position - 1 : image[ii][c] = drawn

\* The modes whose pictures reach the screen.
ShownModes == Plain \cup {"YV16"}

\* The buffer that software writes, and how much of it is of its picture.
Written == IF fbMode \in Plain THEN image[bufIdx] ELSE yuvImage[bufIdx]
Filled == IF word = 0 THEN MemWords ELSE word

SlInv ==
    /\ fbMode \in FbModes
    /\ fbMode \in ShownModes =>
         /\ bufIdx \in 0 .. 1 /\ word \in 0 .. MemWords - 1 /\ picture \in SUBSET Pictures
         /\ fbMode = "YV16" => yuvImage \in [0 .. 1 -> [0 .. MemWords - 1 -> SUBSET Pictures]]
         /\ Follows(bufIdx, ImageCells(fbMode), Pictures)
         /\ \A c \in 0 .. Filled - 1 : Written[c] = picture

Per == IF mode \in Packed \cup Words32 THEN 1 ELSE 2
\* The i-th pixel.
PixelAt(i) == Pixels((i - 1) \div Per)[1 + ((i - 1) % Per)]

ViewerTypes ==
    /\ mode \in Packed \cup Words32 \cup Yuv
    /\ width \in Nat \ {0} /\ height \in Nat \ {0}
    /\ mode \in Yuv => width % 2 = 0 /\ height % 2 = 0
    /\ big \in BOOLEAN /\ xrgb \in BOOLEAN

\* Every iteration has left its pixels behind those before.
ViewerInv ==
    /\ ViewerTypes
    /\ done \in 0 .. Iterations
    /\ pixels = [i \in 1 .. Per * done |-> PixelAt(i)]

ScreenInv ==
    /\ part = "viewer" => ViewerInv
    /\ part = "framebuffer" => SlInv
    /\ part = "ramdac" => RamdacInv
-----------------------------------------------------------------------------
\* The viewer's own steps.
LEMMA ShowKeeps ==
    ASSUME NEW turn \in 0 .. 1, NEW n \in Nat, NEW P, Follows(turn, n, P), ShowNext
    PROVE  Follows(turn, n, P)' /\ UNCHANGED <<image, displayed>>
<1> DEFINE shown == ShownCells(n)
<1>0. Cells = 0 .. n - 1
  BY DEF Follows, ScreenTypes, Cells
<1>1. CASE StartViewer
  <2>1. UNCHANGED <<image, usr1, wi, copied, copy, area, displayed>> /\ process = "starting"
        /\ process' = "running"
    BY <1>1 DEF StartViewer
  <2>2. Idle /\ Idle'
    BY <2>1 DEF Follows, InTurn, Idle
  <2> QED  BY <2>1, <2>2 DEF Follows, ScreenTypes, InTurn, ShownCells
<1>2. CASE EnterHandler
  <2>1. UNCHANGED <<image, process, wi, copy, area, displayed>> /\ process = "running" /\ usr1
        /\ usr1' = FALSE /\ copied' = 0 /\ ~Idle /\ ~Idle'
    BY <1>2 DEF EnterHandler, Idle
  <2>2. copied' \in -1 .. n
    BY <2>1
  <2>3. ScreenTypes(n, P)'
    BY <2>1, <2>2 DEF Follows, ScreenTypes
  <2>4. InTurn(turn)'
    BY <2>1 DEF Follows, InTurn, Idle
  <2>5. \A c \in 0 .. copied' - 1 : FALSE
    BY <2>1
  <2>6. image'[1 - turn] = [c \in 0 .. n - 1 |-> displayed']
    BY <2>1 DEF Follows, ShownCells
  <2> QED  BY <2>1, <2>3, <2>4, <2>5, <2>6 DEF Follows, ShownCells
<1>3. CASE CopyCell
  <2>1. /\ UNCHANGED <<image, process, usr1, wi, area, displayed>> /\ copied \in 0 .. n - 1
        /\ copy' = [copy EXCEPT ![copied] = image[wi][copied]] /\ copied' = copied + 1
    BY <1>0, <1>3 DEF CopyCell
  <2>2. ~Idle /\ ~Idle' /\ process = "running" /\ ~usr1 /\ wi = 1 - turn
    BY <2>1 DEF Follows, InTurn, Idle
  <2>3. image[wi][copied] = displayed /\ image[wi][copied] \in SUBSET P
    <3>1. image[wi] = [c \in 0 .. n - 1 |-> displayed]
      BY <2>2 DEF Follows, ShownCells
    <3>2. image[wi] \in [0 .. n - 1 -> SUBSET P]
      BY DEF Follows, ScreenTypes
    <3> QED  BY <2>1, <3>1, <3>2
  <2>4. copy' \in [0 .. n - 1 -> SUBSET P]
    BY <2>1, <2>3 DEF Follows, ScreenTypes
  <2>5. ASSUME NEW c \in 0 .. copied' - 1 PROVE copy'[c] = displayed'
    BY <2>1, <2>3 DEF Follows, ScreenTypes
  <2>6. copied' \in -1 .. n
    BY <2>1
  <2>7. ScreenTypes(n, P)'
    BY <2>1, <2>4, <2>6 DEF Follows, ScreenTypes
  <2>8. InTurn(turn)'
    BY <2>1, <2>2 DEF InTurn
  <2>9. image'[1 - turn] = [c \in 0 .. n - 1 |-> displayed']
    BY <2>1 DEF Follows, ShownCells
  <2> QED  BY <2>1, <2>2, <2>5, <2>7, <2>8, <2>9 DEF Follows, ShownCells
<1>4. CASE Draw
  <2>1. /\ UNCHANGED <<image, process, usr1, copy, displayed>> /\ copied >= 0
        /\ copied \notin 0 .. n - 1 /\ area' = copy /\ wi' = 1 - wi /\ copied' = -1
    BY <1>0, <1>4 DEF Draw
  <2>2. ~Idle /\ process = "running" /\ ~usr1 /\ wi = 1 - turn /\ copied = n
    BY <2>1 DEF Follows, InTurn, Idle, ScreenTypes
  <2>3. Idle' /\ wi' = turn
    BY <2>1, <2>2 DEF Idle
  <2>4. copy = ShownCells(n)
    BY <2>2 DEF Follows, ScreenTypes, ShownCells
  <2>5. ScreenTypes(n, P)' /\ InTurn(turn)'
    BY <2>1, <2>2, <2>3 DEF Follows, ScreenTypes, InTurn
  <2>6. copied' - 1 = -2 BY <2>1
  <2> QED  BY <2>1, <2>3, <2>4, <2>5, <2>6 DEF Follows, ShownCells
<1>5. UNCHANGED <<image, displayed>>
  BY DEF ShowNext, StartViewer, EnterHandler, CopyCell, Draw
<1> QED  BY <1>1, <1>2, <1>3, <1>4, <1>5 DEF ShowNext

\* A picture is complete, and nothing on its way: the device turns to the other image,
\* and the viewer is told.
LEMMA KillKeeps ==
    ASSUME NEW turn \in 0 .. 1, NEW n \in Nat, NEW P, NEW p \in SUBSET P,
           Follows(turn, n, P), Idle, Kill(p),
           image' \in [0 .. 1 -> [0 .. n - 1 -> SUBSET P]],
           image'[turn] = [c \in 0 .. n - 1 |-> p],
           UNCHANGED <<wi, copied, copy, area>>
    PROVE  Follows(1 - turn, n, P)'
<1>1. displayed' = p /\ process' = IF process = "starting" THEN "killed" ELSE process
  BY DEF Kill
<1>2. usr1' = (process = "running") /\ usr1' \in BOOLEAN
  BY DEF Kill
<1>3. copied = -1 /\ copied' = -1
  BY DEF Idle
<1>4. Idle' <=> process' # "running"
  BY <1>1, <1>2, <1>3 DEF Idle, Follows, ScreenTypes
<1>5. process' # "starting"
  BY <1>1
<1>6. ScreenTypes(n, P)'
  BY <1>1, <1>2, <1>3 DEF Follows, ScreenTypes
<1>7. 1 - (1 - turn) = turn
  OBVIOUS
<1>8. process' # "killed" => process = "running" /\ process' = "running" /\ ~Idle' /\ wi' = turn
  BY <1>1, <1>4, <1>6 DEF Follows, InTurn, ScreenTypes
<1>9. InTurn(1 - turn)'
  BY <1>3, <1>4, <1>7, <1>8 DEF InTurn
<1> QED  BY <1>1, <1>3, <1>6, <1>7, <1>8, <1>9 DEF Follows, ShownCells

\* Software writes the other image.
LEMMA WriteKeeps ==
    ASSUME NEW turn \in 0 .. 1, NEW n \in Nat, NEW P, Follows(turn, n, P),
           image' \in [0 .. 1 -> [0 .. n - 1 -> SUBSET P]],
           image'[1 - turn] = image[1 - turn],
           UNCHANGED <<process, usr1, displayed, wi, copied, copy, area>>
    PROVE  Follows(turn, n, P)'
BY DEF Follows, ScreenTypes, InTurn, Idle, ShownCells

\* Where nothing is on its way the picture is on the screen.
LEMMA FollowsShows ==
    ASSUME NEW turn, NEW n \in Nat, NEW P, Follows(turn, n, P)
    PROVE  PictureShown
BY DEF Follows, ScreenTypes, PictureShown, ShownCells, Cells

\* A new viewer.
LEMMA NewKeeps ==
    ASSUME NEW n \in Nat, NEW P, CreateViewer(n)
    PROVE  Follows(0, n, P)'
<1> DEFINE blank == [c \in 0 .. n - 1 |-> {}]
<1>1. /\ image' = [k \in 0 .. 1 |-> blank] /\ copy' = blank /\ area' = blank
      /\ process' = "starting" /\ usr1' = FALSE /\ wi' = 0 /\ copied' = -1 /\ displayed' = {}
  BY DEF CreateViewer, Blank
<1>2. blank \in [0 .. n - 1 -> SUBSET P]
  OBVIOUS
<1>3. ShownCells(n)' = blank
  BY <1>1 DEF ShownCells
<1> HIDE DEF blank
<1>4. ScreenTypes(n, P)' /\ Idle'
  <2>1. image' \in [0 .. 1 -> [0 .. n - 1 -> SUBSET P]]
    BY <1>1, <1>2
  <2>2. copied' \in -1 .. n /\ wi' \in 0 .. 1
    BY <1>1
  <2>3. ~usr1' /\ usr1' \in BOOLEAN
    BY DEF CreateViewer
  <2> QED  BY <1>1, <1>2, <2>1, <2>2, <2>3 DEF ScreenTypes, Idle
<1>5. InTurn(0)'
  BY <1>1, <1>4 DEF InTurn
<1>6. \A c \in 0 .. copied' - 1 : FALSE
  BY <1>1
<1> QED  BY <1>1, <1>3, <1>4, <1>5, <1>6 DEF Follows
-----------------------------------------------------------------------------
\* Writing cell i of image t.
Put(f, t, i, v) == [f EXCEPT ![t][i] = v]

Images(n, P) == [0 .. 1 -> [0 .. n - 1 -> SUBSET P]]

\* g is f with pictures v in cell i of image t.
PutIs(g, f, n, P, t, i, v) ==
    /\ g \in Images(n, P)
    /\ g[1 - t] = f[1 - t]
    /\ g[t][i] = v
    /\ \A c \in 0 .. n - 1 : c # i => g[t][c] = f[t][c]

LEMMA PutCell ==
    ASSUME NEW n \in Nat, NEW P, NEW f \in Images(n, P),
           NEW t \in 0 .. 1, NEW i \in 0 .. n - 1, NEW v \in SUBSET P
    PROVE  PutIs(Put(f, t, i, v), f, n, P, t, i, v)
<1>1. PICK row \in [0 .. n - 1 -> SUBSET P] : row = [f[t] EXCEPT ![i] = v]
  BY DEF Images
<1>2. Put(f, t, i, v) = [f EXCEPT ![t] = row]
  BY <1>1 DEF Put
<1>3. row[i] = v /\ \A c \in 0 .. n - 1 : c # i => row[c] = f[t][c]
  BY <1>1 DEF Images
<1>4. DOMAIN f = 0 .. 1 /\ t # 1 - t /\ 1 - t \in 0 .. 1
  BY DEF Images
<1>5. [f EXCEPT ![t] = row][t] = row /\ [f EXCEPT ![t] = row][1 - t] = f[1 - t]
  BY <1>4
<1>6. [f EXCEPT ![t] = row] \in Images(n, P)
  BY DEF Images
<1> QED  BY <1>2, <1>3, <1>5, <1>6 DEF PutIs

LEMMA Fourth == ASSUME NEW x \in Nat PROVE (4 * x) \div 4 = x
OBVIOUS

\* Addresses and sizes of an image, in words.
LEMMA ImageWords ==
    ASSUME NEW d \in Dimensions
    PROVE  /\ (d[1] \div 4) * d[3] \in Nat \ {0} /\ d[2] \in Nat \ {0}
           /\ WordsOf(d) \in Nat
           /\ (d[1] * d[2] * d[3]) \div 4 = WordsOf(d)
           /\ \A y \in Nat : (y * d[1] * d[3]) \div 4 = y * ((d[1] \div 4) * d[3])
<1>1. /\ d[1] \in Nat \ {0} /\ d[1] % 4 = 0 /\ d[2] \in Nat \ {0} /\ d[3] \in {1, 3}
  BY DimensionsAssumption
<1>2. PICK a \in Nat \ {0} : d[1] = 4 * a /\ d[1] \div 4 = a
  <2>1. d[1] = 4 * (d[1] \div 4) /\ d[1] \div 4 \in Nat \ {0}
    BY <1>1
  <2> QED  BY <2>1
<1>3. a * d[3] \in Nat \ {0}
  BY <1>1
<1> DEFINE R == a * d[3]
<1>4. d[1] * d[2] * d[3] = 4 * (R * d[2])
  BY <1>1, <1>2
<1>5. R * d[2] \in Nat
  BY <1>1, <1>3
<1>6. ASSUME NEW y \in Nat PROVE (y * d[1] * d[3]) \div 4 = y * R
  <2>1. y * d[1] * d[3] = 4 * (y * R)
    BY <1>1, <1>2
  <2>2. y * R \in Nat
    BY <1>3
  <2> HIDE DEF R
  <2> QED  BY <2>1, <2>2, Fourth
<1>7. (d[1] * d[2] * d[3]) \div 4 = R * d[2]
  <2> HIDE DEF R
  <2> QED  BY <1>4, <1>5, Fourth
<1> QED  BY <1>1, <1>2, <1>3, <1>5, <1>6, <1>7 DEF WordsOf

\* The word after the one in column x and row y is the next of the image, or the first.
NextIs(R, H, x, y, x2, y2) ==
    /\ x2 \in 0 .. R - 1 /\ y2 \in 0 .. H - 1
    /\ y * R + x \in 0 .. R * H - 1
    /\ x2 = 0 /\ y2 = 0 => y * R + x = R * H - 1
    /\ ~(x2 = 0 /\ y2 = 0) => y2 * R + x2 = y * R + x + 1

LEMMA NextWord ==
    ASSUME NEW R \in Nat \ {0}, NEW H \in Nat \ {0}, NEW x \in 0 .. R - 1, NEW y \in 0 .. H - 1,
           NEW x2, NEW y2, x2 = (x + 1) % R, y2 = IF x2 = 0 THEN (y + 1) % H ELSE y
    PROVE  NextIs(R, H, x, y, x2, y2)
<1>1. x2 = IF x = R - 1 THEN 0 ELSE x + 1
  <2>1. CASE x = R - 1
    BY <2>1
  <2>2. CASE x < R - 1
    BY <2>2
  <2> QED  BY <2>1, <2>2
<1>2. (y + 1) % H = IF y = H - 1 THEN 0 ELSE y + 1
  <2>1. CASE y = H - 1
    BY <2>1
  <2>2. CASE y < H - 1
    BY <2>2
  <2> QED  BY <2>1, <2>2
<1>3. x2 = 0 <=> x = R - 1
  BY <1>1
<1>4. y * R \in Nat /\ (y + 1) * R = y * R + R /\ (H - 1) * R = R * H - R
  OBVIOUS
<1>5. y * R <= (H - 1) * R
  OBVIOUS
<1>6. CASE x = R - 1 /\ y = H - 1
  BY <1>1, <1>2, <1>4, <1>5, <1>6 DEF NextIs
<1>7. CASE x = R - 1 /\ y # H - 1
  <2>1. x2 = 0 /\ y2 = y + 1
    BY <1>1, <1>2, <1>7
  <2> QED  BY <1>4, <1>5, <1>7, <2>1 DEF NextIs
<1>8. CASE x # R - 1
  <2>1. x2 = x + 1 /\ y2 = y
    BY <1>1, <1>3, <1>8
  <2> QED  BY <1>4, <1>5, <1>8, <2>1 DEF NextIs
<1> QED  BY <1>6, <1>7, <1>8

\* Steps name the turn and the size; the invariant reads them from the device.
LEMMA FollowsRamdac ==
    ASSUME NEW turn, NEW n, turn = ii, n = WordsOf(dims)
    PROVE  Follows(turn, n, RamdacPictures) <=> Follows(ii, WordsOf(dims), RamdacPictures)
OBVIOUS

LEMMA FollowsRamdacNext ==
    ASSUME NEW turn, NEW n, turn = ii', n = WordsOf(dims')
    PROVE  Follows(turn, n, RamdacPictures)' <=> Follows(ii, WordsOf(dims), RamdacPictures)'
BY DEF Follows, ScreenTypes, InTurn, ShownCells, WordsOf

LEMMA RamdacWriteKeeps ==
    ASSUME RamdacInv, ready, NEW p \in RamdacPictures, WriteWord(p), UNCHANGED <<software, limit>>
    PROVE  RamdacInv'
<1> DEFINE P == RamdacPictures
<1>1. /\ software \in Dimensions /\ dims = software /\ dims' = dims /\ ready' /\ software' = software
      /\ ready' = ready /\ WriterTypes
  BY DEF RamdacInv, WriterTypes, WriteWord
<1>2. PICK n, turn : n = WordsOf(dims) /\ turn = ii
  OBVIOUS
<1>3. Follows(turn, n, P) /\ turn \in 0 .. 1
  BY <1>1, <1>2, FollowsRamdac DEF RamdacInv, WriterTypes
<1>4. \A c \in 0 .. Position - 1 : image[turn][c] = drawn
  BY <1>2 DEF RamdacInv
<1>5. /\ Across \in Nat \ {0} /\ dims[2] \in Nat \ {0} /\ n \in Nat /\ n = Across * dims[2]
      /\ (my * dims[1] * dims[3]) \div 4 = my * Across
  <2>1. my \in Nat
    BY <1>1 DEF WriterTypes
  <2> QED  BY <1>1, <1>2, <2>1, ImageWords DEF Across, WordsOf
<1>6. Across' = Across
  BY <1>1 DEF Across
<1>7. /\ mx' \in 0 .. Across - 1 /\ my' \in 0 .. dims[2] - 1
      /\ Position \in 0 .. n - 1
      /\ mx' = 0 /\ my' = 0 => Position = n - 1
      /\ ~(mx' = 0 /\ my' = 0) => Position' = Position + 1
  <2>1. /\ mx' = (mx + 1) % Across /\ my' = IF mx' = 0 THEN (my + 1) % dims[2] ELSE my
    BY DEF WriteWord
  <2>2. mx \in 0 .. Across - 1 /\ my \in 0 .. dims[2] - 1
    BY <1>1 DEF WriterTypes
  <2>3. Position' = my' * Across + mx'
    BY <1>6 DEF Position
  <2>4. Across \in Nat \ {0} /\ dims[2] \in Nat \ {0}
    BY <1>5
  <2>5. PICK R, H, x, y, x2, y2 : R = Across /\ H = dims[2] /\ x = mx /\ y = my /\ x2 = mx' /\ y2 = my'
    OBVIOUS
  <2>6. NextIs(R, H, x, y, x2, y2)
    <3>1. /\ R \in Nat \ {0} /\ H \in Nat \ {0} /\ x \in 0 .. R - 1 /\ y \in 0 .. H - 1
          /\ x2 = (x + 1) % R /\ y2 = IF x2 = 0 THEN (y + 1) % H ELSE y
      BY <2>1, <2>2, <2>4, <2>5
    <3> QED  BY ONLY <3>1, NextWord
  <2> QED  BY <1>5, <2>3, <2>5, <2>6 DEF Position, NextIs
<1>8. image' = [image EXCEPT ![turn][Position] = {p}]
  BY <1>2, <1>5 DEF WriteWord, Position
<1>9. /\ drawn' = {p} /\ {p} \in SUBSET P
      /\ Position > 0 => drawn = {p}
  <2>1. Position > 0 => ~(mx = 0 /\ my = 0)
    BY <1>5 DEF Position
  <2> QED  BY <1>1, <2>1 DEF WriteWord, WriterTypes
<1>10. image \in [0 .. 1 -> [0 .. n - 1 -> SUBSET P]]
  BY <1>3 DEF Follows, ScreenTypes
<1>11. Position \in 0 .. n - 1
  BY <1>7
<1>12. /\ image' \in [0 .. 1 -> [0 .. n - 1 -> SUBSET P]]
       /\ image'[1 - turn] = image[1 - turn]
       /\ image'[turn][Position] = {p}
       /\ \A c \in 0 .. n - 1 : c # Position => image'[turn][c] = image[turn][c]
  <2>1. image' = Put(image, turn, Position, {p})
    BY <1>8 DEF Put
  <2>2. image \in Images(n, P)
    BY <1>10 DEF Images
  <2>3. PutIs(image', image, n, P, turn, Position, {p})
    BY ONLY <1>3, <1>5, <1>9, <1>11, <2>1, <2>2, PutCell
  <2> QED  BY <2>3 DEF PutIs, Images
<1>13. ASSUME NEW c \in 0 .. Position PROVE image'[turn][c] = {p}
  <2>1. CASE c = Position
    BY <1>12, <2>1
  <2>2. CASE c # Position
    <3>1. c \in 0 .. Position - 1 /\ Position > 0 /\ c \in 0 .. n - 1
      BY <1>5, <1>11, <2>2
    <3> QED  BY <1>4, <1>9, <1>12, <2>2, <3>1
  <2> QED  BY <2>1, <2>2
<1>14. CASE mx' = 0 /\ my' = 0
  <2>1. Idle /\ Kill({p}) /\ ii' = 1 - turn /\ UNCHANGED <<wi, copied, copy, area>>
    BY <1>2, <1>14 DEF WriteWord, RamdacDisplay
  <2>2. image'[turn] = [c \in 0 .. n - 1 |-> {p}]
    <3>1. image'[turn] \in [0 .. n - 1 -> SUBSET P] /\ Position = n - 1
      BY <1>3, <1>7, <1>12, <1>14
    <3> QED  BY <1>13, <3>1
  <2>3. Follows(1 - turn, n, P)'
    BY <1>3, <1>5, <1>9, <1>12, <2>1, <2>2, KillKeeps
  <2>4. ii' \in 0 .. 1 /\ n = WordsOf(dims')
    BY <1>1, <1>2, <1>3, <2>1 DEF WordsOf
  <2>5. Follows(ii, WordsOf(dims), P)'
    BY <2>1, <2>3, <2>4, FollowsRamdacNext
  <2>6. WriterTypes'
    BY <1>1, <1>6, <1>7, <1>14, <2>4 DEF WriterTypes
  <2>7. Position' = 0
    BY <1>5, <1>6, <1>14 DEF Position
  <2>8. \A c \in 0 .. Position' - 1 : FALSE
    BY <2>7
  <2> QED  BY <1>1, <2>5, <2>6, <2>8 DEF RamdacInv
<1>15. CASE ~(mx' = 0 /\ my' = 0)
  <2>1. UNCHANGED <<process, usr1, displayed, wi, copied, copy, area, ii>>
    BY <1>15 DEF WriteWord
  <2>2. Follows(turn, n, P)'
    BY <1>3, <1>5, <1>12, <2>1, WriteKeeps
  <2>3. ii' \in 0 .. 1 /\ turn = ii' /\ n = WordsOf(dims')
    BY <1>1, <1>2, <1>3, <2>1 DEF WordsOf
  <2>4. Follows(ii, WordsOf(dims), P)'
    BY <2>2, <2>3, FollowsRamdacNext
  <2>5. WriterTypes'
    BY <1>1, <1>6, <1>7, <1>9, <2>3 DEF WriterTypes
  <2>6. \A c \in 0 .. Position' - 1 : image'[ii'][c] = drawn'
    BY <1>7, <1>9, <1>11, <1>13, <1>15, <2>3
  <2> QED  BY <1>1, <2>4, <2>5, <2>6 DEF RamdacInv
<1> QED  BY <1>14, <1>15

LEMMA RamdacStep == RamdacInv /\ RamdacNext => RamdacInv'
<1> SUFFICES ASSUME RamdacInv, RamdacNext PROVE RamdacInv'
  OBVIOUS
<1>1. CASE RamdacWrite /\ ready
  BY <1>1, RamdacWriteKeeps DEF RamdacWrite
<1>2. CASE RamdacWrite /\ ~ready
  <2>1. /\ ReceiveSize /\ UNCHANGED <<software, limit, mx, my, ii, images, drawn>>
        /\ software \in Dimensions /\ NoViewer /\ mx = 0 /\ my = 0 /\ ii = 0
    BY <1>2 DEF RamdacWrite, ReceiveSize, RamdacInv
  <2>2. CASE UNCHANGED <<ready, image, xramdac, displayed>>
    BY <1>2, <2>1, <2>2 DEF RamdacInv, NoViewer, xramdac
  <2>3. CASE /\ dims' = software /\ ready'
             /\ CreateViewer((software[1] * software[2] * software[3]) \div 4)
    <3>1. PICK n : n = WordsOf(software)
      OBVIOUS
    <3>2. /\ n \in Nat /\ CreateViewer(n) /\ (dims'[1] \div 4) * dims'[3] \in Nat \ {0}
          /\ dims'[2] \in Nat \ {0} /\ n = WordsOf(dims')
      BY <2>1, <2>3, <3>1, ImageWords
    <3>3. Follows(0, n, RamdacPictures)'
      BY <3>2, NewKeeps
    <3>4. Follows(ii, WordsOf(dims), RamdacPictures)'
      BY <2>1, <3>2, <3>3, FollowsRamdacNext
    <3>5. WriterTypes'
      BY <2>1, <2>3, <3>2 DEF WriterTypes, Across
    <3>6. Position' = 0
      <4>1. Position' = my' * ((dims'[1] \div 4) * dims'[3]) + mx'
        BY DEF Position, Across
      <4>2. my' = 0 /\ mx' = 0
        BY <2>1
      <4> QED  BY <3>2, <4>1, <4>2
    <3> QED  BY <2>1, <2>3, <3>4, <3>5, <3>6 DEF RamdacInv
  <2> QED  BY <2>1, <2>2, <2>3 DEF ReceiveSize
<1>3. CASE ShowNext /\ UNCHANGED ramdacVars
  <2>1. UNCHANGED <<software, limit, dims, ready, mx, my, ii, images, drawn>>
    BY <1>3 DEF ramdacVars
  <2>2. CASE ready
    <3>1. PICK n, turn : n = WordsOf(dims) /\ turn = ii
      OBVIOUS
    <3>2. Follows(turn, n, RamdacPictures) /\ turn \in 0 .. 1 /\ n \in Nat
      <4>1. dims \in Dimensions
        BY <2>2 DEF RamdacInv, WriterTypes
      <4>2. n \in Nat
        BY <3>1, <4>1, ImageWords
      <4> QED  BY <2>2, <3>1, <4>2, FollowsRamdac DEF RamdacInv, WriterTypes
    <3>3. Follows(turn, n, RamdacPictures)' /\ UNCHANGED <<image, displayed>>
      BY <1>3, <3>2, ShowKeeps
    <3>4. turn = ii' /\ n = WordsOf(dims')
      BY <2>1, <3>1
    <3>5. Follows(ii, WordsOf(dims), RamdacPictures)'
      BY <3>3, <3>4, FollowsRamdacNext
    <3>6. WriterTypes' /\ Position' = Position
      BY <2>1, <2>2 DEF RamdacInv, WriterTypes, Across, Position
    <3> QED  BY <2>1, <2>2, <3>3, <3>5, <3>6 DEF RamdacInv
  <2>3. CASE ~ready
    BY <1>3, <2>3 DEF RamdacInv, NoViewer, ShowNext, StartViewer, EnterHandler, CopyCell, Draw, Cells, Blank
  <2> QED  BY <2>2, <2>3
<1> QED  BY <1>1, <1>2, <1>3 DEF RamdacNext, RamdacWrite
-----------------------------------------------------------------------------
LEMMA FollowsSl ==
    ASSUME NEW turn, NEW n, turn = bufIdx, n = ImageCells(fbMode)
    PROVE  Follows(turn, n, Pictures) <=> Follows(bufIdx, ImageCells(fbMode), Pictures)
OBVIOUS

LEMMA FollowsSlNext ==
    ASSUME NEW turn, NEW n, turn = bufIdx', n = ImageCells(fbMode')
    PROVE  Follows(turn, n, Pictures)' <=> Follows(bufIdx, ImageCells(fbMode), Pictures)'
BY DEF Follows, ScreenTypes, InTurn, ShownCells, ImageCells, Components

\* The sizes of the modes that are shown, for pictures of 4 * q pixels.
LEMMA SizesOfModes ==
    ASSUME fbMode \in ShownModes
    PROVE  \E q \in Nat \ {0} :
             /\ Area = 4 * q /\ Area \in Nat
             /\ fbMode = "GREY" => MemWords = q /\ ImageCells(fbMode) = q
             /\ fbMode = "RGB32" => MemWords = 3 * q /\ ImageCells(fbMode) = 3 * q
             /\ fbMode = "YV16" => /\ MemWords = 2 * q /\ ImageCells(fbMode) = 4 * q
                                   /\ YuvSize(fbMode) \div 4 = 2 * q
<1>1. Area \in Nat \ {0} /\ Area % 4 = 0
  BY SizeAssumption DEF Area
<1>2. PICK q \in Nat \ {0} : Area = 4 * q
  <2>1. Area = 4 * (Area \div 4) /\ Area \div 4 \in Nat \ {0}
    BY <1>1
  <2> QED  BY <2>1
<1>3. (1 * Area) \div 4 = q /\ (3 * Area) \div 4 = 3 * q /\ (2 * Area) \div 4 = 2 * q
  BY <1>2
<1>4. fbMode \in {"GREY", "RGB32", "YV16"}
  BY DEF ShownModes, Plain
<1> QED  BY <1>1, <1>2, <1>3, <1>4 DEF MemWords, ImageCells, Components, YuvSize, Plain, Halved

LEMMA WordsOfModes ==
    ASSUME fbMode \in ShownModes
    PROVE  /\ MemWords \in Nat \ {0} /\ ImageCells(fbMode) \in Nat
           /\ fbMode \in Plain => MemWords = ImageCells(fbMode)
BY SizesOfModes DEF ShownModes, Plain

\* The words of one picture.
WholeOf(cells, p) == \A c \in 0 .. MemWords - 1 : cells[c] = p

\* convert_frame_yv16 on the words of one picture gives the pixels of that picture.
LEMMA ConvertsWhole ==
    ASSUME fbMode = "YV16", NEW cells, NEW p, WholeOf(cells, p)
    PROVE  Converted(cells) = [c \in 0 .. ImageCells(fbMode) - 1 |-> p]
<1>1. PICK q \in Nat \ {0} : Area = 4 * q /\ MemWords = 2 * q /\ ImageCells(fbMode) = 4 * q
  BY SizesOfModes DEF ShownModes
<1>2. ASSUME NEW x \in 0 .. Area - 1
      PROVE  Yv16Pixels(cells, x \div 2)[1 + (x % 2)] = p
  <2> DEFINE k == x \div 2
             u == Area + k
             v == u + Area \div 2
  <2>1. k \in 0 .. 2 * q - 1 /\ x % 2 \in 0 .. 1
    BY <1>1
  <2>2. Area \div 2 = 2 * q
    BY <1>1
  <2>3. /\ (2 * k) \div 4 \in 0 .. 2 * q - 1 /\ (2 * k + 1) \div 4 \in 0 .. 2 * q - 1
        /\ u \div 4 \in 0 .. 2 * q - 1 /\ v \div 4 \in 0 .. 2 * q - 1
    <3> HIDE DEF k
    <3> QED  BY <1>1, <2>1, <2>2
  <2>4. /\ cells[(2 * k) \div 4] = p /\ cells[(2 * k + 1) \div 4] = p
        /\ cells[u \div 4] = p /\ cells[v \div 4] = p
    BY <1>1, <2>3 DEF WholeOf
  <2>5. p \cup p \cup p = p
    OBVIOUS
  <2>6. Yv16Pixels(cells, k) = <<p, p>>
    BY <2>4, <2>5 DEF Yv16Pixels
  <2>7. 1 + (x % 2) = 1 \/ 1 + (x % 2) = 2
    BY <2>1
  <2> QED  BY <2>6, <2>7
<1>3. Converted(cells) = [x \in 0 .. Area - 1 |-> p]
  BY <1>2 DEF Converted
<1> QED  BY <1>1, <1>3

LEMMA SlInitial == SlInit => SlInv
<1> SUFFICES ASSUME SlInit, fbMode \in ShownModes PROVE SlInv
  BY DEF SlInit, SlInv
<1>1. PICK n : n = ImageCells(fbMode)
  OBVIOUS
<1>2. n \in Nat /\ MemWords \in Nat \ {0} /\ (fbMode \in Plain => MemWords = n)
  BY <1>1, WordsOfModes
<1> DEFINE blank == [c \in 0 .. n - 1 |-> {}]
<1>3. /\ image = [k \in 0 .. 1 |-> blank] /\ copy = blank /\ area = blank
      /\ process = "starting" /\ wi = 0 /\ copied = -1 /\ displayed = {}
      /\ bufIdx = 0 /\ word = 0 /\ picture = {} /\ fbMode \in FbModes
      /\ yuvImage = [k \in 0 .. 1 |-> Blank(YuvSize(fbMode) \div 4)]
  BY <1>1 DEF SlInit, InitRamdac, Blank
<1>4. usr1 \in BOOLEAN /\ ~usr1
  BY DEF SlInit, InitRamdac
<1>5. blank \in [0 .. n - 1 -> SUBSET Pictures] /\ ShownCells(n) = blank
  BY <1>3 DEF ShownCells
<1>6. ASSUME fbMode \in Plain PROVE \A c \in 0 .. MemWords - 1 : image[0][c] = {}
  BY <1>2, <1>3, <1>6
<1> HIDE DEF blank
<1>7. image \in [0 .. 1 -> [0 .. n - 1 -> SUBSET Pictures]]
  BY <1>3, <1>5
<1>8. copied \in -1 .. n /\ wi \in 0 .. 1 /\ Idle
  BY <1>3, <1>4, <1>2 DEF Idle
<1>9. ScreenTypes(n, Pictures) /\ InTurn(0)
  BY <1>3, <1>4, <1>5, <1>7, <1>8 DEF ScreenTypes, InTurn
<1>10. \A c \in 0 .. copied - 1 : FALSE
  BY <1>3
<1>11. Follows(0, n, Pictures)
  BY <1>3, <1>5, <1>9, <1>10 DEF Follows
<1>12. Follows(bufIdx, ImageCells(fbMode), Pictures)
  BY <1>1, <1>3, <1>11, FollowsSl
<1>13. ASSUME fbMode = "YV16"
       PROVE  /\ yuvImage \in [0 .. 1 -> [0 .. MemWords - 1 -> SUBSET Pictures]]
              /\ \A c \in 0 .. MemWords - 1 : yuvImage[0][c] = {}
  <2>1. YuvSize(fbMode) \div 4 = MemWords
    BY <1>13, SizesOfModes DEF ShownModes
  <2>2. yuvImage = [k \in 0 .. 1 |-> [c \in 0 .. MemWords - 1 |-> {}]]
    BY <1>3, <2>1 DEF Blank
  <2> HIDE DEF MemWords
  <2> QED  BY <2>2
<1>14. Filled = MemWords /\ word \in 0 .. MemWords - 1
  BY <1>2, <1>3 DEF Filled
<1>15. \A c \in 0 .. Filled - 1 : Written[c] = picture
  BY <1>3, <1>6, <1>13, <1>14 DEF Written, ShownModes
<1> QED  BY <1>3, <1>12, <1>13, <1>14, <1>15 DEF SlInv

\* After a word the picture is written so far.
LEMMA FilledNext ==
    ASSUME fbMode \in ShownModes, fbMode' = fbMode,
           word \in 0 .. MemWords - 1, word' = (word + 1) % MemWords
    PROVE  word' \in 0 .. MemWords - 1 /\ Filled' = word + 1 /\ MemWords' = MemWords
<1>1. MemWords \in Nat \ {0}
  BY WordsOfModes
<1>2. MemWords' = MemWords
  BY DEF MemWords, Components, YuvSize
<1>3. word' = IF word = MemWords - 1 THEN 0 ELSE word + 1
  <2>1. CASE word = MemWords - 1
    BY <1>1, <2>1
  <2>2. CASE word < MemWords - 1
    BY <1>1, <2>2
  <2> QED  BY <1>1, <2>1, <2>2
<1>4. Filled' = IF word' = 0 THEN MemWords' ELSE word'
  BY DEF Filled
<1> HIDE DEF MemWords
<1> QED  BY <1>1, <1>2, <1>3, <1>4

\* The buffer of the picture that is complete becomes an image of it.
LEMMA ShownIsWhole ==
    ASSUME SlInv, fbMode \in ShownModes, word = 0
    PROVE  Shown = [c \in 0 .. ImageCells(fbMode) - 1 |-> picture]
<1>1. \A c \in 0 .. MemWords - 1 : Written[c] = picture
  BY DEF SlInv, Filled
<1>2. CASE fbMode = "YV16"
  <2>1. Written = yuvImage[bufIdx] /\ Shown = Converted(yuvImage[bufIdx])
    BY <1>2 DEF Written, Shown, Plain
  <2>2. PICK cells : cells = Written
    OBVIOUS
  <2>3. Converted(cells) = [c \in 0 .. ImageCells(fbMode) - 1 |-> picture]
    <3>1. WholeOf(cells, picture)
      BY <1>1, <2>2 DEF WholeOf
    <3> QED  BY ONLY <1>2, <3>1, ConvertsWhole
  <2> QED  BY <2>1, <2>2, <2>3
<1>3. CASE fbMode \in Plain
  <2>1. image[bufIdx] \in [0 .. ImageCells(fbMode) - 1 -> SUBSET Pictures]
    BY DEF SlInv, Follows, ScreenTypes
  <2>2. Shown = image[bufIdx] /\ Written = image[bufIdx] /\ MemWords = ImageCells(fbMode)
    BY <1>3, WordsOfModes DEF Shown, Written, Plain
  <2> HIDE DEF MemWords, ImageCells
  <2> QED  BY <1>1, <2>1, <2>2
<1> QED  BY <1>2, <1>3 DEF ShownModes

LEMMA SlWriteKeeps ==
    ASSUME SlInv, fbMode \in ShownModes, NEW p \in Pictures, SlWrite(p)
    PROVE  SlInv'
<1> DEFINE P == Pictures
<1>1. /\ fbMode \in FbModes /\ fbMode' = fbMode /\ UNCHANGED <<wi, copied, copy, area>>
      /\ word \in 0 .. MemWords - 1 /\ word' = (word + 1) % MemWords
      /\ picture \in SUBSET P /\ {p} \in SUBSET P
  BY DEF SlInv, SlWrite
<1>2. PICK n, turn, m : n = ImageCells(fbMode) /\ turn = bufIdx /\ m = MemWords
  OBVIOUS
<1>3. Follows(turn, n, P) /\ turn \in 0 .. 1 /\ n \in Nat /\ m \in Nat \ {0} /\ word \in 0 .. m - 1
      /\ (fbMode \in Plain => m = n)
  BY <1>1, <1>2, FollowsSl, WordsOfModes DEF SlInv
<1>4. image \in [0 .. 1 -> [0 .. n - 1 -> SUBSET P]]
  BY <1>3 DEF Follows, ScreenTypes
<1>5. fbMode = "YV16" => yuvImage \in [0 .. 1 -> [0 .. m - 1 -> SUBSET P]]
  BY <1>2 DEF SlInv
<1>6. word' \in 0 .. MemWords' - 1 /\ MemWords' = m /\ Filled' = word + 1
  BY <1>1, <1>2, FilledNext
<1>7. n = ImageCells(fbMode')
  BY <1>1, <1>2
<1>8. PICK next, base :
        /\ next \in 0 .. 1 /\ bufIdx' = next /\ picture' = {p}
        /\ base \in [0 .. 1 -> [0 .. n - 1 -> SUBSET P]]
        /\ IF fbMode \in Plain
           THEN image' = Put(base, next, word, {p}) /\ UNCHANGED yuvImage
           ELSE image' = base /\ yuvImage' = Put(yuvImage, next, word, {p})
        /\ \/ /\ word = 0 /\ Idle /\ Kill(picture) /\ next = 1 - turn
              /\ base[turn] = [c \in 0 .. n - 1 |-> picture]
           \/ /\ word > 0 /\ next = turn /\ base = image /\ picture = {p}
              /\ UNCHANGED <<process, usr1, displayed>>
  <2>1. CASE word = 0
    <3>1. /\ Idle /\ Kill(picture) /\ bufIdx' = 1 - turn /\ picture' = {p}
      BY <1>2, <2>1 DEF SlWrite, SlDisplay
    <3>2. Shown = [c \in 0 .. n - 1 |-> picture]
      BY <1>2, <2>1, ShownIsWhole
    <3>3. PICK row \in [0 .. n - 1 -> SUBSET P] : row = Shown
      BY <1>1, <3>2
    <3>4. PICK base : base = [image EXCEPT ![turn] = row]
      OBVIOUS
    <3>5. base \in [0 .. 1 -> [0 .. n - 1 -> SUBSET P]] /\ base[turn] = row
      BY <1>3, <1>4, <3>4
    <3>6. IF fbMode \in Plain
          THEN image' = Put(base, 1 - turn, word, {p}) /\ UNCHANGED yuvImage
          ELSE image' = base /\ yuvImage' = Put(yuvImage, 1 - turn, word, {p})
      BY <1>2, <2>1, <3>1, <3>3, <3>4 DEF SlWrite, Put
    <3>7. 1 - turn \in 0 .. 1
      BY <1>3
    <3> QED  BY <2>1, <3>1, <3>2, <3>3, <3>5, <3>6, <3>7
  <2>2. CASE word > 0
    <3>1. word # 0
      BY <2>2
    <3>2. /\ picture = {p} /\ UNCHANGED <<bufIdx, process, usr1, displayed, picture>>
          /\ IF fbMode \in Plain
             THEN image' = Put(image, bufIdx', word, {p}) /\ UNCHANGED yuvImage
             ELSE image' = image /\ yuvImage' = Put(yuvImage, bufIdx', word, {p})
      BY <3>1 DEF SlWrite, Put
    <3> QED  BY <1>2, <1>3, <1>4, <2>2, <3>2
  <2>3. word = 0 \/ word > 0
    BY <1>3
  <2> QED  BY ONLY <2>1, <2>2, <2>3
<1>9. /\ image' \in [0 .. 1 -> [0 .. n - 1 -> SUBSET P]]
      /\ image'[1 - next] = base[1 - next]
  <2>1. CASE fbMode \in Plain
    <3>1. word \in 0 .. n - 1 /\ image' = Put(base, next, word, {p})
      BY <1>3, <1>8, <2>1
    <3>2. base \in Images(n, P) /\ next \in 0 .. 1
      BY <1>8 DEF Images
    <3>3. PutIs(image', base, n, P, next, word, {p})
      BY ONLY <1>1, <1>3, <3>1, <3>2, PutCell
    <3> QED  BY <3>3 DEF PutIs, Images
  <2>2. CASE fbMode \notin Plain
    BY <1>8, <2>2
  <2> QED  BY <2>1, <2>2
<1>10. Follows(next, n, P)'
  <2>1. CASE word = 0
    <3>1. next = 1 - turn /\ 1 - next = turn /\ Idle /\ Kill(picture)
          /\ image'[turn] = [c \in 0 .. n - 1 |-> picture]
      BY <1>3, <1>8, <1>9, <2>1
    <3> QED  BY <1>1, <1>3, <1>9, <3>1, KillKeeps
  <2>2. CASE word > 0
    <3>1. /\ next = turn /\ image'[1 - turn] = image[1 - turn]
          /\ UNCHANGED <<process, usr1, displayed>>
      BY <1>8, <1>9, <2>2
    <3> QED  BY <1>1, <1>3, <1>9, <3>1, WriteKeeps
  <2> QED  BY <1>3, <2>1, <2>2
<1>11. Follows(bufIdx, ImageCells(fbMode), P)'
  BY <1>7, <1>8, <1>10, FollowsSlNext
<1>12. fbMode = "YV16" => yuvImage' \in [0 .. 1 -> [0 .. MemWords' - 1 -> SUBSET P]]
  <2>1. SUFFICES ASSUME fbMode = "YV16"
                 PROVE  yuvImage' \in [0 .. 1 -> [0 .. m - 1 -> SUBSET P]]
    BY <1>6
  <2>2. fbMode \notin Plain
    BY <2>1 DEF Plain
  <2>3. yuvImage' = Put(yuvImage, next, word, {p}) /\ next \in 0 .. 1
    BY <1>8, <2>2
  <2>4. yuvImage \in Images(m, P)
    BY <1>5, <2>1 DEF Images
  <2>5. PutIs(yuvImage', yuvImage, m, P, next, word, {p})
    BY ONLY <1>1, <1>3, <2>3, <2>4, PutCell
  <2> QED  BY <2>5 DEF PutIs, Images
\* The buffer software writes, before and after.
<1>13. PICK old, new :
         /\ Written' = new /\ new[word] = {p}
         /\ \A c \in 0 .. m - 1 : c # word => new[c] = old[c]
         /\ word > 0 => old = Written
  <2>1. CASE fbMode \in Plain
    <3>1. word \in 0 .. n - 1 /\ m = n
      BY <1>3, <2>1
    <3>2. /\ image'[next][word] = {p}
          /\ \A c \in 0 .. m - 1 : c # word => image'[next][c] = base[next][c]
      <4>1. image' = Put(base, next, word, {p}) /\ next \in 0 .. 1
            /\ base \in Images(m, P) /\ word \in 0 .. m - 1
        BY <1>8, <2>1, <3>1 DEF Images
      <4>2. PutIs(image', base, m, P, next, word, {p})
        BY ONLY <1>1, <1>3, <4>1, PutCell
      <4> QED  BY <4>2 DEF PutIs
    <3>3. Written' = image'[next]
      BY <1>1, <1>8, <2>1, <3>1 DEF Written
    <3>4. word > 0 => base[next] = Written
      BY <1>2, <1>3, <1>8, <2>1 DEF Written
    <3> QED  BY <3>2, <3>3, <3>4
  <2>2. CASE fbMode \notin Plain
    <3>1. fbMode = "YV16" /\ yuvImage \in [0 .. 1 -> [0 .. m - 1 -> SUBSET P]]
      BY <1>5, <2>2 DEF ShownModes
    <3>2. /\ yuvImage'[next][word] = {p}
          /\ \A c \in 0 .. m - 1 : c # word => yuvImage'[next][c] = yuvImage[next][c]
      <4>1. yuvImage' = Put(yuvImage, next, word, {p}) /\ next \in 0 .. 1
            /\ yuvImage \in Images(m, P)
        BY <1>8, <2>2, <3>1 DEF Images
      <4>2. PutIs(yuvImage', yuvImage, m, P, next, word, {p})
        BY ONLY <1>1, <1>3, <4>1, PutCell
      <4> QED  BY <4>2 DEF PutIs
    <3>3. Written' = yuvImage'[next]
      BY <1>1, <1>8, <2>2, <3>1 DEF Written
    <3>4. word > 0 => yuvImage[next] = Written
      BY <1>2, <1>3, <1>8, <2>2 DEF Written
    <3> QED  BY <3>2, <3>3, <3>4
  <2> QED  BY <2>1, <2>2
<1>14. ASSUME NEW c \in 0 .. Filled' - 1 PROVE Written'[c] = picture'
  <2>1. c \in 0 .. word /\ c \in 0 .. m - 1
    BY <1>3, <1>6
  <2>2. CASE c = word
    BY <1>3, <1>8, <1>13, <2>2
  <2>3. CASE c # word
    <3>1. word > 0 /\ c \in 0 .. word - 1
      BY <1>3, <2>1, <2>3
    <3>2. Written[c] = picture /\ picture = {p}
      <4>1. Filled = word
        BY <3>1 DEF Filled
      <4> QED  BY <1>8, <3>1, <4>1 DEF SlInv
    <3> QED  BY <1>8, <1>13, <2>1, <2>3, <3>1, <3>2
  <2> QED  BY <2>2, <2>3
<1> QED  BY <1>1, <1>6, <1>8, <1>11, <1>12, <1>14 DEF SlInv

LEMMA SlStep == SlInv /\ SlNext => SlInv'
<1> SUFFICES ASSUME SlInv, SlNext PROVE SlInv'
  OBVIOUS
<1>1. fbMode' = fbMode
  BY DEF SlNext, SlWrite, slVars
<1>2. CASE fbMode \notin ShownModes
  BY <1>1, <1>2 DEF SlInv
<1>3. CASE fbMode \in ShownModes /\ ShowNext /\ UNCHANGED slVars
  <2>1. UNCHANGED <<fbMode, yuvImage, bufIdx, word, picture>>
    BY <1>3 DEF slVars
  <2>2. PICK n, turn : n = ImageCells(fbMode) /\ turn = bufIdx
    OBVIOUS
  <2>3. Follows(turn, n, Pictures) /\ turn \in 0 .. 1 /\ n \in Nat
    BY <1>3, <2>2, FollowsSl, WordsOfModes DEF SlInv
  <2>4. Follows(turn, n, Pictures)' /\ UNCHANGED <<image, displayed>>
    BY <1>3, <2>3, ShowKeeps
  <2>5. Follows(bufIdx, ImageCells(fbMode), Pictures)'
    BY <2>1, <2>2, <2>4, FollowsSlNext
  <2>6. Written' = Written /\ Filled' = Filled /\ MemWords' = MemWords
    BY <2>1, <2>4 DEF Written, Filled, MemWords, Components, YuvSize
  <2> QED  BY <1>3, <2>1, <2>5, <2>6 DEF SlInv
<1>4. CASE fbMode \in ShownModes /\ \E p \in Pictures : SlWrite(p)
  BY <1>4, SlWriteKeeps
<1> QED  BY <1>2, <1>3, <1>4 DEF SlNext
-----------------------------------------------------------------------------
\* What division computes.
LEMMA Divides ==
    ASSUME NEW p \in Nat, NEW w \in Nat \ {0}
    PROVE  p \div w \in Nat /\ p % w \in 0 .. w - 1 /\ p = w * (p \div w) + (p % w)
OBVIOUS

\* ... and that nothing else does.
LEMMA DividesOnly ==
    ASSUME NEW w \in Nat \ {0}, NEW v \in Nat, NEW r \in 0 .. w - 1
    PROVE  (w * v + r) \div w = v /\ (w * v + r) % w = r
<1>1. PICK s : s = w * v + r
  OBVIOUS
<1>2. s \in Nat /\ w * v \in Nat
  BY <1>1
<1>3. PICK u, m : u = s \div w /\ m = s % w
  OBVIOUS
<1>4. u \in Nat /\ m \in 0 .. w - 1 /\ s = w * u + m
  BY <1>2, <1>3, Divides
<1>5. ~(u < v)
  <2> SUFFICES ASSUME u < v PROVE FALSE
    OBVIOUS
  <2>1. w * v >= w * (u + 1) /\ w * (u + 1) = w * u + w /\ w * u \in Nat
    BY <1>4
  <2> QED  BY <1>1, <1>2, <1>4, <2>1
<1>6. ~(v < u)
  <2> SUFFICES ASSUME v < u PROVE FALSE
    OBVIOUS
  <2>1. w * u >= w * (v + 1) /\ w * (v + 1) = w * v + w /\ w * u \in Nat
    BY <1>4
  <2> QED  BY <1>1, <1>2, <1>4, <2>1
<1>7. u = v
  BY <1>4, <1>5, <1>6
<1> QED  BY <1>1, <1>2, <1>3, <1>4, <1>7

\* Column and row of pixel p, and what the loops make of them: the colour of a pair of
\* pixels is number k, in column h of a row of them.
PlaceOf(p, w, x, y) == x \in 0 .. w - 1 /\ y \in Nat /\ p = w * y + x

LEMMA Place ==
    ASSUME NEW w \in Nat \ {0}, NEW h \in Nat \ {0}, NEW p \in 0 .. w * h - 1
    PROVE  PlaceOf(p, w, p % w, p \div w) /\ p \div w \in 0 .. h - 1
<1>0. p \in Nat
  OBVIOUS
<1>1. PlaceOf(p, w, p % w, p \div w)
  BY <1>0, Divides DEF PlaceOf
<1>2. PICK y : y = p \div w
  OBVIOUS
<1>3. y < h
  <2> SUFFICES ASSUME y >= h PROVE FALSE
    BY <1>1, <1>2 DEF PlaceOf
  <2>1. w * y >= w * h /\ w * y \in Nat /\ w * h \in Nat
    BY <1>1, <1>2 DEF PlaceOf
  <2>2. p >= w * y
    BY <1>1, <1>2, <2>1 DEF PlaceOf
  <2> QED  BY <2>1, <2>2
<1> QED  BY <1>1, <1>2, <1>3 DEF PlaceOf

Pairs(p, a, b, x, y, k, h) ==
    /\ h \in 0 .. a - 1 /\ y \in 0 .. 2 * b - 1 /\ k \in Nat
    /\ h = x \div 2 /\ x = 2 * h + (x % 2) /\ x % 2 = p % 2 /\ p % 2 \in 0 .. 1
    /\ k = a * y + h /\ p = 2 * k + (p % 2)
    /\ k % a = h /\ k \div a = y

LEMMA PlaceInPairs ==
    ASSUME NEW a \in Nat \ {0}, NEW b \in Nat \ {0}, NEW p \in 0 .. (2 * a) * (2 * b) - 1
    PROVE  Pairs(p, a, b, p % (2 * a), p \div (2 * a), p \div 2, (p % (2 * a)) \div 2)
<1>1. PICK x, y : x = p % (2 * a) /\ y = p \div (2 * a)
  OBVIOUS
<1>2. x \in 0 .. 2 * a - 1 /\ y \in 0 .. 2 * b - 1 /\ p = (2 * a) * y + x
  <2>1. 2 * a \in Nat \ {0} /\ 2 * b \in Nat \ {0}
    OBVIOUS
  <2> QED  BY <1>1, <2>1, Place DEF PlaceOf
<1>3. PICK h, k, r : h = x \div 2 /\ r = x % 2 /\ k = a * y + h
  OBVIOUS
<1>4. h \in 0 .. a - 1 /\ r \in 0 .. 1 /\ x = 2 * h + r
  BY <1>2, <1>3
<1>5. k \in Nat
  BY <1>2, <1>3, <1>4
<1>6. p = 2 * k + r
  <2>1. 2 * (a * y + h) = (2 * a) * y + 2 * h
    BY <1>2, <1>4
  <2> QED  BY <1>2, <1>3, <1>4, <2>1
<1>7. p \div 2 = k /\ p % 2 = r
  BY <1>4, <1>5, <1>6, DividesOnly
<1>8. k % a = h /\ k \div a = y
  BY <1>2, <1>3, <1>4, DividesOnly
<1> QED  BY <1>1, <1>2, <1>3, <1>4, <1>5, <1>6, <1>7, <1>8 DEF Pairs

-----------------------------------------------------------------------------
\* The bytes of a pixel of the screen are read as they were written.
LEMMA DecodedPixel ==
    ASSUME big \in BOOLEAN, xrgb \in BOOLEAN, NEW r, NEW g, NEW b
    PROVE  /\ Decoded(Pixel(RgbOrder, r, g, b)) = <<r, g, b>>
           /\ YuvOrder = RgbOrder
BY DEF Decoded, Pixel, RgbOrder, YuvOrder

LEMMA DecodedWord ==
    ASSUME big \in BOOLEAN, xrgb \in BOOLEAN, mode \in Words32, NEW k
    PROVE  Decoded(Argb(k)[1]) = IF mode = "ARGB" THEN <<4 * k + 1, 4 * k + 2, 4 * k + 3>>
                                                  ELSE <<4 * k + 2, 4 * k + 1, 4 * k>>
BY DEF Decoded, Argb, Swaps, Words32

\* The samples lie in the image.
Inside(s) == \A n \in 1 .. 3 : s[n] < GetSize(mode, width, height)

\* A pixel of the modes with three or four bytes for each.
LEMMA PackedRight ==
    ASSUME ViewerTypes, mode \notin Yuv, NEW p \in 0 .. width * height - 1,
           NEW x, NEW y, x = p % width, y = p \div width
    PROVE  Decoded(PixelAt(p + 1)) = Wanted(x, y) /\ Inside(SamplesAt(x, y))
<1>1. y * width + x = p
  BY Place DEF ViewerTypes, PlaceOf
<1>2. mode \in Packed \cup Words32 /\ Per = 1
  BY DEF ViewerTypes, Per
<1>3. (p + 1 - 1) \div Per = p /\ (p + 1 - 1) % Per = 0
  BY <1>2
<1>4. PixelAt(p + 1) = Pixels(p)[1]
  BY <1>3 DEF PixelAt
<1>5. PICK area4 : area4 = width * height
  OBVIOUS
<1>6. area4 \in Nat /\ p \in 0 .. area4 - 1 /\ 3 * width * height = 3 * area4
      /\ 4 * width * height = 4 * area4
  BY <1>5 DEF ViewerTypes
<1>7. CASE mode \in Packed
  <2>1. Pixels(p)[1] = IF mode = "RGB" THEN Pixel(RgbOrder, 3 * p, 3 * p + 1, 3 * p + 2)
                                       ELSE Pixel(RgbOrder, 3 * p + 2, 3 * p + 1, 3 * p)
    <3>1. Pixels(p) = Rgb(p)
      BY <1>7 DEF Pixels, Packed, Words32
    <3> QED  BY <3>1 DEF Rgb
  <2>2. SamplesAt(x, y) = IF mode = "RGB" THEN <<3 * p, 3 * p + 1, 3 * p + 2>>
                                          ELSE <<3 * p + 2, 3 * p + 1, 3 * p>>
    BY <1>1, <1>7 DEF SamplesAt, Packed
  <2>3. GetSize(mode, width, height) = 3 * area4
    <3>1. GetSize(mode, width, height) = 3 * width * height
      BY <1>7 DEF GetSize, Packed, Words32, Planar420
    <3> QED  BY <1>6, <3>1
  <2>4. Wanted(x, y) = SamplesAt(x, y)
    BY DEF Wanted
  <2>5. Decoded(Pixels(p)[1]) = SamplesAt(x, y)
    BY <2>1, <2>2, DecodedPixel DEF ViewerTypes
  <2> QED  BY <1>4, <1>6, <2>2, <2>3, <2>4, <2>5 DEF Inside
<1>8. CASE mode \in Words32
  <2>1. Pixels(p) = Argb(p)
    BY <1>8 DEF Pixels, Packed, Words32
  <2>2. SamplesAt(x, y) = IF mode = "ARGB" THEN <<4 * p + 1, 4 * p + 2, 4 * p + 3>>
                                           ELSE <<4 * p + 2, 4 * p + 1, 4 * p>>
    BY <1>1, <1>8 DEF SamplesAt, Words32
  <2>3. GetSize(mode, width, height) = 4 * area4
    <3>1. GetSize(mode, width, height) = 4 * width * height
      BY <1>8 DEF GetSize, Packed, Words32, Planar420
    <3> QED  BY <1>6, <3>1
  <2>4. Wanted(x, y) = SamplesAt(x, y)
    BY DEF Wanted
  <2>5. Decoded(Pixels(p)[1]) = SamplesAt(x, y)
    BY <1>8, <2>1, <2>2, DecodedWord DEF ViewerTypes
  <2> QED  BY <1>4, <1>6, <2>2, <2>3, <2>4, <2>5 DEF Inside
<1> QED  BY <1>2, <1>7, <1>8

\* A pixel of the YUV modes, two of which have one colour: the samples of its block.
LEMMA YuvPixel ==
    ASSUME ViewerTypes, mode \in Yuv, NEW p \in 0 .. width * height - 1,
           NEW x, NEW y, x = p % width, y = p \div width
    PROVE  \E s1, s2, s3 : /\ SamplesAt(x, y) = <<s1, s2, s3>>
                           /\ PixelAt(p + 1) = Coloured(s1, s2, s3)
                           /\ s1 < GetSize(mode, width, height)
                           /\ s2 < GetSize(mode, width, height)
                           /\ s3 < GetSize(mode, width, height)
<1>1. PICK a \in Nat \ {0}, b \in Nat \ {0} :
         width = 2 * a /\ height = 2 * b /\ width \div 2 = a /\ height \div 2 = b
  <2>1. \A n \in Nat \ {0} : n % 2 = 0 => n = 2 * (n \div 2) /\ n \div 2 \in Nat \ {0}
    OBVIOUS
  <2> QED  BY <2>1 DEF ViewerTypes
<1>2. PICK k, h : k = p \div 2 /\ h = x \div 2
  OBVIOUS
<1>3. Pairs(p, a, b, x, y, k, h)
  <2>1. p \in 0 .. (2 * a) * (2 * b) - 1
    BY <1>1
  <2>2. Pairs(p, a, b, p % (2 * a), p \div (2 * a), p \div 2, (p % (2 * a)) \div 2)
    BY ONLY <1>1, <2>1, PlaceInPairs
  <2> QED  BY <1>1, <1>2, <2>2
<1>4. p \in Nat
  OBVIOUS
<1>5. PICK r : r = p % 2
  OBVIOUS
<1>6. /\ r \in 0 .. 1 /\ x % 2 = r /\ k \in Nat /\ h \in 0 .. a - 1 /\ y \in 0 .. 2 * b - 1
      /\ k = a * y + h /\ p = 2 * k + r /\ x = 2 * h + r /\ k % a = h /\ k \div a = y
  BY <1>3, <1>5 DEF Pairs
<1>7. Per = 2
  BY DEF Per, Yuv, Planar420, Packed, Words32
<1>8. PixelAt(p + 1) = Pixels(k)[1 + r]
  <2>1. (p + 1 - 1) \div Per = k /\ (p + 1 - 1) % Per = r
    BY <1>2, <1>4, <1>5, <1>7
  <2> QED  BY <2>1 DEF PixelAt
<1>16. r \in 0 .. 1 /\ k \in Nat /\ p = 2 * k + r
  BY <1>6
<1>17. h \in 0 .. a - 1 /\ y \in 0 .. 2 * b - 1 /\ k = a * y + h
  BY <1>6
<1>18. \A e, f : Pixels(k) = <<e, f>> => PixelAt(p + 1) = IF r = 0 THEN e ELSE f
  <2>1. 1 + r = IF r = 0 THEN 1 ELSE 2
    BY <1>16
  <2> QED  BY <1>8, <2>1
\* An area of a quarter of the picture.
<1>9. PICK q : q = a * b
  OBVIOUS
<1>10. /\ q \in Nat /\ width * height = 4 * q /\ k < 2 * q /\ height * a = 2 * q
  <2>1. (2 * a) * (2 * b) = 4 * (a * b) /\ (2 * b) * a = 2 * (a * b) /\ a * b \in Nat
    OBVIOUS
  <2>2. p < 4 * q
    BY <1>1, <1>9, <2>1
  <2> QED  BY <1>1, <1>6, <1>9, <2>1, <2>2
<1>11. (width * height) \div 2 = 2 * q /\ (width * height) \div 4 = q
  BY <1>10
<1>12. y * width + x = p /\ y * 2 * width + 4 * h = 4 * k
       /\ 2 * h + y * width = p - r
  <2>1. y * width = 2 * (a * y) /\ y * 2 * width = 4 * (a * y) /\ a * y \in Nat
    BY <1>1, <1>17
  <2>2. y * width + x = 2 * k + r
    <3>1. x = 2 * h + r /\ h \in Int
      BY <1>6, <1>17
    <3>2. 2 * (a * y + h) = y * width + 2 * h
      BY <1>17, <2>1
    <3>3. y * width \in Nat
      BY <2>1
    <3> QED  BY <1>16, <1>17, <2>1, <3>1, <3>2
  <2>3. y * 2 * width + 4 * h = 4 * k
    BY <1>17, <2>1
  <2>4. 2 * h + y * width = 2 * k
    BY <1>17, <2>1
  <2> QED  BY <1>16, <2>2, <2>3, <2>4
<1>13. CASE mode = "YVYU"
  <2>1. SamplesAt(x, y) = <<4 * k + 2 * r, 4 * k + 3, 4 * k + 1>>
    BY <1>2, <1>6, <1>12, <1>13 DEF SamplesAt
  <2>2. Pixels(k) = <<Coloured(4 * k, 4 * k + 3, 4 * k + 1), Coloured(4 * k + 2, 4 * k + 3, 4 * k + 1)>>
    BY <1>13 DEF Pixels, Yvyu, Packed, Words32
  <2>3. PixelAt(p + 1) = Coloured(4 * k + 2 * r, 4 * k + 3, 4 * k + 1)
    <3>1. 4 * k + 2 * r = IF r = 0 THEN 4 * k ELSE 4 * k + 2
      BY <1>16
    <3> QED  BY <1>18, <2>2, <3>1
  <2>4. GetSize(mode, width, height) = 8 * q
    <3>1. GetSize(mode, width, height) = 2 * width * height
      BY <1>13 DEF GetSize, Packed, Words32, Planar420
    <3>2. 2 * width * height = 2 * (width * height)
      BY DEF ViewerTypes
    <3> QED  BY <1>10, <3>1, <3>2
  <2>5. 4 * k + 2 * r < 8 * q /\ 4 * k + 3 < 8 * q /\ 4 * k + 1 < 8 * q
    BY <1>10, <1>16
  <2> QED  BY <2>1, <2>3, <2>4, <2>5
<1>14. CASE mode = "YV16"
  <2>1. SamplesAt(x, y) = <<p, 4 * q + k, 4 * q + 2 * q + k>>
    <3>1. y * a + h = k
      BY <1>6
    <3> QED  BY <1>1, <1>2, <1>10, <1>12, <1>14, <3>1 DEF SamplesAt
  <2>2. Pixels(k) = <<Coloured(2 * k, 4 * q + k, 4 * q + k + 2 * q),
                      Coloured(2 * k + 1, 4 * q + k, 4 * q + k + 2 * q)>>
    BY <1>10, <1>11, <1>14 DEF Pixels, Yv16, Packed, Words32
  <2>3. 4 * q + k + 2 * q = 4 * q + 2 * q + k
    BY <1>10, <1>16
  <2>4. PixelAt(p + 1) = Coloured(p, 4 * q + k, 4 * q + 2 * q + k)
    <3>1. p = IF r = 0 THEN 2 * k ELSE 2 * k + 1
      BY <1>16
    <3> QED  BY <1>18, <2>2, <2>3, <3>1
  <2>5. GetSize(mode, width, height) = 8 * q
    <3>1. GetSize(mode, width, height) = 2 * width * height
      BY <1>14 DEF GetSize, Packed, Words32, Planar420
    <3>2. 2 * width * height = 2 * (width * height)
      BY DEF ViewerTypes
    <3> QED  BY <1>10, <3>1, <3>2
  <2>6. p < 8 * q /\ 4 * q + k < 8 * q /\ 4 * q + 2 * q + k < 8 * q
    BY <1>10, <1>16
  <2> QED  BY <2>1, <2>4, <2>5, <2>6
<1>15. CASE mode \in Planar420
  <2>1. PICK c : c = (y \div 2) * a + h
    OBVIOUS
  <2>2. c \in 0 .. q - 1
    <3>1. PICK z : z = y \div 2
      OBVIOUS
    <3>2. z \in 0 .. b - 1
      BY <1>17, <3>1
    <3>3. z * a \in Nat /\ z * a <= (b - 1) * a /\ (b - 1) * a = a * b - a
      BY <3>2
    <3>4. c = z * a + h /\ q = a * b /\ a * b \in Nat
      BY <1>9, <2>1, <3>1
    <3> QED  BY <1>17, <3>3, <3>4
  <2>3. SamplesAt(x, y) = IF mode = "YV12" THEN <<p, 4 * q + q + c, 4 * q + c>>
                                           ELSE <<p, 4 * q + c, 4 * q + q + c>>
    BY <1>1, <1>2, <1>9, <1>10, <1>12, <1>15, <2>1 DEF SamplesAt, Planar420
  <2>4. ASSUME NEW u, NEW v
        PROVE  Blocks(k, u, v) = <<Coloured(p - r, u + c, v + c), Coloured(p - r + 1, u + c, v + c)>>
    <3>1. ((y \div 2) * width) \div 2 = (y \div 2) * a
      <4>1. PICK z : z = y \div 2
        OBVIOUS
      <4>2. z \in Nat
        BY <1>17, <4>1
      <4>3. z * width = 2 * (z * a) /\ z * a \in Nat
        BY <1>1, <4>2
      <4> QED  BY <4>1, <4>3
    <3>2. h + ((y \div 2) * width) \div 2 = c
      BY <1>17, <2>1, <3>1
    <3> QED  BY <1>1, <1>6, <1>12, <3>2 DEF Blocks
  <2>5. mode \notin Packed \cup Words32 \cup {"YVYU", "YV16"}
    BY <1>15 DEF Planar420, Packed, Words32
  <2>6. GetSize(mode, width, height) = 6 * q
    <3>1. GetSize(mode, width, height) = (3 * width * height) \div 2
      BY <1>15, <2>5 DEF GetSize
    <3>2. 3 * width * height = 3 * (width * height)
      BY DEF ViewerTypes
    <3> QED  BY <1>10, <3>1, <3>2
  <2>7. p < 6 * q /\ 4 * q + c < 6 * q /\ 4 * q + q + c < 6 * q
    BY <1>6, <1>10, <2>2
  <2>8. p = IF r = 0 THEN p - r ELSE p - r + 1
    BY <1>16
  <2>9. CASE mode = "YV12"
    <3>1. Pixels(k) = Blocks(k, 4 * q + q, 4 * q)
      BY <1>10, <1>11, <2>5, <2>9 DEF Pixels, Yv12, Planar420
    <3>2. PixelAt(p + 1) = Coloured(p, 4 * q + q + c, 4 * q + c)
      BY <1>18, <2>4, <2>8, <3>1
    <3> QED  BY <2>3, <2>6, <2>7, <2>9, <3>2
  <2>10. CASE mode = "IYUV"
    <3>1. Pixels(k) = Blocks(k, 4 * q, 4 * q + q)
      BY <1>10, <1>11, <2>5, <2>10 DEF Pixels, Iyuv, Planar420
    <3>2. PixelAt(p + 1) = Coloured(p, 4 * q + c, 4 * q + q + c)
      BY <1>18, <2>4, <2>8, <3>1
    <3> QED  BY <2>3, <2>6, <2>7, <2>10, <3>2
  <2> QED  BY <1>15, <2>9, <2>10 DEF Planar420
<1> QED  BY <1>13, <1>14, <1>15 DEF Yuv

LEMMA YuvRight ==
    ASSUME ViewerTypes, mode \in Yuv, NEW p \in 0 .. width * height - 1,
           NEW x, NEW y, x = p % width, y = p \div width
    PROVE  Decoded(PixelAt(p + 1)) = Wanted(x, y) /\ Inside(SamplesAt(x, y))
<1>1. PICK s1, s2, s3 :
        /\ SamplesAt(x, y) = <<s1, s2, s3>> /\ PixelAt(p + 1) = Coloured(s1, s2, s3)
        /\ s1 < GetSize(mode, width, height)
        /\ s2 < GetSize(mode, width, height)
        /\ s3 < GetSize(mode, width, height)
  BY YuvPixel
<1> DEFINE c(component) == <<component, s1, s2, s3>>
<1>2. Coloured(s1, s2, s3) = Pixel(YuvOrder, c("r"), c("g"), c("b"))
  BY DEF Coloured
<1>3. Decoded(PixelAt(p + 1)) = <<c("r"), c("g"), c("b")>>
  <2> HIDE DEF c
  <2> QED  BY <1>1, <1>2, DecodedPixel DEF ViewerTypes
<1>4. Wanted(x, y) = [i \in 1 .. 3 |-> <<<<"r", "g", "b">>[i], s1, s2, s3>>]
  BY <1>1 DEF Wanted
<1>5. [i \in 1 .. 3 |-> <<<<"r", "g", "b">>[i], s1, s2, s3>>] = <<c("r"), c("g"), c("b")>>
  OBVIOUS
<1>6. Inside(SamplesAt(x, y))
  BY <1>1 DEF Inside
<1> QED  BY <1>3, <1>4, <1>5, <1>6
-----------------------------------------------------------------------------
LEMMA ColoursRight == ColoursAreRight
BY DEF ColoursAreRight, Yuv2rgb, Low

\* As many pixels as the picture has.
LEMMA AllPixels ==
    ASSUME ViewerTypes
    PROVE  Iterations \in Nat /\ Per \in 1 .. 2 /\ Per * Iterations = width * height
<1>1. CASE mode \in Packed \cup Words32
  <2>1. Per = 1 /\ Iterations = width * height
    BY <1>1 DEF Per, Iterations, Packed, Words32, Planar420
  <2>2. width * height \in Nat
    BY DEF ViewerTypes
  <2> QED  BY <2>1, <2>2
<1>2. CASE mode \in Yuv
  <2>1. Per = 2 /\ mode \notin Packed \cup Words32
    BY <1>2 DEF Per, Yuv, Planar420, Packed, Words32
  <2>2. PICK a \in Nat \ {0}, b \in Nat \ {0} : width = 2 * a /\ height = 2 * b /\ width \div 2 = a
    <3>1. \A n \in Nat \ {0} : n % 2 = 0 => n = 2 * (n \div 2) /\ n \div 2 \in Nat \ {0}
      OBVIOUS
    <3> QED  BY <1>2, <3>1 DEF ViewerTypes
  <2>3. PICK q \in Nat : q = a * b
    OBVIOUS
  <2>4. width * height = 4 * q /\ height * a = 2 * q
    <3>1. (2 * a) * (2 * b) = 4 * (a * b) /\ (2 * b) * a = 2 * (a * b)
      OBVIOUS
    <3> QED  BY <2>2, <2>3, <3>1
  <2>5. Iterations = IF mode \in {"YVYU", "YV16"} THEN (width * height) \div 2
                                                 ELSE height * (width \div 2)
    BY <1>2, <2>1 DEF Iterations, Yuv, Planar420
  <2>6. Iterations = 2 * q
    BY <2>2, <2>4, <2>5
  <2> QED  BY <2>1, <2>4, <2>6
<1> QED  BY <1>1, <1>2 DEF ViewerTypes

\* What the device allocates holds the image.
LEMMA ImageFits == ViewerTypes => GetSize(mode, width, height) <= DeviceSize(mode, width, height)
<1> SUFFICES ASSUME ViewerTypes PROVE GetSize(mode, width, height) <= DeviceSize(mode, width, height)
  OBVIOUS
<1>1. PICK n : n = width * height
  OBVIOUS
<1>2. n \in Nat /\ 2 * width * height = 2 * n /\ 3 * width * height = 3 * n /\ 4 * width * height = 4 * n
  BY <1>1 DEF ViewerTypes
<1>3. /\ mode \in Packed => GetSize(mode, width, height) = 3 * n
      /\ mode \in Words32 => GetSize(mode, width, height) = 4 * n
      /\ mode \in {"YVYU", "YV16"} => GetSize(mode, width, height) = 2 * n
      /\ mode \in Planar420 => GetSize(mode, width, height) = (3 * n) \div 2
  BY <1>2 DEF GetSize, Packed, Words32, Planar420
<1>4. DeviceSize(mode, width, height) = IF mode \in Words32 THEN 4 * n ELSE 3 * n
  BY <1>2 DEF DeviceSize
<1>5. (3 * n) \div 2 <= 3 * n /\ 2 * n <= 3 * n
  BY <1>2
<1> QED  BY <1>2, <1>3, <1>4, <1>5 DEF ViewerTypes, Yuv

LEMMA ViewerShows == ViewerInv => PictureRight
<1> SUFFICES ASSUME ViewerInv PROVE PictureRight
  OBVIOUS
<1>1. Iterations \in Nat /\ Per \in 1 .. 2 /\ Per * Iterations = width * height
      /\ done \in 0 .. Iterations /\ ViewerTypes
  BY AllPixels DEF ViewerInv
<1>2. PICK n, last : n = Per * done /\ last = width * height
  OBVIOUS
<1>3. n \in Nat /\ n <= last /\ last \in Nat /\ (done = Iterations => n = last)
  <2>1. Per = 1 \/ Per = 2
    BY <1>1
  <2>2. CASE Per = 1
    BY <1>1, <1>2, <2>2
  <2>3. CASE Per = 2
    BY <1>1, <1>2, <2>3
  <2> QED  BY <2>1, <2>2, <2>3
<1>4. pixels = [i \in 1 .. n |-> PixelAt(i)]
  BY <1>2 DEF ViewerInv
<1>5. Len(pixels) = n
  <2>1. pixels \in Seq({PixelAt(i) : i \in 1 .. n})
    BY <1>3, <1>4
  <2>2. DOMAIN pixels = 1 .. n
    BY <1>4
  <2> QED  BY <1>3, <2>1, <2>2
<1>6. ASSUME NEW i \in 1 .. Len(pixels)
      PROVE  /\ Decoded(pixels[i]) = Wanted((i - 1) % width, (i - 1) \div width)
             /\ Inside(SamplesAt((i - 1) % width, (i - 1) \div width))
  <2>1. PICK p : p = i - 1
    OBVIOUS
  <2>2. p \in 0 .. width * height - 1 /\ p + 1 = i /\ pixels[i] = PixelAt(p + 1)
    BY <1>2, <1>3, <1>4, <1>5, <2>1
  <2>3. /\ Decoded(PixelAt(p + 1)) = Wanted(p % width, p \div width)
        /\ Inside(SamplesAt(p % width, p \div width))
    BY <1>1, <2>2, PackedRight, YuvRight
  <2> QED  BY <2>1, <2>2, <2>3
<1>7. done = Iterations => Len(pixels) = width * height
  BY <1>2, <1>3, <1>5
<1> QED  BY <1>1, <1>6, <1>7, ColoursRight, ImageFits DEF PictureRight, Inside

\* An iteration appends its pixels.
LEMMA AppendedPixels ==
    ASSUME ViewerTypes, done \in Nat
    PROVE  /\ Per = 1 => Pixels(done) = <<PixelAt(Per * done + 1)>>
           /\ Per = 2 => Pixels(done) = <<PixelAt(Per * done + 1), PixelAt(Per * done + 2)>>
<1>1. CASE mode \in Packed \cup Words32
  <2>1. Per = 1
    BY <1>1 DEF Per
  <2>2. PixelAt(Per * done + 1) = Pixels(done)[1]
    <3>1. PICK i : i = Per * done + 1
      OBVIOUS
    <3>2. (i - 1) \div Per = done /\ 1 + ((i - 1) % Per) = 1
      BY <2>1, <3>1
    <3>3. PixelAt(i) = Pixels(done)[1]
      BY <3>2 DEF PixelAt
    <3> QED  BY <3>1, <3>3
  <2>3. Pixels(done) = Rgb(done) \/ Pixels(done) = Argb(done)
    BY <1>1 DEF Pixels, Packed, Words32
  <2>4. Pixels(done) = <<Pixels(done)[1]>>
    BY <2>3 DEF Rgb, Argb
  <2> QED  BY <2>1, <2>2, <2>4
<1>2. CASE mode \in Yuv
  <2>1. Per = 2 /\ mode \notin Packed \cup Words32
    BY <1>2 DEF Per, Yuv, Planar420, Packed, Words32
  <2>2. /\ PixelAt(Per * done + 1) = Pixels(done)[1]
        /\ PixelAt(Per * done + 2) = Pixels(done)[2]
    <3>1. PICK i, j : i = Per * done + 1 /\ j = Per * done + 2
      OBVIOUS
    <3>2. (i - 1) \div Per = done /\ 1 + ((i - 1) % Per) = 1
      BY <2>1, <3>1
    <3>3. (j - 1) \div Per = done /\ 1 + ((j - 1) % Per) = 2
      BY <2>1, <3>1
    <3>4. PixelAt(i) = Pixels(done)[1] /\ PixelAt(j) = Pixels(done)[2]
      BY <3>2, <3>3 DEF PixelAt
    <3> QED  BY <3>1, <3>4
  <2>3. \/ Pixels(done) = Yvyu(done) \/ Pixels(done) = Yv16(done)
        \/ Pixels(done) = Yv12(done) \/ Pixels(done) = Iyuv(done)
    BY <1>2, <2>1 DEF Pixels, Yuv, Planar420
  <2>4. \E e, f : Pixels(done) = <<e, f>>
    BY <2>3 DEF Yvyu, Yv16, Yv12, Iyuv, Blocks
  <2>5. Pixels(done) = <<Pixels(done)[1], Pixels(done)[2]>>
    BY <2>4
  <2> QED  BY <2>1, <2>2, <2>5
<1> QED  BY <1>1, <1>2 DEF ViewerTypes

LEMMA Appended ==
    ASSUME NEW n \in Nat, NEW m \in 1 .. 2, NEW f, f = [i \in 1 .. n + m |-> f[i]],
           NEW s, s = [i \in 1 .. n |-> f[i]], NEW t,
           t = IF m = 1 THEN <<f[n + 1]>> ELSE <<f[n + 1], f[n + 2]>>
    PROVE  s \o t = f
<1>1. PICK S : S = {f[i] : i \in 1 .. n + m}
  OBVIOUS
<1>2. s \in Seq(S) /\ Len(s) = n
  <2>1. s \in [1 .. n -> S]
    <3>1. \A i \in 1 .. n : f[i] \in S
      BY <1>1
    <3> QED  BY <3>1
  <2>2. DOMAIN s = 1 .. n
    OBVIOUS
  <2>3. s \in Seq(S)
    BY ONLY <2>1, n \in Nat
  <2> QED  BY <2>2, <2>3
<1>3. t \in Seq(S) /\ Len(t) = m
  <2>1. f[n + 1] \in S /\ (m = 2 => f[n + 2] \in S)
    BY <1>1
  <2> QED  BY <2>1
<1>4. f \in Seq(S) /\ Len(f) = n + m
  <2>1. f \in [1 .. n + m -> S]
    <3>1. \A i \in 1 .. n + m : f[i] \in S
      BY <1>1
    <3> QED  BY <3>1
  <2>2. DOMAIN f = 1 .. n + m
    OBVIOUS
  <2>3. f \in Seq(S)
    BY <2>1
  <2> QED  BY <2>2, <2>3
<1>5. s \o t \in Seq(S) /\ Len(s \o t) = n + m
  BY <1>2, <1>3
<1>6. ASSUME NEW i \in 1 .. n + m PROVE (s \o t)[i] = f[i]
  <2>1. CASE i <= n
    BY <1>2, <1>3, <2>1
  <2>2. CASE i > n
    <3>1. (s \o t)[i] = t[i - n]
      BY <1>2, <1>3, <2>2
    <3>2. i = n + 1 \/ (i = n + 2 /\ m = 2)
      BY <2>2
    <3> QED  BY <3>1, <3>2
  <2> QED  BY <2>1, <2>2
<1> QED  BY <1>4, <1>5, <1>6

\* The conversion is chosen once.
LEMMA SameConversion ==
    ASSUME UNCHANGED <<mode, width, height, big, xrgb>>, ViewerTypes
    PROVE  /\ ViewerTypes' /\ Iterations' = Iterations /\ Per' = Per
           /\ \A i : PixelAt(i)' = PixelAt(i)
<1>1. ViewerTypes' /\ Iterations' = Iterations /\ Per' = Per
  BY DEF ViewerTypes, Iterations, Per
<1>2. ASSUME NEW i PROVE PixelAt(i)' = PixelAt(i)
  <2>1. mode' = mode /\ width' = width /\ height' = height /\ big' = big /\ xrgb' = xrgb
    OBVIOUS
  <2>2. ASSUME NEW k PROVE Pixels(k)' = Pixels(k)
    <3>1. RgbOrder' = RgbOrder /\ YuvOrder' = YuvOrder /\ Swaps' = Swaps
      BY <2>1 DEF RgbOrder, YuvOrder, Swaps
    <3>2. Rgb(k)' = Rgb(k) /\ Argb(k)' = Argb(k)
      BY <2>1, <3>1 DEF Rgb, Argb
    <3>3. ASSUME NEW y, NEW u, NEW v PROVE Coloured(y, u, v)' = Coloured(y, u, v)
      BY <3>1 DEF Coloured
    <3>4. Yvyu(k)' = Yvyu(k) /\ Yv16(k)' = Yv16(k)
      BY <2>1, <3>1 DEF Yvyu, Yv16, Coloured
    <3>5. Yv12(k)' = Yv12(k) /\ Iyuv(k)' = Iyuv(k)
      BY <2>1, <3>1 DEF Yv12, Iyuv, Blocks, Coloured
    <3> QED  BY <2>1, <3>2, <3>4, <3>5 DEF Pixels
  <2> QED  BY <1>1, <2>2 DEF PixelAt
<1> QED  BY <1>1, <1>2

LEMMA ViewerStep == ViewerInv /\ ConvertAndDisplay => ViewerInv'
<1> SUFFICES ASSUME ViewerInv, ConvertAndDisplay PROVE ViewerInv'
  OBVIOUS
<1>1. /\ ViewerTypes /\ done \in 0 .. Iterations /\ done < Iterations /\ done' = done + 1
      /\ pixels' = pixels \o Pixels(done) /\ UNCHANGED <<mode, width, height, big, xrgb>>
  BY DEF ViewerInv, ConvertAndDisplay
<1>2. Iterations \in Nat /\ Per \in 1 .. 2 /\ done \in Nat
  BY <1>1, AllPixels
<1>3. ViewerTypes' /\ Iterations' = Iterations /\ Per' = Per
  BY <1>1, SameConversion
<1>4. \A i : PixelAt(i)' = PixelAt(i)
  BY <1>1, SameConversion
<1>5. PICK n, m : n = Per * done /\ m = Per
  OBVIOUS
<1>6. n \in Nat /\ m \in 1 .. 2 /\ Per' * done' = n + m
  BY <1>1, <1>2, <1>3, <1>5
<1>7. PICK f : f = [i \in 1 .. n + m |-> PixelAt(i)]
  OBVIOUS
<1>8. pixels = [i \in 1 .. n |-> f[i]]
  <2>1. pixels = [i \in 1 .. n |-> PixelAt(i)]
    BY <1>5 DEF ViewerInv
  <2>2. \A i \in 1 .. n : f[i] = PixelAt(i)
    BY <1>6, <1>7
  <2> QED  BY <2>1, <2>2
<1>9. Pixels(done) = IF m = 1 THEN <<f[n + 1]>> ELSE <<f[n + 1], f[n + 2]>>
  <2>1. f[n + 1] = PixelAt(n + 1) /\ (m = 2 => f[n + 2] = PixelAt(n + 2))
    BY <1>6, <1>7
  <2> QED  BY <1>1, <1>2, <1>5, <1>6, <2>1, AppendedPixels
<1>10. f = [i \in 1 .. n + m |-> f[i]]
  BY <1>7
<1>11. pixels' = f
  <2>1. PICK t : t = Pixels(done)
    OBVIOUS
  <2>2. pixels \o t = f
    <3>1. t = IF m = 1 THEN <<f[n + 1]>> ELSE <<f[n + 1], f[n + 2]>>
      BY <1>9, <2>1
    <3>2. PICK s : s = pixels
      OBVIOUS
    <3>3. s = [i \in 1 .. n |-> f[i]]
      BY <1>8, <3>2
    <3>4. n \in Nat /\ m \in 1 .. 2
      BY <1>6
    <3>5. s \o t = f
      BY ONLY <1>10, <3>1, <3>3, <3>4, Appended
    <3> QED  BY <3>2, <3>5
  <2> QED  BY <1>1, <2>1, <2>2
<1>12. f = [i \in 1 .. Per' * done' |-> PixelAt(i)']
  BY <1>4, <1>6, <1>7
<1>13. done' \in 0 .. Iterations'
  BY <1>1, <1>2, <1>3
<1> QED  BY <1>3, <1>11, <1>12, <1>13 DEF ViewerInv

LEMMA ViewerInitial == ViewerInit => ViewerInv
<1> SUFFICES ASSUME ViewerInit PROVE ViewerInv
  OBVIOUS
<1>1. ViewerTypes /\ done = 0 /\ pixels = <<>>
  BY FbViewerAssumption DEF ViewerInit, ViewerTypes
<1>2. Iterations \in Nat /\ Per * done = 0
  BY <1>1, AllPixels
<1>3. pixels = [i \in 1 .. Per * done |-> PixelAt(i)]
  BY <1>1, <1>2
<1> QED  BY <1>1, <1>2, <1>3 DEF ViewerInv
-----------------------------------------------------------------------------
LEMMA RamdacInitial == RamdacInit => RamdacInv
BY DEF RamdacInit, RamdacInv

LEMMA RamdacShows == RamdacInv => PictureShown
<1> SUFFICES ASSUME RamdacInv PROVE PictureShown
  OBVIOUS
<1>1. CASE ready
  <2>1. Follows(ii, WordsOf(dims), RamdacPictures) /\ dims \in Dimensions
    BY <1>1 DEF RamdacInv, WriterTypes
  <2>2. WordsOf(dims) \in Nat
    BY <2>1, ImageWords
  <2> QED  BY <2>1, <2>2, FollowsShows
<1>2. CASE ~ready
  BY <1>2 DEF RamdacInv, NoViewer, PictureShown
<1> QED  BY <1>1, <1>2

LEMMA SlShows == SlInv => SlPictureShown
<1> SUFFICES ASSUME SlInv, fbMode \in ShownModes PROVE PictureShown
  BY DEF SlPictureShown, ShownModes
<1>1. Follows(bufIdx, ImageCells(fbMode), Pictures)
  BY DEF SlInv
<1>2. ImageCells(fbMode) \in Nat
  BY WordsOfModes
<1> QED  BY <1>1, <1>2, FollowsShows

LEMMA ScreenStays ==
    ScreenInv /\ UNCHANGED <<part, viewerVars, xscreen, slVars, ramdacVars>> => ScreenInv'
<1> SUFFICES ASSUME ScreenInv, UNCHANGED <<part, viewerVars, xscreen, slVars, ramdacVars>>
             PROVE  ScreenInv'
  OBVIOUS
<1>1. part' = part
  OBVIOUS
<1>2. CASE part = "viewer"
  <2>1. UNCHANGED <<mode, width, height, big, xrgb, done, pixels>> /\ ViewerInv
    BY <1>2 DEF viewerVars, ScreenInv
  <2>2. ViewerInv'
    BY <2>1, SameConversion DEF ViewerInv
  <2> QED  BY <1>1, <1>2, <2>2 DEF ScreenInv
<1>3. CASE part = "framebuffer"
  <2>1. UNCHANGED <<image, process, usr1, wi, copied, copy, area, displayed>>
        /\ UNCHANGED <<fbMode, yuvImage, bufIdx, word, picture>> /\ SlInv
    BY <1>3 DEF xscreen, xramdac, slVars, ScreenInv
  <2>2. SlInv'
    BY <2>1 DEF SlInv, Follows, ScreenTypes, InTurn, Idle, ShownCells, ImageCells, MemWords,
                Components, YuvSize, Written, Filled
  <2> QED  BY <1>1, <1>3, <2>2 DEF ScreenInv
<1>4. CASE part = "ramdac"
  <2>1. UNCHANGED <<image, process, usr1, wi, copied, copy, area, displayed>>
        /\ UNCHANGED <<software, limit, dims, ready, mx, my, ii, images, drawn>> /\ RamdacInv
    BY <1>4 DEF xscreen, xramdac, ramdacVars, ScreenInv
  <2>2. RamdacInv'
    BY <2>1 DEF RamdacInv, NoViewer, Blank, WriterTypes, Across, Position, WordsOf,
                Follows, ScreenTypes, InTurn, Idle, ShownCells
  <2> QED  BY <1>1, <1>4, <2>2 DEF ScreenInv
<1> QED  BY <1>1, <1>2, <1>3, <1>4 DEF ScreenInv

\* Every step of the composition keeps the screens as they should be.
HostVars == <<part, console, fbVars, viewerVars, xscreen, slVars, ramdacVars>>

LEMMA ScreenStep == ScreenInv /\ [MCNext]_HostVars => ScreenInv'
<1> SUFFICES ASSUME ScreenInv, [MCNext]_HostVars PROVE ScreenInv'
  OBVIOUS
<1>1. CASE UNCHANGED <<viewerVars, xscreen, slVars, ramdacVars>> /\ part' = part
  BY <1>1, ScreenStays
<1>2. CASE part = "viewer" /\ part' = part /\ ConvertAndDisplay
  BY <1>2, ViewerStep DEF ScreenInv
<1>3. CASE part = "framebuffer" /\ part' = part /\ SlNext
  BY <1>3, SlStep DEF ScreenInv
<1>4. CASE part = "ramdac" /\ part' = part /\ RamdacNext
  BY <1>4, RamdacStep DEF ScreenInv
<1>5. CASE MCNext
  BY <1>1, <1>2, <1>3, <1>4, <1>5 DEF MCNext
<1>6. CASE UNCHANGED HostVars
  BY <1>1, <1>6 DEF HostVars
<1> QED  BY <1>5, <1>6

(* Pictures of every size and mode reach the user whole.  The viewer of the       *)
(* framebuffer gives every pixel the colours of its own samples; the two devices  *)
(* behind xramdac show the picture completed last, cell by cell, and nothing of   *)
(* another one.                                                                   *)
THEOREM PicturesAreWhole == MCSpec => []PictureIsWhole
<1>1. MCInit => ScreenInv
  BY RamdacInitial, SlInitial, ViewerInitial DEF MCInit, ScreenInv
<1>2. ScreenInv /\ [MCNext]_HostVars => ScreenInv'
  BY ScreenStep
<1>3. ScreenInv => PictureIsWhole
  BY ViewerShows, SlShows, RamdacShows DEF ScreenInv, PictureIsWhole
<1> QED  BY <1>1, <1>2, <1>3, PTL DEF MCSpec, HostVars
=============================================================================
