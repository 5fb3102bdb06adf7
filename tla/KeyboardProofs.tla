--------------------------- MODULE KeyboardProofs ---------------------------
(***************************************************************************)
(* TLAPS proofs about Keyboard, for every buffer size the uint8_t indices  *)
(* allow and every set of scan codes.                                      *)
(***************************************************************************)
EXTENDS Keyboard, SequenceTheorems, TLAPS

-----------------------------------------------------------------------------
(***************************************************************************)
(* The indices of the ring buffer.                                         *)
(***************************************************************************)

\* The places of the ring.
Places == 0 .. (KEYBOARD_BUF_SIZE - 1)

\* What a place of the buffer holds: a character, or nothing yet.
Cells == {<<>>} \cup Chars

\* The buffer has room for a character.
LEMMA SizeFacts == KEYBOARD_BUF_SIZE \in Nat /\ KEYBOARD_BUF_SIZE >= 2
BY BufSizeAssumption

\* % on sums of two indices: once around at most.
LEMMA WrapsOnce ==
  ASSUME NEW x \in 0 .. (2 * KEYBOARD_BUF_SIZE - 1)
  PROVE  /\ x % KEYBOARD_BUF_SIZE \in Places
         /\ x % KEYBOARD_BUF_SIZE = IF x < KEYBOARD_BUF_SIZE THEN x ELSE x - KEYBOARD_BUF_SIZE
<1> DEFINE N == KEYBOARD_BUF_SIZE
           q == x \div N
           r == x % N
<1>1. N \in Nat /\ N > 0 /\ x \in Nat /\ x < 2 * N
  BY SizeFacts
<1>2. q \in Nat /\ r \in 0 .. (N - 1) /\ x = N * q + r
  BY <1>1, Z3
<1> HIDE DEF q, r, N
<1>3. q = 0 \/ q = 1
  <2>1. SUFFICES ASSUME q >= 2 PROVE FALSE
    BY <1>2
  <2>2. N * q >= N * 2
    BY <2>1, <1>1, <1>2, Z3
  <2> QED BY <2>2, <1>1, <1>2
<1>4. CASE q = 0
  BY <1>1, <1>2, <1>4 DEF N, r, Places
<1>5. CASE q = 1
  BY <1>1, <1>2, <1>5 DEF N, r, Places
<1> QED BY <1>3, <1>4, <1>5

\* How many characters lie between the tail t and the head h, and the place of
\* the i-th of them: Buffered and Content of Keyboard for any two indices.
Used(h, t) == (h + KEYBOARD_BUF_SIZE - t) % KEYBOARD_BUF_SIZE
Place(t, i) == (t + i - 1) % KEYBOARD_BUF_SIZE
Ring(buf, h, t) == [i \in 1..Used(h, t) |-> buf[Place(t, i)]]

\* The next index.
LEMMA IncrFacts ==
  ASSUME NEW i \in Places
  PROVE  /\ Incr(i) \in Places
         /\ Incr(i) = IF i + 1 < KEYBOARD_BUF_SIZE THEN i + 1 ELSE 0
<1>1. i + 1 \in 0 .. (2 * KEYBOARD_BUF_SIZE - 1)
  BY SizeFacts DEF Places
<1> QED BY <1>1, WrapsOnce, SizeFacts DEF Incr, Places

\* How many slots are in use.
LEMMA UsedFacts ==
  ASSUME NEW h \in Places, NEW t \in Places
  PROVE  /\ Used(h, t) \in Places
         /\ Used(h, t) = IF t =< h THEN h - t ELSE h + KEYBOARD_BUF_SIZE - t
<1>1. h + KEYBOARD_BUF_SIZE - t \in 0 .. (2 * KEYBOARD_BUF_SIZE - 1)
  BY SizeFacts DEF Places
<1> QED BY <1>1, WrapsOnce, SizeFacts DEF Used, Places

\* Where the characters lie.
LEMMA PlaceFacts ==
  ASSUME NEW t \in Places, NEW i \in 1..KEYBOARD_BUF_SIZE
  PROVE  /\ Place(t, i) \in Places
         /\ Place(t, i) = IF t + i - 1 < KEYBOARD_BUF_SIZE THEN t + i - 1
                          ELSE t + i - 1 - KEYBOARD_BUF_SIZE
<1>1. t + i - 1 \in 0 .. (2 * KEYBOARD_BUF_SIZE - 1)
  BY SizeFacts DEF Places
<1> QED BY <1>1, WrapsOnce, SizeFacts DEF Place, Places

\* The buffer is empty where the reader finds the indices equal, and the head
\* would run into the tail exactly when KEYBOARD_BUF_SIZE - 1 characters wait.
LEMMA EmptyAndFull ==
  ASSUME NEW h \in Places, NEW t \in Places
  PROVE  /\ Used(h, t) = 0 <=> h = t
         /\ Used(h, t) = KEYBOARD_BUF_SIZE - 1 <=> Incr(h) = t
<1>1. Used(h, t) = IF t =< h THEN h - t ELSE h + KEYBOARD_BUF_SIZE - t
  BY UsedFacts
<1>2. Incr(h) = IF h + 1 < KEYBOARD_BUF_SIZE THEN h + 1 ELSE 0
  BY IncrFacts
<1> QED BY <1>1, <1>2, SizeFacts DEF Places

\* A character pushed at the head is the last of the ring and moves no other.
LEMMA PushAppends ==
  ASSUME NEW buf \in [Places -> Cells], NEW h \in Places, NEW t \in Places,
         NEW char \in Cells, Incr(h) # t
  PROVE  Ring([buf EXCEPT ![h] = char], Incr(h), t) = Append(Ring(buf, h, t), char)
<1> DEFINE n == Used(h, t)
           new == [buf EXCEPT ![h] = char]
           before == Ring(buf, h, t)
           after == Ring(new, Incr(h), t)
<1>0. /\ n = IF t =< h THEN h - t ELSE h + KEYBOARD_BUF_SIZE - t
      /\ Incr(h) \in Places
      /\ Incr(h) = IF h + 1 < KEYBOARD_BUF_SIZE THEN h + 1 ELSE 0
  BY UsedFacts, IncrFacts
<1>1. n \in Nat /\ n + 1 \in 1..KEYBOARD_BUF_SIZE /\ Used(Incr(h), t) = n + 1
  <2>1. Used(Incr(h), t) = IF t =< Incr(h) THEN Incr(h) - t ELSE Incr(h) + KEYBOARD_BUF_SIZE - t
    BY <1>0, UsedFacts
  <2> HIDE DEF n
  <2> QED BY <1>0, <2>1, SizeFacts DEF Places
<1>2. Place(t, n + 1) = h
  <2>1. Place(t, n + 1) = IF t + (n + 1) - 1 < KEYBOARD_BUF_SIZE THEN t + (n + 1) - 1
                          ELSE t + (n + 1) - 1 - KEYBOARD_BUF_SIZE
    BY <1>1, PlaceFacts
  <2> HIDE DEF n
  <2> QED BY <1>0, <1>1, <2>1, SizeFacts DEF Places
<1>3. ASSUME NEW i \in 1..n
      PROVE  Place(t, i) \in Places /\ Place(t, i) # h
  <2>1. i \in 1..KEYBOARD_BUF_SIZE
    BY <1>1, SizeFacts
  <2>2. /\ Place(t, i) \in Places
        /\ Place(t, i) = IF t + i - 1 < KEYBOARD_BUF_SIZE THEN t + i - 1
                         ELSE t + i - 1 - KEYBOARD_BUF_SIZE
    BY <2>1, PlaceFacts
  <2> HIDE DEF n
  <2> QED BY <1>0, <1>1, <2>2, SizeFacts DEF Places
<1> HIDE DEF n
<1>4. before \in Seq(Cells) /\ Len(before) = n /\ \A i \in 1..n : before[i] = buf[Place(t, i)]
  <2>1. before = [i \in 1..n |-> buf[Place(t, i)]]
    BY DEF Ring, n
  <2>2. \A i \in 1..n : buf[Place(t, i)] \in Cells
    BY <1>3
  <2> QED BY <1>1, <2>1, <2>2
<1>5. after = [i \in 1..(n + 1) |-> new[Place(t, i)]]
  BY <1>1 DEF Ring
<1>6. \A i \in 1..(n + 1) : new[Place(t, i)] = Append(before, char)[i]
  <2>1. new[Place(t, n + 1)] = char
    BY <1>2
  <2>2. \A i \in 1..n : new[Place(t, i)] = buf[Place(t, i)]
    BY <1>3
  <2> HIDE DEF before, new
  <2> QED BY <1>1, <1>4, <2>1, <2>2
<1>7. Append(before, char) \in Seq(Cells) /\ Len(Append(before, char)) = n + 1
  <2> HIDE DEF before
  <2> QED BY <1>1, <1>4
<1> HIDE DEF before, after, new
<1>8. after = Append(before, char)
  <2>1. Append(before, char) \in [1..(n + 1) -> Cells]
    BY <1>7, LenProperties
  <2> QED BY <1>5, <1>6, <2>1
<1> QED BY <1>8 DEF before, after, new

\* Advancing the tail takes the first character of the ring away.
LEMMA AdvanceTakesHead ==
  ASSUME NEW buf \in [Places -> Cells], NEW h \in Places, NEW t \in Places, h # t
  PROVE  /\ Ring(buf, h, t) # <<>>
         /\ Head(Ring(buf, h, t)) = buf[t]
         /\ Ring(buf, h, Incr(t)) = Tail(Ring(buf, h, t))
<1> DEFINE n == Used(h, t)
           before == Ring(buf, h, t)
           after == Ring(buf, h, Incr(t))
<1>0. /\ n = IF t =< h THEN h - t ELSE h + KEYBOARD_BUF_SIZE - t
      /\ Incr(t) \in Places
      /\ Incr(t) = IF t + 1 < KEYBOARD_BUF_SIZE THEN t + 1 ELSE 0
  BY UsedFacts, IncrFacts
<1>1. n \in Nat /\ n > 0 /\ n =< KEYBOARD_BUF_SIZE /\ Used(h, Incr(t)) = n - 1
  <2>1. Used(h, Incr(t)) = IF Incr(t) =< h THEN h - Incr(t) ELSE h + KEYBOARD_BUF_SIZE - Incr(t)
    BY <1>0, UsedFacts
  <2> HIDE DEF n
  <2> QED BY <1>0, <2>1, SizeFacts DEF Places
<1>2. Place(t, 1) = t
  <2>1. 1 \in 1..KEYBOARD_BUF_SIZE
    BY SizeFacts
  <2>2. Place(t, 1) = IF t + 1 - 1 < KEYBOARD_BUF_SIZE THEN t + 1 - 1
                      ELSE t + 1 - 1 - KEYBOARD_BUF_SIZE
    BY <2>1, PlaceFacts
  <2> QED BY <2>2, SizeFacts DEF Places
<1>3. \A i \in 1..n : Place(t, i) \in Places
  <2>1. \A i \in 1..n : i \in 1..KEYBOARD_BUF_SIZE
    BY <1>1, SizeFacts
  <2> QED BY <2>1, PlaceFacts
<1>4. ASSUME NEW i \in 1..(n - 1)
      PROVE  Place(Incr(t), i) = Place(t, i + 1)
  <2>1. i \in 1..KEYBOARD_BUF_SIZE /\ i + 1 \in 1..KEYBOARD_BUF_SIZE
    BY <1>1, SizeFacts
  <2>2. Place(t, i + 1) = IF t + (i + 1) - 1 < KEYBOARD_BUF_SIZE THEN t + (i + 1) - 1
                          ELSE t + (i + 1) - 1 - KEYBOARD_BUF_SIZE
    BY <2>1, PlaceFacts
  <2>3. Place(Incr(t), i) = IF Incr(t) + i - 1 < KEYBOARD_BUF_SIZE THEN Incr(t) + i - 1
                            ELSE Incr(t) + i - 1 - KEYBOARD_BUF_SIZE
    BY <1>0, <2>1, PlaceFacts
  <2> QED BY <1>0, <2>1, <2>2, <2>3, SizeFacts DEF Places
<1> HIDE DEF n
<1>5. before \in Seq(Cells) /\ Len(before) = n /\ \A i \in 1..n : before[i] = buf[Place(t, i)]
  <2>1. before = [i \in 1..n |-> buf[Place(t, i)]]
    BY DEF Ring, n
  <2>2. \A i \in 1..n : buf[Place(t, i)] \in Cells
    BY <1>3
  <2> QED BY <1>1, <2>1, <2>2
<1>6. after = [i \in 1..(n - 1) |-> buf[Place(t, i + 1)]]
  <2>1. after = [i \in 1..(n - 1) |-> buf[Place(Incr(t), i)]]
    BY <1>1 DEF Ring
  <2> QED BY <2>1, <1>4
<1> HIDE DEF before, after
<1>7. before # <<>> /\ Head(before) = buf[t]
  BY <1>1, <1>2, <1>5
<1>8. /\ Tail(before) \in Seq(Cells) /\ Len(Tail(before)) = n - 1
      /\ \A i \in 1..(n - 1) : Tail(before)[i] = before[i + 1]
  BY <1>1, <1>5, <1>7, HeadTailProperties
<1>9. after = Tail(before)
  <2>1. \A i \in 1..(n - 1) : Tail(before)[i] = buf[Place(t, i + 1)]
    BY <1>1, <1>5, <1>8
  <2>2. Tail(before) \in [1..(n - 1) -> Cells]
    BY <1>8, LenProperties
  <2> QED BY <1>6, <2>1, <2>2
<1> QED BY <1>7, <1>9 DEF before, after

-----------------------------------------------------------------------------
(***************************************************************************)
(* The invariant.                                                          *)
(***************************************************************************)

\* What the interrupt handler leaves the reader with: characters between the
\* indices, at least one once the test has found them different, and the one the
\* reader has in c still where it was.
ReaderIsSafe ==
  /\ Content \in Seq(Chars)
  /\ reader \in {"read", "advance"} => buf_head # buf_tail
  /\ reader = "advance" => c = keyboard_buffer[buf_tail]

Inv == ShiftOnlyWhileHeld /\ ReaderIsSafe

\* The content of the buffer, slot by slot.
LEMMA ContentIsRing ==
  /\ Content = Ring(keyboard_buffer, buf_head, buf_tail)
  /\ Content' = Ring(keyboard_buffer', buf_head', buf_tail')
BY DEF Content, Buffered, Ring, Used, Place

\* The invariant holds at the start.
LEMMA InitInv == Init => Inv
<1> SUFFICES ASSUME Init PROVE Inv
  OBVIOUS
<1>1. TypeOK /\ shift_pressed = FALSE /\ reader = "out"
  <2>1. 0 \in 0 .. (KEYBOARD_BUF_SIZE - 1)
    BY SizeFacts
  <2>2. keyboard_buffer \in [0 .. (KEYBOARD_BUF_SIZE - 1) -> {<<>>} \cup Chars]
    BY Zenon DEF Init
  <2> QED BY <2>1, <2>2, Zenon DEF Init, TypeOK
<1>2. 0 \in Places /\ Used(0, 0) = 0
  BY UsedFacts, SizeFacts DEF Places
<1>3. Content = << >>
  BY <1>2, ContentIsRing DEF Init, Ring
<1>4. Content \in Seq(Chars)
  BY <1>3
<1> QED BY <1>1, <1>4 DEF Inv, ShiftOnlyWhileHeld, ReaderIsSafe

\* What buf_push does to the characters that wait, with the tail where it is.
LEMMA PushStep ==
  ASSUME Inv, NEW char \in Chars, buf_push(char), UNCHANGED buf_tail
  PROVE  /\ keyboard_buffer' \in [Places -> Cells]
         /\ buf_head' \in Places
         /\ buf_head # buf_tail => buf_head' # buf_tail /\ keyboard_buffer'[buf_tail] = keyboard_buffer[buf_tail]
         /\ \/ /\ Len(Content) < KEYBOARD_BUF_SIZE - 1
               /\ Content' = Append(Content, char)
               /\ dropped' = FALSE
            \/ /\ Len(Content) = KEYBOARD_BUF_SIZE - 1
               /\ Content' = Content
               /\ dropped' = TRUE
<1>1. /\ keyboard_buffer \in [Places -> Cells] /\ buf_head \in Places /\ buf_tail \in Places
      /\ char \in Cells
  BY DEF Inv, ShiftOnlyWhileHeld, TypeOK, Places, Cells
<1>2. /\ Used(buf_head, buf_tail) \in Nat
      /\ Used(buf_head, buf_tail) =< KEYBOARD_BUF_SIZE - 1
      /\ Len(Content) = Used(buf_head, buf_tail)
  BY <1>1, UsedFacts, SizeFacts, ContentIsRing DEF Places, Ring
<1>3. CASE Incr(buf_head) # buf_tail
  <2>1. /\ keyboard_buffer' = [keyboard_buffer EXCEPT ![buf_head] = char]
        /\ buf_head' = Incr(buf_head) /\ dropped' = FALSE /\ buf_tail' = buf_tail
    BY <1>3 DEF buf_push
  <2>2. Content' = Append(Content, char)
    <3>1. Ring([keyboard_buffer EXCEPT ![buf_head] = char], Incr(buf_head), buf_tail)
            = Append(Ring(keyboard_buffer, buf_head, buf_tail), char)
      BY <1>1, <1>3, PushAppends
    <3> QED BY <2>1, <3>1, ContentIsRing
  <2>3. Len(Content) < KEYBOARD_BUF_SIZE - 1
    BY <1>1, <1>2, <1>3, EmptyAndFull, SizeFacts
  <2>4. keyboard_buffer' \in [Places -> Cells] /\ buf_head' \in Places
    BY <1>1, <2>1, IncrFacts
  <2>5. buf_head # buf_tail => buf_head' # buf_tail /\ keyboard_buffer'[buf_tail] = keyboard_buffer[buf_tail]
    BY <1>1, <1>3, <2>1
  <2> QED BY <2>1, <2>2, <2>3, <2>4, <2>5
<1>4. CASE Incr(buf_head) = buf_tail
  <2>1. UNCHANGED <<keyboard_buffer, buf_head, buf_tail>> /\ dropped' = TRUE
    BY <1>4 DEF buf_push
  <2>2. Content' = Content
    BY <2>1, ContentIsRing
  <2>3. Len(Content) = KEYBOARD_BUF_SIZE - 1
    BY <1>1, <1>2, <1>4, EmptyAndFull
  <2> QED BY <1>1, <2>1, <2>2, <2>3
<1> QED BY <1>3, <1>4

\* A step that touches neither the buffer nor its indices.
LEMMA SameContent ==
  ASSUME UNCHANGED <<keyboard_buffer, buf_head, buf_tail>>
  PROVE  Content' = Content
BY ContentIsRing

-----------------------------------------------------------------------------
(***************************************************************************)
(* The handler.                                                            *)
(***************************************************************************)

\* The keys: a shift state is that of a held key or of a shift the keyboard made up.
LEMMA KeysStep ==
  ASSUME Inv, NEW scancode \in ScanCodes, keyboard_handler(scancode)
  PROVE  /\ shift_pressed' \in BOOLEAN /\ caps_lock' \in BOOLEAN
         /\ keys_down' \in SUBSET {LSHIFT, RSHIFT} /\ prefixed' \in BOOLEAN /\ faked' \in BOOLEAN
         /\ shift_pressed' => keys_down' # {} \/ faked'
<1>1. /\ shift_pressed \in BOOLEAN /\ caps_lock \in BOOLEAN
      /\ keys_down \in SUBSET {LSHIFT, RSHIFT} /\ prefixed \in BOOLEAN /\ faked \in BOOLEAN
      /\ shift_pressed => keys_down # {} \/ faked
      /\ scancode \in Nat
  <2>1. scancode \in Nat
    BY ScanCodesAssumption
  <2> QED BY <2>1, Zenon DEF Inv, ShiftOnlyWhileHeld, TypeOK
<1>2. /\ faked' = ((prefixed /\ scancode \in {LSHIFT, RSHIFT}) \/ (faked /\ ~ShiftRelease(scancode)))
      /\ prefixed' = (scancode = PREFIX)
  BY DEF keyboard_handler, Typed
<1>3. prefixed' \in BOOLEAN /\ faked' \in BOOLEAN
  BY <1>2, Zenon
<1>4. keys_down' =
        CASE ~prefixed /\ scancode \in {LSHIFT, RSHIFT} -> keys_down \cup {scancode}
          [] ~prefixed /\ ShiftRelease(scancode)        -> keys_down \ {Released(scancode)}
          [] OTHER                                      -> keys_down
  BY DEF keyboard_handler, Typed
<1>5. CASE KeyReleased(scancode)
  <2>1. /\ scancode >= 128 /\ scancode \notin {LSHIFT, RSHIFT}
        /\ shift_pressed' = (shift_pressed /\ Released(scancode) \notin {LSHIFT, RSHIFT})
        /\ caps_lock' = caps_lock
    BY <1>1, <1>5 DEF KeyReleased, LSHIFT, RSHIFT
  <2>2. CASE ShiftRelease(scancode)
    <3>1. shift_pressed' = FALSE
      BY <2>1, <2>2 DEF ShiftRelease
    <3>2. keys_down' \in SUBSET {LSHIFT, RSHIFT}
      BY <1>1, <1>4, <2>1, <2>2
    <3> QED BY <1>1, <1>3, <2>1, <3>1, <3>2
  <2>3. CASE ~ShiftRelease(scancode)
    <3>1. shift_pressed' = shift_pressed
      BY <1>1, <2>1, <2>3 DEF ShiftRelease
    <3>2. keys_down' = keys_down
      BY <1>1, <1>4, <2>1, <2>3
    <3>3. faked' = faked
      BY <1>1, <1>2, <2>1, <2>3
    <3> QED BY <1>1, <1>3, <2>1, <3>1, <3>2, <3>3
  <2> QED BY <2>2, <2>3
<1>6. CASE ShiftPressed(scancode)
  <2>1. scancode \in {LSHIFT, RSHIFT} /\ shift_pressed' = TRUE /\ caps_lock' = caps_lock
    BY <1>6 DEF ShiftPressed
  <2>2. CASE prefixed
    <3>1. keys_down' = keys_down
      BY <1>4, <2>2
    <3>2. faked' = TRUE
      BY <1>2, <2>1, <2>2
    <3> QED BY <1>1, <1>3, <2>1, <3>1, <3>2
  <2>3. CASE ~prefixed
    <3>1. keys_down' = keys_down \cup {scancode}
      BY <1>4, <2>1, <2>3 DEF ShiftRelease, LSHIFT, RSHIFT
    <3> QED BY <1>1, <1>3, <2>1, <3>1
  <2> QED BY <2>2, <2>3
<1>7. CASE CapsPressed(scancode) \/ KeyPressed(scancode)
  <2>1. scancode < 128 /\ scancode \notin {LSHIFT, RSHIFT}
    BY <1>1, <1>7 DEF CapsPressed, KeyPressed, CAPS, LSHIFT, RSHIFT
  <2>2. shift_pressed' = shift_pressed /\ caps_lock' \in BOOLEAN
    BY <1>1, <1>7, Zenon DEF CapsPressed, KeyPressed
  <2>3. ~ShiftRelease(scancode)
    BY <1>1, <2>1 DEF ShiftRelease
  <2>4. keys_down' = keys_down
    BY <1>1, <1>4, <2>1, <2>3
  <2>5. faked' = faked
    BY <1>1, <1>2, <2>1, <2>3
  <2> QED BY <1>1, <1>3, <2>2, <2>4, <2>5
<1> QED BY <1>5, <1>6, <1>7 DEF keyboard_handler

\* The buffer: unchanged, or one character more at its end, or one refused.
LEMMA HandlerStep ==
  ASSUME Inv, NEW scancode \in ScanCodes, keyboard_handler(scancode)
  PROVE  \/ UNCHANGED <<keyboard_buffer, buf_head, dropped>>
         \/ \E char \in Chars : buf_push(char)
<1>1. CASE KeyReleased(scancode) \/ ShiftPressed(scancode) \/ CapsPressed(scancode)
  BY <1>1 DEF KeyReleased, ShiftPressed, CapsPressed, bufVars
<1>2. CASE KeyPressed(scancode)
  <2>1. CASE scancode \in Printable
    <3>1. buf_push(<<scancode, shift_pressed # caps_lock>>)
      BY <1>2, <2>1 DEF KeyPressed
    <3>2. <<scancode, shift_pressed # caps_lock>> \in Chars
      BY <2>1 DEF Chars
    <3> QED BY <3>1, <3>2
  <2>2. CASE scancode \notin Printable
    BY <1>2, <2>2 DEF KeyPressed, bufVars
  <2> QED BY <2>1, <2>2
<1> QED BY <1>1, <1>2 DEF keyboard_handler

-----------------------------------------------------------------------------
(***************************************************************************)
(* The theorems.                                                           *)
(***************************************************************************)

\* Every step keeps the invariant.
LEMMA NextInv == Inv /\ [Next]_vars => Inv'
<1> SUFFICES ASSUME Inv, [Next]_vars PROVE Inv'
  OBVIOUS
<1>0. /\ TypeOK /\ (shift_pressed => keys_down # {} \/ faked) /\ ReaderIsSafe
      /\ keyboard_buffer \in [Places -> Cells] /\ buf_head \in Places /\ buf_tail \in Places
  BY DEF Inv, ShiftOnlyWhileHeld, TypeOK, Places, Cells
<1>1. ASSUME NEW scancode \in ScanCodes, keyboard_handler(scancode)
      PROVE  Inv'
  <2>1. /\ UNCHANGED <<buf_tail, c, got, hoisted>>
        /\ reader' \in {"out", "test", "hlt", "read", "advance"}
        /\ reader' \in {"read", "advance"} => reader' = reader
    BY <1>0, <1>1 DEF keyboard_handler, Wake, TypeOK
  <2>2. /\ keyboard_buffer' \in [Places -> Cells] /\ buf_head' \in Places /\ dropped' \in BOOLEAN
        /\ Content' \in Seq(Chars)
        /\ buf_head # buf_tail => buf_head' # buf_tail /\ keyboard_buffer'[buf_tail] = keyboard_buffer[buf_tail]
    <3>1. CASE UNCHANGED <<keyboard_buffer, buf_head, dropped>>
      BY <1>0, <2>1, <3>1, SameContent DEF ReaderIsSafe, TypeOK
    <3>2. ASSUME NEW char \in Chars, buf_push(char)
          PROVE  /\ keyboard_buffer' \in [Places -> Cells] /\ buf_head' \in Places
                 /\ dropped' \in BOOLEAN /\ Content' \in Seq(Chars)
                 /\ buf_head # buf_tail => buf_head' # buf_tail /\ keyboard_buffer'[buf_tail] = keyboard_buffer[buf_tail]
      <4>1. Content \in Seq(Chars)
        BY <1>0 DEF ReaderIsSafe
      <4>2. Append(Content, char) \in Seq(Chars)
        BY <4>1, AppendProperties
      <4>3. Content' \in {Content, Append(Content, char)} /\ dropped' \in BOOLEAN
        BY <2>1, <3>2, PushStep
      <4> QED BY <2>1, <3>2, <4>1, <4>2, <4>3, PushStep
    <3> QED BY <1>1, <3>1, <3>2, HandlerStep
  <2>3. TypeOK' /\ (shift_pressed' => keys_down' # {} \/ faked')
    BY <1>0, <1>1, <2>1, <2>2, KeysStep DEF TypeOK, Places, Cells
  <2>4. ReaderIsSafe'
    BY <1>0, <2>1, <2>2 DEF ReaderIsSafe
  <2> QED BY <2>3, <2>4 DEF Inv, ShiftOnlyWhileHeld
<1>2. CASE OtherInterrupt \/ CallGetchar \/ TestEmpty \/ UNCHANGED vars
  <2>1. UNCHANGED <<keyboard_buffer, buf_head, buf_tail, dropped, shift_pressed, caps_lock,
                  keys_down, prefixed, faked, c, hoisted>>
    BY <1>2 DEF OtherInterrupt, CallGetchar, TestEmpty, vars, bufVars, keyVars, readVars
  <2>2. /\ reader' \in {"out", "test", "hlt", "read", "advance"}
        /\ reader' \in {"read", "advance"} => buf_head # buf_tail
        /\ reader' = "advance" => reader = "advance"
        /\ got' \in {got, <<>>}
    BY <1>0, <1>2 DEF OtherInterrupt, CallGetchar, TestEmpty, vars, readVars, Wake, TypeOK, ReaderIsSafe
  <2>3. Content' = Content
    BY <2>1, SameContent
  <2>4. TypeOK'
    BY <1>0, <2>1, <2>2 DEF TypeOK
  <2>5. ReaderIsSafe'
    BY <1>0, <2>1, <2>2, <2>3 DEF ReaderIsSafe
  <2> QED BY <1>0, <2>1, <2>4, <2>5 DEF Inv, ShiftOnlyWhileHeld
<1>3. CASE ReadChar
  <2>1. /\ UNCHANGED <<keyboard_buffer, buf_head, buf_tail, dropped, shift_pressed, caps_lock,
                     keys_down, prefixed, faked, got, hoisted>>
        /\ reader = "read" /\ reader' = "advance" /\ c' = keyboard_buffer[buf_tail]
    BY <1>3 DEF ReadChar, bufVars, keyVars
  <2>2. Content' = Content
    BY <2>1, SameContent
  <2>3. c' \in Cells
    BY <1>0, <2>1
  <2>4. TypeOK'
    BY <1>0, <2>1, <2>3 DEF TypeOK, Cells
  <2>5. ReaderIsSafe'
    BY <1>0, <2>1, <2>2 DEF ReaderIsSafe
  <2> QED BY <1>0, <2>1, <2>4, <2>5 DEF Inv, ShiftOnlyWhileHeld
<1>4. CASE AdvanceTail
  <2>1. /\ UNCHANGED <<keyboard_buffer, buf_head, dropped, shift_pressed, caps_lock,
                     keys_down, prefixed, faked, hoisted>>
        /\ reader = "advance" /\ reader' = "out" /\ c' = <<>> /\ got' = <<c>> /\ buf_tail' = Incr(buf_tail)
    BY <1>4 DEF AdvanceTail, bufVars, keyVars
  <2>2. buf_head # buf_tail /\ c = keyboard_buffer[buf_tail]
    BY <1>0, <2>1 DEF ReaderIsSafe
  <2>3. Content # <<>> /\ Head(Content) = c /\ Content' = Tail(Content)
    BY <1>0, <2>1, <2>2, ContentIsRing, AdvanceTakesHead
  <2>4. c \in Chars /\ Content' \in Seq(Chars)
    BY <1>0, <2>3, HeadTailProperties DEF ReaderIsSafe
  <2>5. buf_tail' \in Places
    BY <1>0, <2>1, IncrFacts
  <2>6. TypeOK'
    BY <1>0, <2>1, <2>4, <2>5 DEF TypeOK, Places
  <2>7. ReaderIsSafe'
    BY <2>1, <2>4 DEF ReaderIsSafe
  <2> QED BY <1>0, <2>1, <2>6, <2>7 DEF Inv, ShiftOnlyWhileHeld
<1> QED BY <1>1, <1>2, <1>3, <1>4 DEF Next, Getchar

\* The invariant holds of every execution of the driver.
THEOREM DriverInvariant == Spec => []Inv
<1> QED BY InitInv, NextInv, PTL DEF Spec

\* The shift state the driver keeps is that of a shift key the user holds or of one
\* the keyboard made up and has not taken back, whatever keys are pressed and
\* released in whatever order, and the driver's state is well typed: no place the reader takes a character from is still empty.
THEOREM ShiftIsHeld == Spec => []ShiftOnlyWhileHeld
<1>1. Inv => ShiftOnlyWhileHeld
  BY DEF Inv
<1> QED BY <1>1, DriverInvariant, PTL

\* What the reader's steps and the handler's do to the characters that wait, the
\* result of the read and the note of a refusal.
LEMMA StepIsQueueStep == Inv /\ [Next]_vars => [Queue!Next]_Queue!queueVars
<1> USE DEF Queue!queueVars
<1> SUFFICES ASSUME Inv, [Next]_vars PROVE [Queue!Next]_Queue!queueVars
  OBVIOUS
<1>0. ReaderIsSafe /\ keyboard_buffer \in [Places -> Cells] /\ buf_head \in Places /\ buf_tail \in Places
  BY DEF Inv, ShiftOnlyWhileHeld, TypeOK, Places, Cells
<1>1. ASSUME NEW scancode \in ScanCodes, keyboard_handler(scancode)
      PROVE  [Queue!Next]_Queue!queueVars
  <2>1. UNCHANGED <<buf_tail, got>>
    BY <1>1 DEF keyboard_handler
  <2>2. CASE UNCHANGED <<keyboard_buffer, buf_head, dropped>>
    BY <2>1, <2>2, SameContent
  <2>3. ASSUME NEW char \in Chars, buf_push(char)
        PROVE  Queue!Next
    <3>1. Queue!Put(char) \/ Queue!Refuse
      BY <2>1, <2>3, PushStep DEF Queue!Put, Queue!Refuse
    <3> QED BY <3>1 DEF Queue!Next
  <2> QED BY <1>1, <2>2, <2>3, HandlerStep
<1>2. CASE OtherInterrupt \/ TestEmpty \/ ReadChar \/ UNCHANGED vars
  <2>1. UNCHANGED <<keyboard_buffer, buf_head, buf_tail, dropped, got>>
    BY <1>2 DEF OtherInterrupt, TestEmpty, ReadChar, vars, bufVars, readVars
  <2> QED BY <2>1, SameContent
<1>3. CASE CallGetchar
  <2>1. UNCHANGED <<keyboard_buffer, buf_head, buf_tail, dropped>> /\ got' = <<>>
    BY <1>3 DEF CallGetchar, bufVars
  <2>2. Queue!Call
    BY <2>1, SameContent DEF Queue!Call
  <2> QED BY <2>2 DEF Queue!Next
<1>4. CASE AdvanceTail
  <2>1. /\ UNCHANGED <<keyboard_buffer, buf_head, dropped>>
        /\ reader = "advance" /\ got' = <<c>> /\ buf_tail' = Incr(buf_tail)
    BY <1>4 DEF AdvanceTail, bufVars
  <2>2. buf_head # buf_tail /\ c = keyboard_buffer[buf_tail]
    BY <1>0, <2>1 DEF ReaderIsSafe
  <2>3. Content # <<>> /\ Head(Content) = c /\ Content' = Tail(Content)
    BY <1>0, <2>1, <2>2, ContentIsRing, AdvanceTakesHead
  <2>4. Queue!Get
    BY <2>1, <2>3 DEF Queue!Get
  <2> QED BY <2>4 DEF Queue!Next
<1> QED BY <1>1, <1>2, <1>3, <1>4 DEF Next, Getchar

\* Whatever the handler does between the reader's accesses to the indices, the ring
\* buffer is a first-in first-out queue of KEYBOARD_BUF_SIZE - 1 characters: each
\* comes out once, in order, and one is refused only when the queue is full.
THEOREM BufferIsQueue == Spec => ImplementsCharQueue
<1>1. Init => Queue!Init
  <2>1. ASSUME Init PROVE Content = <<>>
    <3>1. 0 \in Places /\ Used(0, 0) = 0
      BY UsedFacts, SizeFacts DEF Places
    <3> QED BY <2>1, <3>1, ContentIsRing DEF Init, Ring
  <2> QED BY <2>1 DEF Init, Queue!Init
<1> QED BY <1>1, StepIsQueueStep, DriverInvariant, PTL DEF Spec, ImplementsCharQueue, Queue!Spec
=============================================================================
