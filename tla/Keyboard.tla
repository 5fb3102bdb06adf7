------------------------------ MODULE Keyboard ------------------------------
(***************************************************************************)
(* The PS/2 keyboard, drivers/keyboard.c: the interrupt handler decodes    *)
(* scan codes and fills a ring buffer, keyboard_getchar empties it from a  *)
(* thread.  The handler is one action (interrupts are off); the reader can *)
(* be interrupted between any two accesses to the shared indices.          *)
(*                                                                         *)
(* Scan codes are the bytes of the controller.  A character is the table   *)
(* index and the table it was taken from.                                  *)
(***************************************************************************)
EXTENDS Naturals, Sequences

CONSTANTS
  KEYBOARD_BUF_SIZE,
  Printable,          \* the indices of scancode_table with a character, not 0
  ScanCodes           \* the bytes the controller sends in this model

ASSUME BufSizeAssumption == KEYBOARD_BUF_SIZE \in 2..256    \* the indices are uint8_t
ASSUME ScanCodesAssumption == Printable \subseteq 0..57 /\ ScanCodes \subseteq 0..255

VARIABLES
  keyboard_buffer, buf_head, buf_tail,
  shift_pressed, caps_lock,
  keys_down,   \* the shift keys the user holds (external)
  prefixed,    \* the keyboard has just sent 0xE0 (external)
  faked,       \* the keyboard has pressed a shift the user does not hold (external)
  reader,      \* how far keyboard_getchar is: "out", "test", "hlt", "read", "advance"
  c,           \* the local c of keyboard_getchar, <<>> before it is set
  got,         \* what keyboard_getchar has returned, <<>> before it does
  dropped,     \* history: buf_push refused the last character
  hoisted      \* the build keeps buf_head and buf_tail in registers in the loop

bufVars  == <<keyboard_buffer, buf_head, dropped>>
keyVars  == <<shift_pressed, caps_lock, keys_down, prefixed, faked>>
readVars == <<buf_tail, reader, c, got>>
vars == <<bufVars, keyVars, readVars, hoisted>>

Chars == Printable \X BOOLEAN

LSHIFT == 42      \* 0x2A
RSHIFT == 54      \* 0x36
CAPS   == 58      \* 0x3A
PREFIX == 224     \* 0xE0
Released(scancode) == scancode % 128

Incr(i) == (i + 1) % KEYBOARD_BUF_SIZE

TypeOK ==
  /\ keyboard_buffer \in [0 .. (KEYBOARD_BUF_SIZE - 1) -> {<<>>} \cup Chars]
  /\ buf_head \in 0 .. (KEYBOARD_BUF_SIZE - 1)
  /\ buf_tail \in 0 .. (KEYBOARD_BUF_SIZE - 1)
  /\ shift_pressed \in BOOLEAN /\ caps_lock \in BOOLEAN
  /\ keys_down \in SUBSET {LSHIFT, RSHIFT} /\ prefixed \in BOOLEAN /\ faked \in BOOLEAN
  /\ reader \in {"out", "test", "hlt", "read", "advance"}
  /\ c \in {<<>>} \cup Chars
  /\ got \in {<<>>} \cup {<<x>> : x \in Chars}
  /\ dropped \in BOOLEAN /\ hoisted \in BOOLEAN

\* The indices are not volatile and the asm of the hlt has no "memory" clobber:
\* a build may or may not reload them in the loop.
Init ==
  /\ keyboard_buffer = [i \in 0 .. (KEYBOARD_BUF_SIZE - 1) |-> <<>>]
  /\ buf_head = 0 /\ buf_tail = 0
  /\ shift_pressed = FALSE /\ caps_lock = FALSE
  /\ keys_down = {} /\ prefixed = FALSE /\ faked = FALSE
  /\ reader = "out" /\ c = <<>> /\ got = <<>> /\ dropped = FALSE
  /\ hoisted \in BOOLEAN

-----------------------------------------------------------------------------
(***************************************************************************)
(* keyboard_handler.                                                       *)
(***************************************************************************)

\* Any interrupt ends a hlt.
Wake == IF reader = "hlt" THEN (IF hoisted THEN "hlt" ELSE "test") ELSE reader

\* Mutant of buf_push: the test for a full buffer is missing.
BufPushUntested(char) ==
  /\ keyboard_buffer' = [keyboard_buffer EXCEPT ![buf_head] = char]
  /\ buf_head' = Incr(buf_head)
  /\ dropped' = FALSE

buf_push(char) ==
  \/ /\ Incr(buf_head) # buf_tail
     /\ keyboard_buffer' = [keyboard_buffer EXCEPT ![buf_head] = char]
     /\ buf_head' = Incr(buf_head)
     /\ dropped' = FALSE
  \/ /\ Incr(buf_head) = buf_tail
     /\ dropped' = TRUE
     /\ UNCHANGED <<keyboard_buffer, buf_head>>

\* Mutant of KeyReleased: only the left shift key is recognised.
KeyReleasedLeftOnly(scancode) ==
  /\ scancode >= 128
  /\ shift_pressed' = (shift_pressed /\ Released(scancode) # LSHIFT)
  /\ UNCHANGED <<bufVars, caps_lock>>

KeyReleased(scancode) ==
  /\ scancode >= 128
  /\ shift_pressed' = (shift_pressed /\ Released(scancode) \notin {LSHIFT, RSHIFT})
  /\ UNCHANGED <<bufVars, caps_lock>>

ShiftPressed(scancode) ==
  /\ scancode \in {LSHIFT, RSHIFT}
  /\ shift_pressed' = TRUE
  /\ UNCHANGED <<bufVars, caps_lock>>

CapsPressed(scancode) ==
  /\ scancode = CAPS
  /\ caps_lock' = ~caps_lock
  /\ UNCHANGED <<bufVars, shift_pressed>>

\* shift_pressed ^ caps_lock selects the table; beyond the tables, and where
\* they hold 0, nothing is pushed.
KeyPressed(scancode) ==
  /\ scancode < 128 /\ scancode \notin {LSHIFT, RSHIFT, CAPS}
  /\ \/ /\ scancode \in Printable
        /\ buf_push(<<scancode, shift_pressed # caps_lock>>)
     \/ /\ scancode \notin Printable
        /\ UNCHANGED bufVars
  /\ UNCHANGED <<shift_pressed, caps_lock>>

ShiftRelease(scancode) == scancode >= 128 /\ Released(scancode) \in {LSHIFT, RSHIFT}

\* What the bytes mean at the keyboard.  A shift key the user presses or releases
\* sends its code alone, a release after a press.  Behind 0xE0 the same code is a
\* shift the keyboard makes up for Print Screen and the grey keys; a release of a
\* shift, alone or behind 0xE0, takes it back.
Typed(scancode) ==
  /\ ShiftRelease(scancode) /\ ~prefixed => Released(scancode) \in keys_down
  /\ keys_down' =
       CASE ~prefixed /\ scancode \in {LSHIFT, RSHIFT} -> keys_down \cup {scancode}
         [] ~prefixed /\ ShiftRelease(scancode)        -> keys_down \ {Released(scancode)}
         [] OTHER                                      -> keys_down
  /\ faked' = ((prefixed /\ scancode \in {LSHIFT, RSHIFT}) \/ (faked /\ ~ShiftRelease(scancode)))
  /\ prefixed' = (scancode = PREFIX)

\* The handler does not look at 0xE0: it is a release of no key it knows.
keyboard_handler(scancode) ==
  /\ Typed(scancode)
  /\ \/ KeyReleased(scancode)
     \/ ShiftPressed(scancode)
     \/ CapsPressed(scancode)
     \/ KeyPressed(scancode)
  /\ reader' = Wake
  /\ UNCHANGED <<buf_tail, c, got, hoisted>>

\* Every other interrupt; the timer's comes every millisecond.
OtherInterrupt ==
  /\ reader = "hlt"
  /\ reader' = Wake
  /\ UNCHANGED <<bufVars, keyVars, buf_tail, c, got, hoisted>>

-----------------------------------------------------------------------------
(***************************************************************************)
(* keyboard_getchar, called by one thread.                                 *)
(***************************************************************************)

CallGetchar ==
  /\ reader = "out"
  /\ reader' = "test" /\ got' = <<>>
  /\ UNCHANGED <<bufVars, keyVars, buf_tail, c, hoisted>>

\* Mutant of TestEmpty: the loop waits for a second character.
TestOneMore ==
  /\ reader = "test"
  /\ reader' = IF buf_head \in {buf_tail, Incr(buf_tail)} THEN "hlt" ELSE "read"
  /\ UNCHANGED <<bufVars, keyVars, buf_tail, c, got, hoisted>>

\* while (buf_head == buf_tail) hlt: an interrupt may fall before the hlt.
TestEmpty ==
  /\ reader = "test"
  /\ reader' = IF buf_head = buf_tail THEN "hlt" ELSE "read"
  /\ UNCHANGED <<bufVars, keyVars, buf_tail, c, got, hoisted>>

ReadChar ==
  /\ reader = "read"
  /\ c' = keyboard_buffer[buf_tail]
  /\ reader' = "advance"
  /\ UNCHANGED <<bufVars, keyVars, buf_tail, got, hoisted>>

AdvanceTail ==
  /\ reader = "advance"
  /\ buf_tail' = Incr(buf_tail)
  /\ got' = <<c>> /\ c' = <<>>
  /\ reader' = "out"
  /\ UNCHANGED <<bufVars, keyVars, hoisted>>

Getchar == TestEmpty \/ ReadChar \/ AdvanceTail

Next ==
  \/ \E scancode \in ScanCodes : keyboard_handler(scancode)
  \/ OtherInterrupt
  \/ CallGetchar
  \/ Getchar

Spec == Init /\ [][Next]_vars

\* The thread in keyboard_getchar runs and the timer ticks; nobody has to type
\* or to call.
FairSpec == Spec /\ WF_vars(Getchar) /\ WF_vars(OtherInterrupt)

-----------------------------------------------------------------------------
(***************************************************************************)
(* Properties.                                                             *)
(***************************************************************************)

Buffered == (buf_head + KEYBOARD_BUF_SIZE - buf_tail) % KEYBOARD_BUF_SIZE

Content == [i \in 1..Buffered |-> keyboard_buffer[(buf_tail + i - 1) % KEYBOARD_BUF_SIZE]]

Queue == INSTANCE CharQueue WITH queue <- Content, Capacity <- KEYBOARD_BUF_SIZE - 1

\* Whatever the handler does between the reader's accesses, characters come out
\* in the order they went in, each once, and one is refused only when
\* KEYBOARD_BUF_SIZE - 1 are waiting.
ImplementsCharQueue == Queue!Spec

\* The driver does not take a shifted state with it when a shift is released:
\* shift_pressed is set only while the user holds a shift key or a shift made up by
\* the keyboard, which keyboard.c:45 takes for a key, has not been taken back.
ShiftOnlyWhileHeld == TypeOK /\ (shift_pressed => keys_down # {} \/ faked)

\* With a build that reloads the indices, keyboard_getchar returns once there is
\* a character, even if the key was pressed between the test and the hlt.
GetcharReturns ==
  (~hoisted /\ reader # "out" /\ Buffered > 0) ~> (reader = "out")
=============================================================================
