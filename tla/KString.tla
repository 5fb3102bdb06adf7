------------------------------ MODULE KString -------------------------------
(***************************************************************************)
(* lib/string.c: each function as its loop over a memory of bytes, one     *)
(* action for a turn of the loop, against what the C standard says of it   *)
(* ("They must be implemented as the C specification mandates",            *)
(* string.c:7).  A call has arguments a (dest, s1), b (src, s2), n and c.  *)
(***************************************************************************)
EXTENDS Integers

CONSTANTS
  Size,      \* the memory is 0 .. Size - 1
  Bytes,     \* the bytes it holds; 0 ends a string
  Ints       \* the values of the int c of memset and strrchr

ASSUME SizeAssumption == Size \in Nat \ {0}
ASSUME BytesAssumption == Bytes \subseteq 0..255 /\ 0 \in Bytes
ASSUME IntsAssumption == Ints \subseteq Int /\ \A x \in Ints : x % 256 \in Bytes

VARIABLES
  mem,
  mem0,           \* history: the memory at the call
  f, a, b, n, c,  \* the call
  i,              \* the index of the loop
  last,           \* the local of strrchr, <<>> for NULL
  pc, ret

vars == <<mem, mem0, f, a, b, n, c, i, last, pc, ret>>
call == <<mem0, f, a, b, n, c>>

Addr == 0 .. (Size - 1)
Functions == {"memcpy", "memset", "memmove", "memcmp", "strcmp", "strcpy", "strrchr", "strlen"}

\* The bytes up to the first 0 from p: where the string at p ends.
EndsAt(m, p, e) == p + e \in Addr /\ m[p + e] = 0 /\ \A j \in 0 .. (e - 1) : m[p + j] # 0
IsString(m, p) == \E e \in 0 .. (Size - 1) : EndsAt(m, p, e)
StringLength(m, p) == CHOOSE e \in 0 .. (Size - 1) : EndsAt(m, p, e)

Apart(p, q, len) == p + len <= q \/ q + len <= p

\* The calls C allows: objects of n bytes, ended strings, no overlap where the
\* parameters are restrict.
Allowed ==
  CASE f \in {"memmove", "memcmp"} -> a + n <= Size /\ b + n <= Size
    [] f = "memcpy"  -> a + n <= Size /\ b + n <= Size /\ Apart(a, b, n)
    [] f = "memset"  -> a + n <= Size /\ b = 0
    [] f = "strcmp"  -> n = 0 /\ IsString(mem, a) /\ IsString(mem, b)
    [] f = "strcpy"  -> /\ n = 0 /\ IsString(mem, b)
                        /\ LET len == StringLength(mem, b) + 1 IN a + len <= Size /\ Apart(a, b, len)
    [] OTHER         -> n = 0 /\ b = 0 /\ IsString(mem, a)

Init ==
  /\ mem \in [Addr -> Bytes] /\ mem0 = mem
  /\ f \in Functions /\ a \in Addr /\ b \in Addr /\ n \in 0..Size
  /\ c \in (IF f \in {"memset", "strrchr"} THEN Ints ELSE {0})
  /\ Allowed
  /\ i = (IF f = "memmove" /\ b < a THEN n ELSE 0)
  /\ last = <<>> /\ pc = "loop" /\ ret = <<>>

TypeOK ==
  /\ mem \in [Addr -> Bytes] /\ mem0 \in [Addr -> Bytes]
  /\ f \in Functions /\ {a, b} \subseteq Addr /\ n \in 0..Size /\ c \in Ints \cup {0}
  /\ i \in 0..Size
  /\ last \in {<<>>} \cup {<<p>> : p \in Addr}
  /\ pc \in {"loop", "done"}
  /\ ret \in {<<>>} \cup {<<r>> : r \in -1..Size}

-----------------------------------------------------------------------------

Running(name) == f = name /\ pc = "loop"

Return(r) == pc' = "done" /\ ret' = r /\ UNCHANGED <<mem, i, last, call>>

Store(p, byte, next) ==
  /\ mem' = [mem EXCEPT ![p] = byte]
  /\ i' = next
  /\ UNCHANGED <<last, pc, ret, call>>

memcpy ==
  /\ Running("memcpy")
  /\ IF i < n THEN Store(a + i, mem[b + i], i + 1) ELSE Return(<<a>>)

\* Mutant of Byte: the argument is taken as it is.
ByteUncut == c

\* (uint8_t)c of memset, (char)c of strrchr: the last byte of the int.
Byte == c % 256

memset ==
  /\ Running("memset")
  /\ IF i < n THEN Store(a + i, Byte, i + 1) ELSE Return(<<a>>)

\* Mutant of memmove: always upwards, as memcpy.
MemmoveUpwards ==
  /\ Running("memmove")
  /\ LET j == IF b < a THEN n - i ELSE i IN
     IF j < n THEN Store(a + j, mem[b + j], IF b < a THEN i - 1 ELSE i + 1) ELSE Return(<<a>>)

\* Upwards if src is above dest, downwards if below; nothing to do if equal.
memmove ==
  /\ Running("memmove")
  /\ \/ b > a /\ i < n /\ Store(a + i, mem[b + i], i + 1)
     \/ b < a /\ i > 0 /\ Store(a + i - 1, mem[b + i - 1], i - 1)
     \/ (b = a \/ (b > a /\ i >= n) \/ (b < a /\ i = 0)) /\ Return(<<a>>)

\* The bytes are unsigned.
Compare(x, y) == IF x < y THEN -1 ELSE 1

Skip == i' = i + 1 /\ UNCHANGED <<mem, last, pc, ret, call>>

memcmp ==
  /\ Running("memcmp")
  /\ IF i = n THEN Return(<<0>>)
     ELSE IF mem[a + i] # mem[b + i] THEN Return(<<Compare(mem[a + i], mem[b + i])>>)
     ELSE Skip

strcmp ==
  /\ Running("strcmp")
  /\ IF mem[a + i] # mem[b + i] THEN Return(<<Compare(mem[a + i], mem[b + i])>>)
     ELSE IF mem[a + i] = 0 THEN Return(<<0>>)
     ELSE Skip

\* The 0 is copied too, and ends the loop.
strcpy ==
  /\ Running("strcpy")
  /\ mem' = [mem EXCEPT ![a + i] = mem[b + i]]
  /\ IF mem[b + i] = 0
     THEN pc' = "done" /\ ret' = <<a>> /\ UNCHANGED i
     ELSE i' = i + 1 /\ UNCHANGED <<pc, ret>>
  /\ UNCHANGED <<last, call>>

\* The 0 itself can be found.
strrchr ==
  /\ Running("strrchr")
  /\ last' = IF mem[a + i] = Byte THEN <<a + i>> ELSE last
  /\ IF mem[a + i] = 0
     THEN pc' = "done" /\ ret' = last' /\ UNCHANGED i
     ELSE i' = i + 1 /\ UNCHANGED <<pc, ret>>
  /\ UNCHANGED <<mem, call>>

strlen ==
  /\ Running("strlen")
  /\ IF mem[a + i] = 0 THEN Return(<<i>>) ELSE Skip

Next == memcpy \/ memset \/ memmove \/ memcmp \/ strcmp \/ strcpy \/ strrchr \/ strlen

Spec == Init /\ [][Next]_vars

-----------------------------------------------------------------------------
(***************************************************************************)
(* Properties.                                                             *)
(***************************************************************************)

\* The memory after a copy of len bytes of the memory at the call.
Copied(len) == [p \in Addr |-> IF p \in a .. (a + len - 1) THEN mem0[p - a + b] ELSE mem0[p]]

\* The order of two byte strings at their first difference below len, if any.
Order(len) ==
  LET diff == {j \in 0 .. (len - 1) : mem0[a + j] # mem0[b + j]}
      first == CHOOSE j \in diff : \A h \in diff : j <= h
  IN IF diff = {} THEN 0 ELSE IF mem0[a + first] < mem0[b + first] THEN -1 ELSE 1

Shorter == IF StringLength(mem0, a) < StringLength(mem0, b)
           THEN StringLength(mem0, a) ELSE StringLength(mem0, b)

Found == {p \in a .. (a + StringLength(mem0, a)) : mem0[p] = c % 256}

\* No byte outside the objects of the call is touched: the index stays below n, or
\* at most at the end of the shorter string.
StaysInside ==
  pc = "loop" =>
    CASE f \in {"memcpy", "memset", "memmove", "memcmp"} -> i <= n
      [] f = "strcmp" -> i <= Shorter
      [] f = "strcpy" -> i <= StringLength(mem0, b)
      [] OTHER        -> i <= StringLength(mem0, a)

\* Every function returns what the C standard says and leaves the memory it says:
\* memmove copies the bytes there were before the call however the two objects
\* overlap, comparisons are of unsigned bytes, nothing else is touched.
AsTheStandardMandates ==
  /\ TypeOK /\ StaysInside
  /\ pc = "done" =>
       CASE f \in {"memcpy", "memmove"} -> mem = Copied(n) /\ ret = <<a>>
         [] f = "memset"  -> /\ mem = [p \in Addr |-> IF p \in a .. (a + n - 1) THEN c % 256 ELSE mem0[p]]
                             /\ ret = <<a>>
         [] f = "memcmp"  -> mem = mem0 /\ ret = <<Order(n)>>
         [] f = "strcmp"  -> mem = mem0 /\ ret = <<Order(Shorter + 1)>>
         [] f = "strcpy"  -> mem = Copied(StringLength(mem0, b) + 1) /\ ret = <<a>>
         [] f = "strrchr" -> /\ mem = mem0
                             /\ ret = IF Found = {} THEN <<>>
                                      ELSE <<CHOOSE p \in Found : \A q \in Found : q <= p>>
         [] f = "strlen"  -> mem = mem0 /\ ret = <<StringLength(mem0, a)>>
=============================================================================
