----------------------------- MODULE RingProofs -----------------------------
(***************************************************************************)
(* Proofs about module Ring: whatever the sizes of the rings and the width *)
(* of the counters, also when the counters wrap around.                    *)
(***************************************************************************)
EXTENDS Ring, SequenceTheorems, TLAPS

-----------------------------------------------------------------------------
(* Counters                                                                *)

Counter == 0..(Width - 1)

\* Dividing leaves a remainder smaller than the divisor.
LEMMA Division ==
    ASSUME NEW a \in Int, NEW m \in Nat \ {0}
    PROVE  a % m \in 0..(m - 1) /\ \E q \in Int : a = q * m + (a % m)
<1>1. a = (a \div m) * m + (a % m) /\ a \div m \in Int /\ a % m \in 0..(m - 1)
  BY SMT
<1> QED
  BY <1>1

\* A multiple of m that lies strictly between -m and m is 0.
LEMMA SmallMultiple ==
    ASSUME NEW q \in Int, NEW m \in Nat \ {0}, -m < q * m, q * m < m
    PROVE  q = 0
<1>1. ASSUME q >= 1 PROVE FALSE
  <2>1. q * m = (q - 1) * m + m /\ (q - 1) * m >= 0
    BY <1>1, SMT
  <2> QED
    BY <2>1, SMT
<1>2. ASSUME q <= -1 PROVE FALSE
  <2>1. q * m = (q + 1) * m - m /\ (q + 1) * m <= 0
    BY <1>2, SMT
  <2> QED
    BY <2>1, SMT
<1> QED
  BY <1>1, <1>2

\* A remainder is determined by its range.
LEMMA Remainder ==
    ASSUME NEW a \in Int, NEW m \in Nat \ {0}, NEW q \in Int, NEW r \in 0..(m - 1),
           a = q * m + r
    PROVE  a % m = r
<1>1. PICK p \in Int : a = p * m + (a % m)
  BY Division
<1>2. a % m \in 0..(m - 1)
  BY Division
<1>3. (p - q) * m = r - (a % m)
  <2>1. (p - q) * m = p * m - q * m
    BY SMT
  <2> QED
    BY <1>1, <1>2, <2>1, SMT
<1>4. p - q = 0
  <2>1. -m < (p - q) * m /\ (p - q) * m < m
    BY <1>2, <1>3, SMT
  <2> QED
    BY <2>1, SmallMultiple
<1>5. p = q
  BY <1>4
<1> QED
  BY <1>1, <1>2, <1>5, SMT

\* Plus and Minus without the remainder: they leave the range of the counters at
\* most once.
LEMMA PlusIs ==
    ASSUME NEW a \in Counter, NEW n \in 0..Width
    PROVE  /\ Plus(a, n) \in Counter
           /\ Plus(a, n) = IF a + n < Width THEN a + n ELSE a + n - Width
<1>1. Width \in Nat \ {0}
  BY RingSizes, SMT
<1>2. CASE a + n < Width
  <2>1. a + n \in 0..(Width - 1) /\ a + n = 0 * Width + (a + n)
    BY <1>1, <1>2 DEF Counter
  <2> QED
    BY <1>1, <1>2, <2>1, Remainder DEF Plus, Counter
<1>3. CASE ~ (a + n < Width)
  <2>1. a + n - Width \in 0..(Width - 1) /\ a + n = 1 * Width + (a + n - Width)
    BY <1>1, <1>3 DEF Counter
  <2> QED
    BY <1>1, <1>3, <2>1, Remainder DEF Plus, Counter
<1> QED
  BY <1>2, <1>3

LEMMA MinusIs ==
    ASSUME NEW a \in Counter, NEW b \in Counter
    PROVE  /\ Minus(a, b) \in Counter
           /\ Minus(a, b) = IF a >= b THEN a - b ELSE a - b + Width
<1>1. Width \in Nat \ {0}
  BY RingSizes, SMT
<1>2. CASE a >= b
  <2>1. a - b \in 0..(Width - 1) /\ a - b = 0 * Width + (a - b) /\ a - b \in Int
    BY <1>1, <1>2 DEF Counter
  <2> QED
    BY <1>1, <1>2, <2>1, Remainder DEF Minus, Counter
<1>3. CASE ~ (a >= b)
  <2>1. /\ a - b + Width \in 0..(Width - 1) /\ a - b = (-1) * Width + (a - b + Width)
        /\ a - b \in Int /\ -1 \in Int
    BY <1>1, <1>3 DEF Counter
  <2> QED
    BY <1>1, <1>3, <2>1, Remainder DEF Minus, Counter
<1> QED
  BY <1>2, <1>3

\* A counter moved on by n and then by k is moved on by n + k, and lies n + k ahead.
LEMMA PlusPlus ==
    ASSUME NEW a \in Counter, NEW n \in Nat, NEW k \in Nat, n + k < Width
    PROVE  /\ Plus(a, n) \in Counter
           /\ Plus(Plus(a, n), k) = Plus(a, n + k)
           /\ Minus(Plus(a, n), a) = n
           /\ Minus(Plus(a, n + k), Plus(a, n)) = k
<1>1. Width \in Nat \ {0} /\ n \in 0..Width /\ k \in 0..Width /\ n + k \in 0..Width
  BY RingSizes, SMT
<1>2. /\ Plus(a, n) \in Counter
      /\ Plus(a, n) = IF a + n < Width THEN a + n ELSE a + n - Width
  BY <1>1, PlusIs
<1>3. /\ Plus(a, n + k) \in Counter
      /\ Plus(a, n + k) = IF a + (n + k) < Width THEN a + (n + k) ELSE a + (n + k) - Width
  BY <1>1, PlusIs
<1>4. Plus(Plus(a, n), k) = IF Plus(a, n) + k < Width THEN Plus(a, n) + k
                            ELSE Plus(a, n) + k - Width
  BY <1>1, <1>2, PlusIs
<1>5. Minus(Plus(a, n), a) = IF Plus(a, n) >= a THEN Plus(a, n) - a
                             ELSE Plus(a, n) - a + Width
  BY <1>2, MinusIs
<1>6. Minus(Plus(a, n + k), Plus(a, n)) =
        IF Plus(a, n + k) >= Plus(a, n) THEN Plus(a, n + k) - Plus(a, n)
        ELSE Plus(a, n + k) - Plus(a, n) + Width
  BY <1>2, <1>3, MinusIs
<1> QED
  BY <1>1, <1>2, <1>3, <1>4, <1>5, <1>6, SMT DEF Counter

\* The later counter is the earlier one moved on by their distance.
LEMMA PlusMinus ==
    ASSUME NEW a \in Counter, NEW b \in Counter
    PROVE  Minus(a, b) \in Counter /\ Plus(b, Minus(a, b)) = a
<1>1. Width \in Nat \ {0}
  BY RingSizes, SMT
<1>2. /\ Minus(a, b) \in Counter
      /\ Minus(a, b) = IF a >= b THEN a - b ELSE a - b + Width
  BY MinusIs
<1>3. Minus(a, b) \in 0..Width
  BY <1>1, <1>2, SMT DEF Counter
<1>4. Plus(b, Minus(a, b)) = IF b + Minus(a, b) < Width THEN b + Minus(a, b)
                             ELSE b + Minus(a, b) - Width
  BY <1>3, PlusIs
<1> QED
  BY <1>1, <1>2, <1>4, SMT DEF Counter

\* The two sizes of rings.
Fits(size) == Width % size = 0 /\ size + 1 < Width

\* size entries in a row have different slots, also where the counter wraps around,
\* because size divides Width.
LEMMA SlotsApart ==
    ASSUME NEW size \in Nat \ {0}, Fits(size), NEW a \in Counter,
           NEW i \in Nat, NEW j \in Nat, i < j, j < size
    PROVE  Plus(a, i) % size # Plus(a, j) % size
<1> DEFINE p == Plus(a, i)
           q == Plus(a, j)
<1>1. /\ Width \in Nat \ {0} /\ i \in 0..Width /\ j \in 0..Width
      /\ size \in Nat \ {0} /\ Width % size = 0 /\ size < Width
  BY RingSizes, SMT DEF Fits
<1>2. PICK w \in Int : Width = w * size
  <2>1. Width \in Int
    BY <1>1
  <2>2. PICK w \in Int : Width = w * size + (Width % size)
    BY <2>1, Division
  <2>3. Width % size = 0 /\ w * size \in Int
    BY <1>1
  <2> QED
    BY <2>1, <2>2, <2>3, SMT
<1>3. p \in Counter /\ p = IF a + i < Width THEN a + i ELSE a + i - Width
  BY <1>1, PlusIs
<1>4. q \in Counter /\ q = IF a + j < Width THEN a + j ELSE a + j - Width
  BY <1>1, PlusIs
<1> HIDE DEF p, q
<1>5. p \in Int /\ q \in Int
  BY <1>1, <1>3, <1>4, SMT DEF Counter
<1>6. SUFFICES ASSUME p % size = q % size PROVE FALSE
  BY DEF p, q
<1>7. PICK u \in Int : p = u * size + (p % size)
  BY <1>5, Division
<1>8. PICK v \in Int : q = v * size + (q % size)
  BY <1>5, Division
<1>9. q - p = (v - u) * size
  <2>1. (v - u) * size = v * size - u * size
    BY SMT
  <2>2. p % size \in Int
    BY <1>5, Division
  <2> QED
    BY <1>5, <1>6, <1>7, <1>8, <2>1, <2>2, SMT
<1>10. CASE q - p = j - i
  <2>1. -size < (v - u) * size /\ (v - u) * size < size /\ v - u \in Int
    BY <1>9, <1>10, SMT
  <2>2. v - u = 0
    BY <2>1, SmallMultiple
  <2> QED
    BY <1>9, <1>10, <2>2, SMT
<1>11. CASE q - p = j - i - Width
  <2>1. (v - u + w) * size = (v - u) * size + w * size
    BY SMT
  <2>2. (v - u + w) * size = j - i
    BY <1>1, <1>2, <1>9, <1>11, <2>1, SMT
  <2>3. -size < (v - u + w) * size /\ (v - u + w) * size < size /\ v - u + w \in Int
    BY <2>2, SMT
  <2>4. v - u + w = 0
    BY <2>3, SmallMultiple
  <2> QED
    BY <2>2, <2>4, SMT
<1> QED
  BY <1>1, <1>3, <1>4, <1>10, <1>11, SMT DEF Counter

-----------------------------------------------------------------------------
(* What lies between two counters of a ring.                               *)

Put(ring, slot, x) == [ring EXCEPT ![slot] = x]

Buffer(V, size) == [0..(size - 1) -> V]

\* The n entries of a ring of size entries from counter a on.
Window(ring, a, n, size) == [i \in 1..n |-> ring[Plus(a, i - 1) % size]]

\* What an entry of a window is.
IsWindow(V, ring, a, n, size) ==
    LET w == Window(ring, a, n, size) IN
    /\ w \in Seq(V) /\ Len(w) = n /\ DOMAIN w = 1..n
    /\ \A i \in 1..n : w[i] = ring[Plus(a, i - 1) % size]

LEMMA WindowType ==
    ASSUME NEW V, NEW size \in Nat \ {0}, Fits(size), NEW ring \in Buffer(V, size),
           NEW a \in Counter, NEW n \in Nat, n <= size
    PROVE  IsWindow(V, ring, a, n, size)
<1> DEFINE w == Window(ring, a, n, size)
<1>1. Width \in Nat \ {0} /\ size \in Nat \ {0} /\ size < Width
  BY RingSizes, SMT DEF Fits
<1>2. ASSUME NEW i \in 1..n PROVE ring[Plus(a, i - 1) % size] \in V
  <2>1. i - 1 \in 0..Width
    BY <1>1, SMT
  <2>2. Plus(a, i - 1) \in Int
    BY <1>1, <2>1, PlusIs, SMT DEF Counter
  <2>3. Plus(a, i - 1) % size \in 0..(size - 1)
    BY <2>2, Division
  <2> QED
    BY <2>3 DEF Buffer
<1>3. DOMAIN w = 1..n /\ \A i \in 1..n : w[i] = ring[Plus(a, i - 1) % size]
  BY DEF Window
<1>4. w \in [1..n -> V]
  BY <1>2 DEF Window
<1>5. w \in Seq(V) /\ Len(w) = n
  <2>1. n \in Nat
    OBVIOUS
  <2> HIDE DEF w
  <2> QED
    BY <1>4, <2>1
<1> QED
  BY <1>3, <1>5 DEF IsWindow

\* An entry written behind the last one is appended and changes none of the others.
LEMMA WindowPush ==
    ASSUME NEW V, NEW size \in Nat \ {0}, Fits(size), NEW ring \in Buffer(V, size),
           NEW a \in Counter, NEW n \in 0..(size - 1), NEW x, x \in V
    PROVE  Window(Put(ring, Plus(a, n) % size, x), a, n + 1, size)
             = Append(Window(ring, a, n, size), x)
<1> DEFINE slot == Plus(a, n) % size
           after == Put(ring, slot, x)
           w == Window(ring, a, n, size)
           v == Window(after, a, n + 1, size)
<1>1. /\ Width \in Nat \ {0} /\ n \in 0..Width /\ n \in 0..size /\ n + 1 \in 0..size
      /\ n \in Nat /\ size \in Nat \ {0} /\ size < Width
  BY RingSizes, SMT DEF Fits
<1>2. slot \in 0..(size - 1)
  <2>1. Plus(a, n) \in Int
    BY <1>1, PlusIs, SMT DEF Counter
  <2> QED
    BY <2>1, Division
<1>3. /\ after \in Buffer(V, size)
      /\ after[slot] = x
      /\ \A k \in 0..(size - 1) : k # slot => after[k] = ring[k]
  <2> HIDE DEF slot
  <2> QED
    BY <1>1, <1>2 DEF Buffer, Put
<1>4. /\ w \in Seq(V) /\ Len(w) = n /\ DOMAIN w = 1..n
      /\ \A i \in 1..n : w[i] = ring[Plus(a, i - 1) % size]
  <2>1. n \in Nat /\ n <= size
    BY <1>1
  <2>2. IsWindow(V, ring, a, n, size)
    BY <2>1, WindowType
  <2> QED
    BY <2>2 DEF IsWindow
<1> HIDE DEF after
<1>5. /\ v \in Seq(V) /\ Len(v) = n + 1 /\ DOMAIN v = 1..(n + 1)
      /\ \A i \in 1..(n + 1) : v[i] = after[Plus(a, i - 1) % size]
  <2> DEFINE m == n + 1
  <2>1. m \in Nat /\ m <= size /\ after \in Buffer(V, size)
    BY <1>1, <1>3
  <2> HIDE DEF m
  <2>2. IsWindow(V, after, a, m, size)
    BY <2>1, WindowType
  <2> QED
    BY <2>2 DEF IsWindow, m
<1>6. v[n + 1] = x
  <2>1. n + 1 \in 1..(n + 1) /\ (n + 1) - 1 = n
    BY SMT
  <2> QED
    BY <1>3, <1>5, <2>1
<1>7. ASSUME NEW i \in 1..n PROVE v[i] = w[i]
  <2>1. i - 1 \in Nat /\ i - 1 < n /\ n < size /\ n \in Nat /\ i - 1 \in 0..Width
    BY <1>1, SMT
  <2>2. Plus(a, i - 1) % size # slot
    BY <2>1, SlotsApart
  <2>3. Plus(a, i - 1) % size \in 0..(size - 1)
    <3>1. Plus(a, i - 1) \in Int
      BY <1>1, <2>1, PlusIs, SMT DEF Counter
    <3> QED
      BY <3>1, Division
  <2>4. i \in 1..(n + 1)
    BY SMT
  <2> QED
    BY <1>3, <1>4, <1>5, <2>2, <2>3, <2>4
<1> HIDE DEF v, w
<1>8. v = Append(w, x)
  BY <1>1, <1>4, <1>5, <1>6, <1>7, SMT
<1> QED
  BY <1>8 DEF v, w, after

\* Moving the head on drops the oldest entries.
LEMMA WindowPop ==
    ASSUME NEW V, NEW size \in Nat \ {0}, Fits(size), NEW ring \in Buffer(V, size),
           NEW a \in Counter, NEW n \in 0..size, NEW k \in 0..n
    PROVE  Window(ring, Plus(a, k), n - k, size) = SubSeq(Window(ring, a, n, size), k + 1, n)
<1> DEFINE b == Plus(a, k)
           w == Window(ring, a, n, size)
           v == Window(ring, b, n - k, size)
<1>1. /\ Width \in Nat \ {0} /\ k \in 0..Width /\ n - k \in 0..size /\ k \in Nat
      /\ size \in Nat \ {0} /\ size < Width /\ n \in Nat /\ n <= size
  BY RingSizes, SMT DEF Fits
<1>2. b \in Counter
  BY <1>1, PlusIs
<1>3. /\ w \in Seq(V) /\ Len(w) = n /\ DOMAIN w = 1..n
      /\ \A i \in 1..n : w[i] = ring[Plus(a, i - 1) % size]
  <2>1. n \in Nat /\ n <= size
    BY <1>1
  <2>2. IsWindow(V, ring, a, n, size)
    BY <2>1, WindowType
  <2> QED
    BY <2>2 DEF IsWindow
<1> HIDE DEF b
<1>4. /\ v \in Seq(V) /\ Len(v) = n - k /\ DOMAIN v = 1..(n - k)
      /\ \A i \in 1..(n - k) : v[i] = ring[Plus(b, i - 1) % size]
  <2> DEFINE m == n - k
  <2>1. m \in Nat /\ m <= size
    BY <1>1
  <2> HIDE DEF m
  <2>2. IsWindow(V, ring, b, m, size)
    BY <1>2, <2>1, WindowType
  <2> QED
    BY <2>2 DEF IsWindow, m
<1>5. ASSUME NEW i \in 1..(n - k) PROVE v[i] = w[i + k]
  <2>1. i - 1 \in Nat /\ k + (i - 1) < Width /\ i + k \in 1..n /\ (i + k) - 1 = k + (i - 1)
    BY <1>1, SMT
  <2>2. Plus(b, i - 1) = Plus(a, k + (i - 1))
    BY <1>1, <2>1, PlusPlus DEF b
  <2> QED
    BY <1>3, <1>4, <2>1, <2>2
<1> HIDE DEF v, w
<1>6. v = SubSeq(w, k + 1, n)
  <2> DEFINE m == k + 1
             u == SubSeq(w, m, n)
  <2>1. m \in Int /\ n \in Int
    BY <1>1
  <2>2. \A i \in m..n : w[i] \in V
    BY <1>1, <1>3, SMT
  <2> HIDE DEF m
  <2>3. /\ u \in Seq(V) /\ Len(u) = IF m <= n THEN n - m + 1 ELSE 0
        /\ \A i \in 1..(n - m + 1) : u[i] = w[m + i - 1]
    BY <2>1, <2>2, SubSeqProperties
  <2> HIDE DEF u
  <2>4. Len(u) = n - k /\ \A i \in 1..(n - k) : u[i] = w[i + k]
    BY <1>1, <2>3, SMT DEF m
  <2>5. Len(v) = Len(u) /\ \A i \in 1..Len(v) : v[i] = u[i]
    BY <1>4, <1>5, <2>4
  <2>6. v = u
    BY <1>4, <2>3, <2>5, SeqEqual
  <2> QED
    BY <2>6 DEF u, m
<1> QED
  BY <1>6 DEF v, w, b

\* Putting x into a ring that is not full.
LEMMA Push ==
    ASSUME NEW V, NEW size \in Nat \ {0}, Fits(size), NEW ring \in Buffer(V, size),
           NEW h \in Counter, NEW n \in 0..(size - 1), NEW x, x \in V
    PROVE  LET t == Plus(h, n) IN
           /\ t % size \in 0..(size - 1)
           /\ Put(ring, t % size, x) \in Buffer(V, size)
           /\ Plus(t, 1) \in Counter /\ Minus(Plus(t, 1), h) = n + 1
           /\ Window(Put(ring, t % size, x), h, n + 1, size)
                = Append(Window(ring, h, n, size), x)
<1>1. Window(Put(ring, Plus(h, n) % size, x), h, n + 1, size)
        = Append(Window(ring, h, n, size), x)
  BY WindowPush
<1>2. n \in Nat /\ n + 1 < Width /\ 1 \in Nat /\ n + 1 \in Nat /\ 0 \in Nat
  BY RingSizes, SMT DEF Counter, Fits
<1>3. Plus(h, n) % size \in 0..(size - 1)
  <2>1. Plus(h, n) \in Counter
    BY <1>2, RingSizes, PlusIs
  <2>2. Plus(h, n) \in Int
    BY <2>1, RingSizes DEF Counter
  <2> QED
    BY <2>2, Division
<1>4. Put(ring, Plus(h, n) % size, x) \in Buffer(V, size)
  BY <1>3 DEF Buffer, Put
<1>5. Plus(Plus(h, n), 1) = Plus(h, n + 1)
  BY <1>2, PlusPlus
<1>6. Plus(h, n + 1) \in Counter /\ Minus(Plus(h, n + 1), h) = n + 1
  <2> DEFINE m == n + 1
  <2>1. m \in Nat /\ m + 0 < Width
    BY <1>2
  <2> HIDE DEF m
  <2>2. Plus(h, m) \in Counter /\ Minus(Plus(h, m), h) = m
    BY <1>2, <2>1, PlusPlus
  <2> QED
    BY <2>2 DEF m
<1> QED
  BY <1>1, <1>3, <1>4, <1>5, <1>6

\* Taking the k oldest entries out of a ring.
LEMMA Pop ==
    ASSUME NEW V, NEW size \in Nat \ {0}, Fits(size), NEW ring \in Buffer(V, size),
           NEW h \in Counter, NEW t \in Counter, NEW n, n = Minus(t, h), n <= size,
           NEW k \in 0..n
    PROVE  /\ Plus(h, k) \in Counter /\ Minus(t, Plus(h, k)) = n - k
           /\ Window(ring, Plus(h, k), n - k, size)
                = SubSeq(Window(ring, h, n, size), k + 1, n)
<1>1. n \in Counter /\ t = Plus(h, n)
  BY PlusMinus
<1>2. n \in Nat /\ n \in 0..size /\ k \in Nat /\ n < Width
  BY <1>1, RingSizes, SMT DEF Counter, Fits
<1>3. Plus(h, k) \in Counter /\ Minus(t, Plus(h, k)) = n - k
  <2> DEFINE d == n - k
  <2>1. d \in Nat /\ k + d = n
    BY <1>2
  <2> HIDE DEF d
  <2>2. Plus(h, k) \in Counter /\ Minus(Plus(h, k + d), Plus(h, k)) = d
    BY <1>2, <2>1, PlusPlus
  <2> QED
    BY <1>1, <2>1, <2>2 DEF d
<1>4. Window(ring, Plus(h, k), n - k, size) = SubSeq(Window(ring, h, n, size), k + 1, n)
  BY <1>2, WindowPop
<1> QED
  BY <1>3, <1>4

-----------------------------------------------------------------------------
(* Entries of the submission queue.                                        *)

\* The values the router stores in the fields.
Word ==
    {"NOP", "RECVMSG", "SEND", "TIMEOUT", "TIMEOUT_REMOVE", "0", "1", "-1", "self.fd",
     "msghdr", "msg_buf", "size", "ai_addr", "ai_addrlen", "two_sec", "five_sec"}
    \cup RequestTypes

Flags == SUBSET {"IORING_TIMEOUT_MULTISHOT", "IORING_TIMEOUT_UPDATE"}

Sqe ==
    [opcode : Word, fd : Word, off : Word, addr : Word, len : Word,
     rw_flags : Flags, file_index : Word, user_data : Word]

\* The two fields that no prep function of the router clears are cleared.
Cleared(s) == s \in Sqe /\ s.rw_flags = {} /\ s.file_index = "0"

Is(r, op, fd, off, addr, len, flags, index, u) ==
    /\ r \in Sqe
    /\ r.opcode = op /\ r.fd = fd /\ r.off = off /\ r.addr = addr /\ r.len = len
    /\ r.rw_flags = flags /\ r.file_index = index /\ r.user_data = u

LEMMA IsUnique ==
    ASSUME NEW op, NEW fd, NEW off, NEW addr, NEW len, NEW flags, NEW index, NEW u,
           NEW r, Is(r, op, fd, off, addr, len, flags, index, u),
           NEW s, Is(s, op, fd, off, addr, len, flags, index, u)
    PROVE  r = s /\ r \in Sqe /\ r.user_data = u
  BY DEF Is, Sqe

LEMMA DataIs ==
    ASSUME NEW s, Cleared(s), NEW u \in RequestTypes
    PROVE  LET t == io_uring_sqe_set_data64(s, u) IN Cleared(t) /\ t.user_data = u
  BY DEF io_uring_sqe_set_data64, Cleared, Sqe, Word

LEMMA PrepRwIs ==
    ASSUME NEW op \in Word, NEW fd \in Word, NEW off \in Word, NEW addr \in Word,
           NEW len \in Word,
           NEW s, Cleared(s), NEW u, s.user_data = u
    PROVE  Is(io_uring_prep_rw(op, s, fd, addr, len, off), op, fd, off, addr, len, {}, "0", u)
  BY DEF io_uring_prep_rw, Is, Cleared, Sqe

\* What a request asks for is determined by its user_data.
LEMMA FilledIs ==
    ASSUME NEW r, Cleared(r), NEW s, Cleared(s), NEW u \in RequestTypes
    PROVE  Filled(r, u) = Filled(s, u) /\ Filled(r, u) \in Sqe /\ Filled(r, u).user_data = u
<1>1. CASE u = "MSG_RECEIVED"
  <2>1. ASSUME NEW x, Cleared(x)
        PROVE  Is(Filled(x, "MSG_RECEIVED"), "RECVMSG", "self.fd", "0", "msghdr", "1", {}, "0",
                  "MSG_RECEIVED")
    <3> DEFINE y == io_uring_sqe_set_data64(x, "MSG_RECEIVED")
               z == io_uring_prep_rw("RECVMSG", y, "self.fd", "msghdr", "1", "0")
    <3>1. Cleared(y) /\ y.user_data = "MSG_RECEIVED"
      BY <2>1, DataIs DEF RequestTypes
    <3>2. Is(z, "RECVMSG", "self.fd", "0", "msghdr", "1", {}, "0", "MSG_RECEIVED")
      <4> HIDE DEF y
      <4> QED
        BY <3>1, PrepRwIs DEF Word
    <3>3. Filled(x, "MSG_RECEIVED") = z
      BY DEF Filled, io_uring_prep_recvmsg
    <3> QED
      BY <3>2, <3>3
  <2> QED
    BY <1>1, <2>1, IsUnique
<1>2. CASE u = "MSG_SENT"
  <2>1. ASSUME NEW x, Cleared(x)
        PROVE  Is(Filled(x, "MSG_SENT"), "SEND", "self.fd", "ai_addr", "msg_buf", "size", {}, "ai_addrlen",
                  "MSG_SENT")
    <3> DEFINE y == io_uring_sqe_set_data64(x, "MSG_SENT")
               z == io_uring_prep_rw("SEND", y, "self.fd", "msg_buf", "size", "0")
    <3>1. Cleared(y) /\ y.user_data = "MSG_SENT"
      BY <2>1, DataIs DEF RequestTypes
    <3>2. Is(z, "SEND", "self.fd", "0", "msg_buf", "size", {}, "0", "MSG_SENT")
      <4> HIDE DEF y
      <4> QED
        BY <3>1, PrepRwIs DEF Word
    <3>3. Filled(x, "MSG_SENT") = [z EXCEPT !.off = "ai_addr", !.file_index = "ai_addrlen"]
      BY DEF Filled, io_uring_prep_sendto, io_uring_prep_send, io_uring_prep_send_set_addr
    <3> HIDE DEF z
    <3>4. Is([z EXCEPT !.off = "ai_addr", !.file_index = "ai_addrlen"], "SEND", "self.fd", "ai_addr", "msg_buf", "size", {}, "ai_addrlen",
             "MSG_SENT")
      BY <3>2 DEF Is, Sqe, Word, Flags
    <3> QED
      BY <3>3, <3>4
  <2> QED
    BY <1>2, <2>1, IsUnique
<1>3. CASE u = "GLOBAL_TIMEOUT"
  <2>1. ASSUME NEW x, Cleared(x)
        PROVE  Is(Filled(x, "GLOBAL_TIMEOUT"), "TIMEOUT", "-1", "0", "two_sec", "1", {"IORING_TIMEOUT_MULTISHOT"}, "0",
                  "GLOBAL_TIMEOUT")
    <3> DEFINE y == io_uring_sqe_set_data64(x, "GLOBAL_TIMEOUT")
               z == io_uring_prep_rw("TIMEOUT", y, "-1", "two_sec", "1", "0")
    <3>1. Cleared(y) /\ y.user_data = "GLOBAL_TIMEOUT"
      BY <2>1, DataIs DEF RequestTypes
    <3>2. Is(z, "TIMEOUT", "-1", "0", "two_sec", "1", {}, "0", "GLOBAL_TIMEOUT")
      <4> HIDE DEF y
      <4> QED
        BY <3>1, PrepRwIs DEF Word
    <3>3. Filled(x, "GLOBAL_TIMEOUT") = [z EXCEPT !.rw_flags = {"IORING_TIMEOUT_MULTISHOT"}]
      BY DEF Filled, io_uring_prep_timeout
    <3> HIDE DEF z
    <3>4. Is([z EXCEPT !.rw_flags = {"IORING_TIMEOUT_MULTISHOT"}], "TIMEOUT", "-1", "0", "two_sec", "1", {"IORING_TIMEOUT_MULTISHOT"}, "0",
             "GLOBAL_TIMEOUT")
      BY <3>2 DEF Is, Sqe, Word, Flags
    <3> QED
      BY <3>3, <3>4
  <2> QED
    BY <1>3, <2>1, IsUnique
<1>4. CASE u = "NEIGHBOR_TIMEOUT"
  <2>1. ASSUME NEW x, Cleared(x)
        PROVE  Is(Filled(x, "NEIGHBOR_TIMEOUT"), "TIMEOUT", "-1", "0", "five_sec", "1", {}, "0",
                  "NEIGHBOR_TIMEOUT")
    <3> DEFINE y == io_uring_sqe_set_data64(x, "NEIGHBOR_TIMEOUT")
               z == io_uring_prep_rw("TIMEOUT", y, "-1", "five_sec", "1", "0")
    <3>1. Cleared(y) /\ y.user_data = "NEIGHBOR_TIMEOUT"
      BY <2>1, DataIs DEF RequestTypes
    <3>2. Is(z, "TIMEOUT", "-1", "0", "five_sec", "1", {}, "0", "NEIGHBOR_TIMEOUT")
      <4> HIDE DEF y
      <4> QED
        BY <3>1, PrepRwIs DEF Word
    <3>3. Filled(x, "NEIGHBOR_TIMEOUT") = [z EXCEPT !.rw_flags = {}]
      BY DEF Filled, io_uring_prep_timeout
    <3> HIDE DEF z
    <3>4. Is([z EXCEPT !.rw_flags = {}], "TIMEOUT", "-1", "0", "five_sec", "1", {}, "0",
             "NEIGHBOR_TIMEOUT")
      BY <3>2 DEF Is, Sqe, Word, Flags
    <3> QED
      BY <3>3, <3>4
  <2> QED
    BY <1>4, <2>1, IsUnique
<1>5. CASE u = "REARM_TIMER"
  <2>1. ASSUME NEW x, Cleared(x)
        PROVE  Is(Filled(x, "REARM_TIMER"), "TIMEOUT_REMOVE", "-1", "five_sec", "NEIGHBOR_TIMEOUT", "0", {"IORING_TIMEOUT_UPDATE"}, "0",
                  "REARM_TIMER")
    <3> DEFINE y == io_uring_sqe_set_data64(x, "REARM_TIMER")
               z == io_uring_prep_rw("TIMEOUT_REMOVE", y, "-1", "0", "0", "five_sec")
    <3>1. Cleared(y) /\ y.user_data = "REARM_TIMER"
      BY <2>1, DataIs DEF RequestTypes
    <3>2. Is(z, "TIMEOUT_REMOVE", "-1", "five_sec", "0", "0", {}, "0", "REARM_TIMER")
      <4> HIDE DEF y
      <4> QED
        BY <3>1, PrepRwIs DEF Word
    <3>3. Filled(x, "REARM_TIMER") = [z EXCEPT !.addr = "NEIGHBOR_TIMEOUT", !.rw_flags = {"IORING_TIMEOUT_UPDATE"}]
      BY DEF Filled, io_uring_prep_timeout_update
    <3> HIDE DEF z
    <3>4. Is([z EXCEPT !.addr = "NEIGHBOR_TIMEOUT", !.rw_flags = {"IORING_TIMEOUT_UPDATE"}], "TIMEOUT_REMOVE", "-1", "five_sec", "NEIGHBOR_TIMEOUT", "0", {"IORING_TIMEOUT_UPDATE"}, "0",
             "REARM_TIMER")
      BY <3>2 DEF Is, Sqe, Word, Flags, RequestTypes
    <3> QED
      BY <3>3, <3>4
  <2> QED
    BY <1>5, <2>1, IsUnique
<1> QED
  BY <1>1, <1>2, <1>3, <1>4, <1>5 DEF RequestTypes

\* An entry that is used again becomes the same request as a blank one.
LEMMA FilledClean ==
    ASSUME NEW s \in Sqe, NEW u \in RequestTypes
    PROVE  /\ Filled(io_uring_initialize_sqe(s), u) = Filled(BlankSqe, u)
           /\ Filled(BlankSqe, u) \in Sqe
           /\ Filled(BlankSqe, u).user_data = u
<1>1. Cleared(io_uring_initialize_sqe(s))
  <2> DEFINE none == {}
             zero == "0"
  <2>1. none \in Flags /\ zero \in Word
    BY DEF Flags, Word
  <2>2. io_uring_initialize_sqe(s) = [s EXCEPT !.rw_flags = none, !.file_index = zero]
    BY DEF io_uring_initialize_sqe
  <2> HIDE DEF none, zero
  <2>3. io_uring_initialize_sqe(s) \in Sqe
    BY <2>1, <2>2 DEF Sqe
  <2>4. /\ io_uring_initialize_sqe(s).rw_flags = none
        /\ io_uring_initialize_sqe(s).file_index = zero
    BY <2>2 DEF Sqe
  <2> QED
    BY <2>3, <2>4 DEF Cleared, none, zero
<1>2. Cleared(BlankSqe)
  BY DEF Cleared, Sqe, Flags, Word, BlankSqe
<1> QED
  BY <1>1, <1>2, FilledIs

-----------------------------------------------------------------------------
(* The inductive invariant.                                                *)

\* user_data in the rings, with that of an entry never used.
Values == Tokens \cup {"0"}

SqType ==
    sq \in [khead : Counter, ktail : Counter, sqe_tail : Counter,
            sqes : Buffer(Sqe, SqEntries)]

CqType ==
    cq \in [khead : Counter, ktail : Counter, cqes : Buffer(Values, CqEntries)]

\* Every request in the queue is one of the router's.
RequestsKnown == \A i \in DOMAIN Unconsumed : Unconsumed[i].user_data \in Tokens

SqInv ==
    /\ SqType
    /\ Minus(sq.ktail, sq.khead) <= io_uring_sq_ready
    /\ io_uring_sq_ready <= SqEntries
    /\ CleanRequests
    /\ RequestsKnown

CqInv ==
    /\ CqType
    /\ io_uring_cq_ready <= CqEntries
    /\ backlog \in Seq(Values)

HeldInv ==
    /\ held \in Seq(Values)
    /\ Len(held) <= io_uring_cq_ready
    /\ HeldStable

RingInv == SqInv /\ CqInv /\ HeldInv /\ inflight \subseteq Tokens

LEMMA Sizes ==
    /\ SqEntries \in Nat \ {0} /\ Fits(SqEntries)
    /\ CqEntries \in Nat \ {0} /\ Fits(CqEntries)
    /\ Width \in Nat \ {0}
  BY RingSizes, SMT DEF Fits

\* The submission queue seen as a window.
LEMMA SqWindow ==
    ASSUME SqType, io_uring_sq_ready <= SqEntries
    PROVE  /\ Unconsumed = Window(sq.sqes, sq.khead, io_uring_sq_ready, SqEntries)
           /\ io_uring_sq_ready \in Nat
           /\ sq.sqe_tail = Plus(sq.khead, io_uring_sq_ready)
           /\ Unconsumed \in Seq(Sqe)
           /\ Len(Unconsumed) = io_uring_sq_ready
           /\ DOMAIN Unconsumed = 1..io_uring_sq_ready
<1>1. Unconsumed = Window(sq.sqes, sq.khead, io_uring_sq_ready, SqEntries)
  BY DEF Unconsumed, Window, SqSlot
<1>2. sq.khead \in Counter /\ sq.sqe_tail \in Counter /\ sq.sqes \in Buffer(Sqe, SqEntries)
  BY DEF SqType
<1> DEFINE n == Minus(sq.sqe_tail, sq.khead)
           h == sq.khead
           r == sq.sqes
<1>3. n \in Counter /\ sq.sqe_tail = Plus(sq.khead, n)
  BY <1>2, PlusMinus
<1>4. n \in Nat /\ n <= SqEntries
  BY <1>3, Sizes DEF Counter, io_uring_sq_ready
<1>5. h \in Counter /\ r \in Buffer(Sqe, SqEntries)
  BY <1>2
<1> HIDE DEF n, h, r
<1>6. /\ Window(r, h, n, SqEntries) \in Seq(Sqe)
      /\ Len(Window(r, h, n, SqEntries)) = n
      /\ DOMAIN Window(r, h, n, SqEntries) = 1..n
  BY <1>4, <1>5, Sizes, WindowType DEF IsWindow
<1> QED
  BY <1>1, <1>3, <1>4, <1>6 DEF io_uring_sq_ready, n, h, r

LEMMA CqWindow ==
    ASSUME CqType, io_uring_cq_ready <= CqEntries
    PROVE  /\ Posted = Window(cq.cqes, cq.khead, io_uring_cq_ready, CqEntries)
           /\ io_uring_cq_ready \in Nat
           /\ cq.ktail = Plus(cq.khead, io_uring_cq_ready)
           /\ Posted \in Seq(Values)
           /\ Len(Posted) = io_uring_cq_ready
           /\ DOMAIN Posted = 1..io_uring_cq_ready
<1>1. Posted = Window(cq.cqes, cq.khead, io_uring_cq_ready, CqEntries)
  BY DEF Posted, Window, CqSlot
<1>2. cq.khead \in Counter /\ cq.ktail \in Counter /\ cq.cqes \in Buffer(Values, CqEntries)
  BY DEF CqType
<1> DEFINE n == Minus(cq.ktail, cq.khead)
           h == cq.khead
           r == cq.cqes
<1>3. n \in Counter /\ cq.ktail = Plus(cq.khead, n)
  BY <1>2, PlusMinus
<1>4. n \in Nat /\ n <= CqEntries
  BY <1>3, Sizes DEF Counter, io_uring_cq_ready
<1>5. h \in Counter /\ r \in Buffer(Values, CqEntries)
  BY <1>2
<1> HIDE DEF n, h, r
<1>6. /\ Window(r, h, n, CqEntries) \in Seq(Values)
      /\ Len(Window(r, h, n, CqEntries)) = n
      /\ DOMAIN Window(r, h, n, CqEntries) = 1..n
  BY <1>4, <1>5, Sizes, WindowType DEF IsWindow
<1> QED
  BY <1>1, <1>3, <1>4, <1>6 DEF io_uring_cq_ready, n, h, r

-----------------------------------------------------------------------------
(* What the actions do to the two queues.                                  *)

\* A request is appended, and there was room for it.
LEMMA GetSqe ==
    ASSUME SqInv, NEW u \in Tokens, io_uring_get_sqe(u)
    PROVE  /\ io_uring_sq_ready < SqEntries
           /\ Unconsumed' = Append(Unconsumed, Filled(BlankSqe, u))
           /\ Filled(BlankSqe, u) \in Sqe /\ Filled(BlankSqe, u).user_data = u
           /\ SqType'
           /\ io_uring_sq_ready' = io_uring_sq_ready + 1
           /\ Minus(sq.ktail, sq.khead)' = Minus(sq.ktail, sq.khead)
<1> DEFINE h == sq.khead
           r == sq.sqes
           n == io_uring_sq_ready
           x == Filled(BlankSqe, u)
           slot == Plus(h, n) % SqEntries
<1>1. /\ h \in Counter /\ sq.sqe_tail \in Counter /\ sq.ktail \in Counter
      /\ r \in Buffer(Sqe, SqEntries)
  BY DEF SqInv, SqType
<1>2. /\ n \in Nat /\ n <= SqEntries /\ sq.sqe_tail = Plus(h, n)
      /\ Unconsumed = Window(r, h, n, SqEntries)
  BY SqWindow DEF SqInv
<1>3. n < SqEntries
  <2> DEFINE m == n + 1
  <2>1. m \in Nat /\ m + 0 < Width /\ 0 \in Nat /\ 1 \in Nat
    BY <1>2, Sizes, SMT DEF Fits
  <2>2. Plus(sq.sqe_tail, 1) = Plus(h, m)
    BY <1>1, <1>2, <2>1, PlusPlus
  <2> HIDE DEF m
  <2>3. Minus(Plus(h, m), h) = m
    BY <1>1, <2>1, PlusPlus
  <2>4. Minus(Plus(sq.sqe_tail, 1), h) <= SqEntries
    BY DEF io_uring_get_sqe, HasVacancy
  <2> QED
    BY <1>2, <2>2, <2>3, <2>4, Sizes DEF m
<1>4. u \in RequestTypes
  BY RingSizes
<1>5. n \in 0..(SqEntries - 1)
  BY <1>2, <1>3, Sizes
<1>6. x \in Sqe /\ x.user_data = u
  <2>1. BlankSqe \in Sqe
    BY DEF BlankSqe, Sqe, Word, Flags
  <2> QED
    BY <1>4, <2>1, FilledClean
<1> HIDE DEF h, r, n, x
<1>7. /\ slot \in 0..(SqEntries - 1)
      /\ Put(r, slot, x) \in Buffer(Sqe, SqEntries)
      /\ Plus(Plus(h, n), 1) \in Counter /\ Minus(Plus(Plus(h, n), 1), h) = n + 1
      /\ Window(Put(r, slot, x), h, n + 1, SqEntries) = Append(Window(r, h, n, SqEntries), x)
  BY <1>1, <1>5, <1>6, Sizes, Push
<1>8. Filled(io_uring_initialize_sqe(r[slot]), u) = x
  <2>1. r[slot] \in Sqe
    BY <1>1, <1>7 DEF Buffer
  <2> QED
    BY <1>4, <2>1, FilledClean DEF x
<1>9. /\ sq'.khead = h /\ sq'.ktail = sq.ktail
      /\ sq'.sqe_tail = Plus(Plus(h, n), 1)
      /\ sq'.sqes = Put(r, slot, x)
      /\ SqType'
  <2>1. sq.sqe_tail = Plus(h, n)
    BY <1>2
  <2>2. sq' = [sq EXCEPT !.sqe_tail = Plus(Plus(h, n), 1), !.sqes[slot] = x]
    BY <1>8, <2>1 DEF io_uring_get_sqe, SqSlot, r
  <2> DEFINE tail == Plus(Plus(h, n), 1)
             after == Put(r, slot, x)
  <2>3. sq' = [sq EXCEPT !.sqe_tail = tail, !.sqes = after]
    BY <2>2 DEF Put, r
  <2>4. tail \in Counter /\ after \in Buffer(Sqe, SqEntries)
    BY <1>7
  <2> HIDE DEF tail, after
  <2>5. SqType'
    BY <2>3, <2>4 DEF SqInv, SqType
  <2>6. sq'.khead = h /\ sq'.ktail = sq.ktail /\ sq'.sqe_tail = tail /\ sq'.sqes = after
    BY <2>3 DEF SqInv, SqType, h
  <2> QED
    BY <2>5, <2>6 DEF tail, after
<1>10. io_uring_sq_ready' = n + 1
  BY <1>7, <1>9 DEF io_uring_sq_ready
<1>11. Unconsumed' = Window(Put(r, slot, x), h, n + 1, SqEntries)
  BY <1>9, <1>10 DEF Unconsumed, Window, SqSlot
<1> QED
  BY <1>2, <1>3, <1>6, <1>7, <1>9, <1>10, <1>11 DEF h, n, r, x

\* The kernel takes the n oldest requests.
LEMMA Submit ==
    ASSUME SqInv, NEW n \in 0..io_uring_sq_ready, io_uring_submit(n)
    PROVE  /\ Unconsumed' = SubSeq(Unconsumed, n + 1, Len(Unconsumed))
           /\ SqType'
           /\ io_uring_sq_ready' = io_uring_sq_ready - n
           /\ Minus(sq.ktail, sq.khead)' = io_uring_sq_ready'
<1> DEFINE h == sq.khead
           t == sq.sqe_tail
           r == sq.sqes
           m == io_uring_sq_ready
           head == Plus(h, n)
<1>1. h \in Counter /\ t \in Counter /\ sq.ktail \in Counter /\ r \in Buffer(Sqe, SqEntries)
  BY DEF SqInv, SqType
<1>2. /\ m \in Nat /\ m <= SqEntries /\ m = Minus(t, h)
      /\ Unconsumed = Window(r, h, m, SqEntries) /\ Len(Unconsumed) = m
  BY SqWindow DEF SqInv, io_uring_sq_ready
<1>3. n \in 0..m
  OBVIOUS
<1> HIDE DEF h, t, r, m
<1>4. /\ head \in Counter /\ Minus(t, head) = m - n
      /\ Window(r, head, m - n, SqEntries) = SubSeq(Window(r, h, m, SqEntries), n + 1, m)
  BY <1>1, <1>2, <1>3, Sizes, Pop
<1>5. sq' = [sq EXCEPT !.ktail = t, !.khead = head]
  BY DEF io_uring_submit, h, t
<1> HIDE DEF head
<1>6. SqType'
  BY <1>1, <1>4, <1>5 DEF SqInv, SqType
<1>7. sq'.khead = head /\ sq'.ktail = t /\ sq'.sqe_tail = t /\ sq'.sqes = r
  BY <1>5 DEF SqInv, SqType, t, r
<1>8. io_uring_sq_ready' = m - n /\ Minus(sq.ktail, sq.khead)' = m - n
  BY <1>4, <1>7 DEF io_uring_sq_ready
<1>9. Unconsumed' = Window(r, head, m - n, SqEntries)
  BY <1>7, <1>8 DEF Unconsumed, Window, SqSlot
<1> QED
  BY <1>2, <1>4, <1>6, <1>8, <1>9 DEF m

\* The kernel writes a completion to the ring, in Complete and in Flush.
Posts(v) == cq' = [cq EXCEPT !.ktail = Plus(@, 1), !.cqes[CqSlot(cq.ktail)] = v]

\* It comes behind the others.
LEMMA Post ==
    ASSUME CqInv, NEW v, v \in Values, io_uring_cq_ready < CqEntries, Posts(v)
    PROVE  /\ Posted' = Append(Posted, v)
           /\ CqType'
           /\ io_uring_cq_ready' = io_uring_cq_ready + 1
<1> DEFINE h == cq.khead
           r == cq.cqes
           n == io_uring_cq_ready
           slot == Plus(h, n) % CqEntries
<1>1. h \in Counter /\ cq.ktail \in Counter /\ r \in Buffer(Values, CqEntries)
  BY DEF CqInv, CqType
<1>2. /\ n \in Nat /\ n <= CqEntries /\ cq.ktail = Plus(h, n)
      /\ Posted = Window(r, h, n, CqEntries)
  BY CqWindow DEF CqInv
<1>3. n \in 0..(CqEntries - 1)
  BY <1>2, Sizes
<1> HIDE DEF h, r, n
<1>4. /\ slot \in 0..(CqEntries - 1)
      /\ Put(r, slot, v) \in Buffer(Values, CqEntries)
      /\ Plus(Plus(h, n), 1) \in Counter /\ Minus(Plus(Plus(h, n), 1), h) = n + 1
      /\ Window(Put(r, slot, v), h, n + 1, CqEntries) = Append(Window(r, h, n, CqEntries), v)
  BY <1>1, <1>3, Sizes, Push
<1>5. CqType' /\ cq'.khead = h /\ cq'.ktail = Plus(Plus(h, n), 1) /\ cq'.cqes = Put(r, slot, v)
  <2> DEFINE tail == Plus(Plus(h, n), 1)
             after == Put(r, slot, v)
  <2>1. cq' = [cq EXCEPT !.ktail = tail, !.cqes = after]
    BY <1>2 DEF Posts, CqSlot, r, Put
  <2>2. tail \in Counter /\ after \in Buffer(Values, CqEntries)
    BY <1>4
  <2> HIDE DEF tail, after
  <2>3. CqType'
    BY <2>1, <2>2 DEF CqInv, CqType
  <2>4. cq'.khead = h /\ cq'.ktail = tail /\ cq'.cqes = after
    BY <2>1 DEF CqInv, CqType, h
  <2> QED
    BY <2>3, <2>4 DEF tail, after
<1>6. io_uring_cq_ready' = n + 1
  BY <1>4, <1>5 DEF io_uring_cq_ready
<1>7. Posted' = Window(Put(r, slot, v), h, n + 1, CqEntries)
  BY <1>5, <1>6 DEF Posted, Window, CqSlot
<1> QED
  BY <1>2, <1>4, <1>5, <1>6, <1>7 DEF n

\* main gives back the k oldest completions.
LEMMA Advance ==
    ASSUME CqInv, NEW k \in 0..io_uring_cq_ready, io_uring_cq_advance(k)
    PROVE  /\ Posted' = SubSeq(Posted, k + 1, Len(Posted))
           /\ CqType'
           /\ io_uring_cq_ready' = io_uring_cq_ready - k
<1> DEFINE h == cq.khead
           t == cq.ktail
           r == cq.cqes
           n == io_uring_cq_ready
           head == Plus(h, k)
<1>1. h \in Counter /\ t \in Counter /\ r \in Buffer(Values, CqEntries)
  BY DEF CqInv, CqType
<1>2. /\ n \in Nat /\ n <= CqEntries /\ n = Minus(t, h)
      /\ Posted = Window(r, h, n, CqEntries) /\ Len(Posted) = n
  BY CqWindow DEF CqInv, io_uring_cq_ready
<1>3. k \in 0..n
  OBVIOUS
<1> HIDE DEF h, t, r, n
<1>4. /\ head \in Counter /\ Minus(t, head) = n - k
      /\ Window(r, head, n - k, CqEntries) = SubSeq(Window(r, h, n, CqEntries), k + 1, n)
  BY <1>1, <1>2, <1>3, Sizes, Pop
<1>5. cq' = [cq EXCEPT !.khead = head]
  BY DEF io_uring_cq_advance, h
<1> HIDE DEF head
<1>6. CqType'
  BY <1>4, <1>5 DEF CqInv, CqType
<1>7. cq'.khead = head /\ cq'.ktail = t /\ cq'.cqes = r
  BY <1>5 DEF CqInv, CqType, t, r
<1>8. io_uring_cq_ready' = n - k
  BY <1>4, <1>7 DEF io_uring_cq_ready
<1>9. Posted' = Window(r, head, n - k, CqEntries)
  BY <1>7, <1>8 DEF Posted, Window, CqSlot
<1> QED
  BY <1>2, <1>4, <1>6, <1>8, <1>9 DEF n

-----------------------------------------------------------------------------
(* The invariant holds.                                                    *)

LEMMA SqSame ==
    ASSUME sq' = sq
    PROVE  /\ Unconsumed' = Unconsumed /\ io_uring_sq_ready' = io_uring_sq_ready
           /\ (SqInv => SqInv')
  BY DEF SqInv, SqType, Unconsumed, io_uring_sq_ready, CleanRequests, RequestsKnown

LEMMA CqSame ==
    ASSUME cq' = cq
    PROVE  /\ Posted' = Posted /\ io_uring_cq_ready' = io_uring_cq_ready
           /\ (CqType => CqType')
  BY DEF CqType, Posted, io_uring_cq_ready

\* Completions posted later leave what main looks at alone.
LEMMA HeldKept ==
    ASSUME CqInv, HeldInv, CqInv', held' = held, io_uring_cq_ready <= io_uring_cq_ready',
           \A i \in 1..io_uring_cq_ready : Posted'[i] = Posted[i]
    PROVE  HeldInv'
<1>1. io_uring_cq_ready \in Nat /\ Len(Posted) = io_uring_cq_ready
  BY CqWindow DEF CqInv
<1>2. io_uring_cq_ready' \in Nat /\ Len(Posted') = io_uring_cq_ready'
  <2>1. CqType' /\ io_uring_cq_ready' <= CqEntries
    BY DEF CqInv
  <2>2. (CqType /\ io_uring_cq_ready <= CqEntries
           => io_uring_cq_ready \in Nat /\ Len(Posted) = io_uring_cq_ready)'
    BY CqWindow, PTL
  <2> QED
    BY <2>1, <2>2
<1>3. /\ held \in Seq(Values) /\ Len(held) <= io_uring_cq_ready
      /\ \A i \in DOMAIN held : Posted[i] = held[i]
  BY DEF HeldInv, HeldStable
<1>4. Len(held) \in Nat /\ DOMAIN held = 1..Len(held)
  BY <1>3
<1>5. \A i \in DOMAIN held : Posted'[i] = held[i]
  BY <1>1, <1>3, <1>4
<1>6. Len(held) <= Len(Posted')
  BY <1>1, <1>2, <1>3, <1>4
<1>7. Len(held) <= io_uring_cq_ready'
  BY <1>2, <1>6
<1> QED
  BY <1>3, <1>5, <1>6, <1>7 DEF HeldInv, HeldStable

LEMMA RingInit == Init => RingInv
<1> SUFFICES ASSUME Init PROVE RingInv
  OBVIOUS
<1>1. 0 \in Counter /\ Minus(0, 0) = 0
  <2>1. 0 \in Counter
    BY RingSizes DEF Counter
  <2> QED
    BY <2>1, MinusIs
<1>2. /\ sq.khead = 0 /\ sq.ktail = 0 /\ sq.sqe_tail = 0
      /\ cq.khead = 0 /\ cq.ktail = 0 /\ backlog = <<>> /\ held = <<>> /\ inflight = {}
  BY DEF Init
<1>3. SqType
  <2>1. BlankSqe \in Sqe
    BY DEF BlankSqe, Sqe, Word, Flags
  <2> QED
    BY <1>1, <2>1 DEF Init, SqType, Buffer
<1>4. CqType
  BY <1>1 DEF Init, CqType, Buffer, Values
<1>5. io_uring_sq_ready = 0 /\ io_uring_cq_ready = 0
  BY <1>1, <1>2 DEF io_uring_sq_ready, io_uring_cq_ready
<1>6. SqInv
  <2>1. DOMAIN Unconsumed = {}
    BY <1>5 DEF Unconsumed
  <2> QED
    BY <1>1, <1>2, <1>3, <1>5, <2>1, Sizes DEF SqInv, CleanRequests, RequestsKnown
<1>7. CqInv
  BY <1>2, <1>4, <1>5, Sizes DEF CqInv
<1>8. HeldInv
  <2>1. Len(Posted) = 0
    BY <1>4, <1>5, CqWindow, Sizes
  <2> QED
    BY <1>2, <1>5, <2>1 DEF HeldInv, HeldStable
<1> QED
  BY <1>2, <1>6, <1>7, <1>8 DEF RingInv

LEMMA GetSqeStep ==
    ASSUME SqInv, NEW u \in Tokens, io_uring_get_sqe(u)
    PROVE  SqInv'
<1> DEFINE x == Filled(BlankSqe, u)
           s == Unconsumed
<1>1. /\ io_uring_sq_ready < SqEntries
      /\ Unconsumed' = Append(s, x) /\ x \in Sqe /\ x.user_data = u
      /\ SqType' /\ io_uring_sq_ready' = io_uring_sq_ready + 1
      /\ Minus(sq.ktail, sq.khead)' = Minus(sq.ktail, sq.khead)
  BY GetSqe
<1>2. /\ s \in Seq(Sqe) /\ io_uring_sq_ready \in Nat
      /\ Minus(sq.ktail, sq.khead) <= io_uring_sq_ready
      /\ \A i \in DOMAIN s : s[i] = Filled(BlankSqe, s[i].user_data) /\ s[i].user_data \in Tokens
  BY SqWindow DEF SqInv, CleanRequests, RequestsKnown
<1>3. Minus(sq.ktail, sq.khead) \in Nat
  BY MinusIs, RingSizes, SMT DEF SqInv, SqType, Counter
<1>4. x = Filled(BlankSqe, x.user_data)
  BY <1>1
<1> HIDE DEF x, s
<1>5. /\ Append(s, x) \in Seq(Sqe) /\ Len(Append(s, x)) = Len(s) + 1
      /\ \A i \in 1..Len(s) : Append(s, x)[i] = s[i]
      /\ Append(s, x)[Len(s) + 1] = x
  BY <1>1, <1>2, AppendProperties
<1>6. DOMAIN Append(s, x) = 1..(Len(s) + 1) /\ DOMAIN s = 1..Len(s) /\ Len(s) \in Nat
  BY <1>2, <1>5
<1>7. \A i \in DOMAIN Append(s, x) :
        LET y == Append(s, x)[i] IN y = Filled(BlankSqe, y.user_data) /\ y.user_data \in Tokens
  BY <1>1, <1>2, <1>4, <1>5, <1>6
<1>8. CleanRequests' /\ RequestsKnown'
  BY <1>1, <1>7 DEF CleanRequests, RequestsKnown
<1>9. Minus(sq.ktail, sq.khead)' <= io_uring_sq_ready' /\ io_uring_sq_ready' <= SqEntries
  BY <1>1, <1>2, <1>3, Sizes
<1> QED
  BY <1>1, <1>8, <1>9 DEF SqInv

LEMMA SubmitStep ==
    ASSUME SqInv, inflight \subseteq Tokens, NEW n \in 0..io_uring_sq_ready, io_uring_submit(n)
    PROVE  SqInv' /\ inflight' \subseteq Tokens
<1> DEFINE s == Unconsumed
           m == io_uring_sq_ready
<1>1. /\ Unconsumed' = SubSeq(s, n + 1, m)
      /\ SqType' /\ io_uring_sq_ready' = m - n
      /\ Minus(sq.ktail, sq.khead)' = io_uring_sq_ready'
  BY Submit, SqWindow DEF SqInv
<1>2. /\ s \in Seq(Sqe) /\ m \in Nat /\ m <= SqEntries /\ Len(s) = m /\ DOMAIN s = 1..m
      /\ \A i \in DOMAIN s : s[i] = Filled(BlankSqe, s[i].user_data) /\ s[i].user_data \in Tokens
  BY SqWindow DEF SqInv, CleanRequests, RequestsKnown
<1>3. n \in 0..m
  OBVIOUS
<1>4. inflight' \subseteq Tokens
  BY <1>2, <1>3 DEF io_uring_submit
<1> DEFINE v == SubSeq(s, n + 1, m)
<1> HIDE DEF s, m
<1>5. DOMAIN v = 1..(m - n) /\ \A i \in 1..(m - n) : i + n \in 1..m /\ v[i] = s[i + n]
  BY <1>2, <1>3
<1> HIDE DEF v
<1>6. \A i \in DOMAIN v : v[i] = Filled(BlankSqe, v[i].user_data) /\ v[i].user_data \in Tokens
  BY <1>2, <1>5
<1>7. CleanRequests' /\ RequestsKnown'
  BY <1>1, <1>6 DEF CleanRequests, RequestsKnown, v
<1>8. io_uring_sq_ready' <= SqEntries /\ Minus(sq.ktail, sq.khead)' <= io_uring_sq_ready'
  BY <1>1, <1>2, <1>3, Sizes
<1> QED
  BY <1>1, <1>4, <1>7, <1>8 DEF SqInv

LEMMA PostStep ==
    ASSUME CqInv, HeldInv, NEW v, v \in Values, io_uring_cq_ready < CqEntries, Posts(v),
           backlog' \in Seq(Values), held' = held
    PROVE  CqInv' /\ HeldInv'
<1>1. /\ Posted' = Append(Posted, v) /\ CqType'
      /\ io_uring_cq_ready' = io_uring_cq_ready + 1
  BY Post
<1>2. /\ Posted \in Seq(Values) /\ Len(Posted) = io_uring_cq_ready
      /\ io_uring_cq_ready \in Nat
  BY CqWindow DEF CqInv
<1>3. CqInv'
  BY <1>1, <1>2, Sizes DEF CqInv
<1>4. io_uring_cq_ready <= io_uring_cq_ready'
  BY <1>1, <1>2
<1>5. \A i \in 1..io_uring_cq_ready : Posted'[i] = Posted[i]
  BY <1>1, <1>2
<1> QED
  BY <1>3, <1>4, <1>5, HeldKept

LEMMA CompleteStep ==
    ASSUME RingInv, NEW u \in Tokens, Complete(u)
    PROVE  RingInv'
<1>1. SqInv' /\ inflight' \subseteq Tokens /\ held' = held
  BY SqSame DEF RingInv, Complete
<1>2. CASE io_uring_cq_ready < CqEntries /\ ~ io_uring_cq_has_overflow
  <2>1. Posts(u) /\ backlog' = backlog
    BY <1>2 DEF Complete, Posts
  <2>2. u \in Values /\ backlog' \in Seq(Values)
    BY <2>1 DEF Values, RingInv, CqInv
  <2> QED
    BY <1>1, <1>2, <2>1, <2>2, PostStep DEF RingInv
<1>3. CASE ~ (io_uring_cq_ready < CqEntries /\ ~ io_uring_cq_has_overflow)
  <2>1. backlog' = Append(backlog, u) /\ cq' = cq
    BY <1>3 DEF Complete
  <2>2. Posted' = Posted /\ io_uring_cq_ready' = io_uring_cq_ready /\ CqType'
    BY <2>1, CqSame DEF RingInv, CqInv
  <2>3. backlog \in Seq(Values) /\ u \in Values
    BY DEF RingInv, CqInv, Values
  <2>4. backlog' \in Seq(Values)
    BY <2>1, <2>3, AppendProperties
  <2> QED
    BY <1>1, <2>2, <2>4 DEF RingInv, CqInv, HeldInv, HeldStable
<1> QED
  BY <1>2, <1>3

LEMMA FlushStep ==
    ASSUME RingInv, Flush
    PROVE  RingInv'
<1>1. /\ SqInv' /\ inflight' \subseteq Tokens /\ held' = held
      /\ io_uring_cq_ready < CqEntries
  BY SqSame DEF RingInv, Flush
<1>2. backlog \in Seq(Values) /\ backlog # <<>>
  BY DEF RingInv, CqInv, Flush, io_uring_cq_has_overflow
<1>3. Head(backlog) \in Values /\ Tail(backlog) \in Seq(Values)
  BY <1>2, HeadTailProperties
<1>4. Posts(Head(backlog)) /\ backlog' \in Seq(Values)
  BY <1>3 DEF Flush, Posts
<1> QED
  BY <1>1, <1>3, <1>4, PostStep DEF RingInv

\* main begins to look at n completions.
LEMMA LookStep ==
    ASSUME RingInv, NEW n \in 1..io_uring_cq_ready, LooksAt(n), UNCHANGED <<sq, backlog, inflight>>
    PROVE  RingInv' /\ Len(held') = n /\ Posted' = Posted
<1>1. SqInv' /\ inflight' \subseteq Tokens /\ backlog' = backlog
  BY SqSame DEF RingInv
<1>2. held' = SubSeq(Posted, 1, n) /\ cq' = cq
  BY DEF LooksAt
<1>3. Posted' = Posted /\ io_uring_cq_ready' = io_uring_cq_ready /\ CqType'
  BY <1>2, CqSame DEF RingInv, CqInv
<1>4. /\ Posted \in Seq(Values) /\ Len(Posted) = io_uring_cq_ready
      /\ io_uring_cq_ready \in Nat
  BY CqWindow DEF RingInv, CqInv
<1> DEFINE p == Posted
           m == io_uring_cq_ready
<1>5. p \in Seq(Values) /\ Len(p) = m /\ m \in Nat /\ n \in 1..m
  BY <1>4
<1> HIDE DEF p, m
<1>6. /\ SubSeq(p, 1, n) \in Seq(Values) /\ Len(SubSeq(p, 1, n)) = n
      /\ DOMAIN SubSeq(p, 1, n) = 1..n /\ \A i \in 1..n : SubSeq(p, 1, n)[i] = p[i]
  BY <1>5
<1>7. n <= m
  BY <1>5
<1>8. HeldInv'
  BY <1>2, <1>3, <1>5, <1>6, <1>7 DEF HeldInv, HeldStable, p, m
<1> QED
  BY <1>1, <1>2, <1>3, <1>6, <1>8 DEF RingInv, CqInv, p

LEMMA SeenStep ==
    ASSUME RingInv, io_uring_cqe_seen
    PROVE  RingInv' /\ Posted' = SubSeq(Posted, Len(held) + 1, Len(Posted))
<1>1. /\ SqInv' /\ inflight' \subseteq Tokens /\ held' = <<>> /\ backlog' = backlog
      /\ io_uring_cq_advance(Len(held))
  BY SqSame DEF RingInv, io_uring_cqe_seen
<1>2. io_uring_cq_ready \in Nat /\ Len(held) \in Nat /\ Len(held) <= io_uring_cq_ready
  BY CqWindow DEF RingInv, CqInv, HeldInv
<1>3. Len(held) \in 0..io_uring_cq_ready
  BY <1>2
<1> DEFINE k == Len(held)
<1>4. k \in 0..io_uring_cq_ready /\ io_uring_cq_advance(k) /\ CqInv
  BY <1>1, <1>3 DEF RingInv
<1> HIDE DEF k
<1>5. /\ Posted' = SubSeq(Posted, k + 1, Len(Posted)) /\ CqType'
      /\ io_uring_cq_ready' = io_uring_cq_ready - k
  BY <1>4, Advance
<1>6. io_uring_cq_ready' <= CqEntries /\ io_uring_cq_ready' \in Nat
  BY <1>2, <1>4, <1>5, Sizes DEF CqInv
<1>7. CqInv'
  BY <1>1, <1>4, <1>5, <1>6 DEF CqInv
<1>8. HeldInv'
  <2>1. Len(Posted') \in Nat
    <3>1. Posted \in Seq(Values)
      BY <1>4, CqWindow DEF CqInv
    <3>2. Len(Posted) = io_uring_cq_ready
      BY <1>4, CqWindow DEF CqInv
    <3> QED
      BY <1>2, <1>4, <1>5, <3>1, <3>2
  <2> QED
    BY <1>1, <1>6, <2>1 DEF HeldInv, HeldStable
<1> QED
  BY <1>1, <1>5, <1>7, <1>8 DEF RingInv, k

LEMMA RingStep == RingInv /\ [Next]_vars => RingInv'
<1> SUFFICES ASSUME RingInv, [Next]_vars PROVE RingInv'
  OBVIOUS
<1>1. ASSUME NEW u \in Idle, io_uring_get_sqe(u) PROVE RingInv'
  <2>1. u \in Tokens
    BY DEF Idle
  <2>2. cq' = cq /\ UNCHANGED <<backlog, inflight, held>>
    BY <1>1 DEF io_uring_get_sqe
  <2>3. SqInv'
    BY <1>1, <2>1, GetSqeStep DEF RingInv
  <2> QED
    BY <2>2, <2>3, CqSame DEF RingInv, CqInv, HeldInv, HeldStable
<1>2. ASSUME NEW n \in 0..SqEntries, n <= io_uring_sq_ready, io_uring_submit(n) PROVE RingInv'
  <2>1. n \in 0..io_uring_sq_ready
    BY <1>2, SqWindow, Sizes DEF RingInv, SqInv
  <2>2. cq' = cq /\ UNCHANGED <<backlog, held>>
    BY <1>2 DEF io_uring_submit
  <2>3. SqInv' /\ inflight' \subseteq Tokens
    BY <1>2, <2>1, SubmitStep DEF RingInv
  <2> QED
    BY <2>2, <2>3, CqSame DEF RingInv, CqInv, HeldInv, HeldStable
<1>3. ASSUME io_uring_wait_cqe PROVE RingInv'
  <2>1. 1 \in 1..io_uring_cq_ready
    BY <1>3, CqWindow DEF io_uring_wait_cqe, RingInv, CqInv
  <2> QED
    BY <1>3, <2>1, LookStep DEF io_uring_wait_cqe
<1>4. ASSUME io_uring_for_each_cqe PROVE RingInv'
  <2> DEFINE n == io_uring_cq_ready
  <2>1. n \in 1..io_uring_cq_ready
    BY <1>4, CqWindow DEF io_uring_for_each_cqe, RingInv, CqInv
  <2>2. LooksAt(n) /\ UNCHANGED <<sq, backlog, inflight>>
    BY <1>4 DEF io_uring_for_each_cqe
  <2> HIDE DEF n
  <2> QED
    BY <2>1, <2>2, LookStep
<1>5. ASSUME UNCHANGED vars PROVE RingInv'
  BY <1>5, SqSame, CqSame DEF vars, RingInv, CqInv, HeldInv, HeldStable
<1> QED
  BY <1>1, <1>2, <1>3, <1>4, <1>5, SeenStep, CompleteStep, FlushStep DEF Next, Main

LEMMA RingInvariance == Spec => []RingInv
  BY RingInit, RingStep, PTL DEF Spec

\* The counters stay in order and no queue exceeds its size, after any number of
\* wrap-arounds.
THEOREM TypeCorrect == Spec => []TypeOK
<1>1. RingInv => TypeOK
  BY DEF RingInv, SqInv, SqType, CqInv, CqType, HeldInv, TypeOK, Counter
<1> QED
  BY <1>1, RingInvariance, PTL

\* The kernel never writes to an entry main is looking at.
THEOREM HeldAlwaysStable == Spec => []HeldStable
<1>1. RingInv => HeldStable
  BY DEF RingInv, HeldInv
<1> QED
  BY <1>1, RingInvariance, PTL

\* Requests carry nothing over from the entry they reuse.
THEOREM RequestsAlwaysClean == Spec => []CleanRequests
<1>1. RingInv => CleanRequests
  BY DEF RingInv, SqInv
<1> QED
  BY <1>1, RingInvariance, PTL

-----------------------------------------------------------------------------
(* The rings implement the queues of RingSpec.                             *)

LEMMA AppendConcat ==
    ASSUME NEW V, NEW s \in Seq(V), NEW t \in Seq(V), NEW x \in V
    PROVE  s \o Append(t, x) = Append(s \o t, x)
<1> DEFINE a == s \o Append(t, x)
           b == Append(s \o t, x)
<1>1. Append(t, x) \in Seq(V) /\ s \o t \in Seq(V)
  OBVIOUS
<1>2. a \in Seq(V) /\ b \in Seq(V)
  BY <1>1
<1>3. Len(a) = Len(s) + Len(t) + 1 /\ Len(b) = Len(s) + Len(t) + 1
  BY <1>1
<1>4. ASSUME NEW i \in 1..(Len(s) + Len(t) + 1) PROVE a[i] = b[i]
  BY <1>1, <1>4
<1> HIDE DEF a, b
<1>5. a = b
  BY <1>2, <1>3, <1>4, SeqEqual
<1> QED
  BY <1>5 DEF a, b

LEMMA MoveHead ==
    ASSUME NEW V, NEW s \in Seq(V), NEW t \in Seq(V), t # <<>>
    PROVE  Append(s, Head(t)) \o Tail(t) = s \o t
<1> DEFINE a == Append(s, Head(t)) \o Tail(t)
           b == s \o t
<1>1. Head(t) = t[1] /\ Len(t) \in Nat \ {0} /\ Head(t) \in V /\ Tail(t) \in Seq(V)
      /\ Len(Tail(t)) = Len(t) - 1 /\ \A i \in 1..(Len(t) - 1) : Tail(t)[i] = t[i + 1]
  BY HeadTailProperties
<1>2. /\ Append(s, Head(t)) \in Seq(V) /\ Len(Append(s, Head(t))) = Len(s) + 1
      /\ Append(s, Head(t))[Len(s) + 1] = t[1]
      /\ \A i \in 1..Len(s) : Append(s, Head(t))[i] = s[i]
  BY <1>1
<1>3. a \in Seq(V) /\ b \in Seq(V) /\ Len(a) = Len(s) + Len(t) /\ Len(b) = Len(s) + Len(t)
  BY <1>1, <1>2
<1>4. ASSUME NEW i \in 1..(Len(s) + Len(t)) PROVE a[i] = b[i]
  BY <1>1, <1>2, <1>4
<1> HIDE DEF a, b
<1>5. a = b
  BY <1>3, <1>4, SeqEqual
<1> QED
  BY <1>5 DEF a, b

LEMMA DropConcat ==
    ASSUME NEW V, NEW s \in Seq(V), NEW t \in Seq(V), NEW k \in 0..Len(s)
    PROVE  SubSeq(s, k + 1, Len(s)) \o t = SubSeq(s \o t, k + 1, Len(s \o t))
<1> DEFINE d == SubSeq(s, k + 1, Len(s))
           c == s \o t
           a == d \o t
           b == SubSeq(c, k + 1, Len(c))
<1>1. /\ d \in Seq(V) /\ Len(d) = Len(s) - k
      /\ \A i \in 1..(Len(s) - k) : d[i] = s[i + k]
  OBVIOUS
<1>2. /\ c \in Seq(V) /\ Len(c) = Len(s) + Len(t)
      /\ \A i \in 1..Len(c) : c[i] = IF i <= Len(s) THEN s[i] ELSE t[i - Len(s)]
  OBVIOUS
<1> HIDE DEF d, c
<1>3. /\ a \in Seq(V) /\ Len(a) = Len(d) + Len(t)
      /\ \A i \in 1..Len(a) : a[i] = IF i <= Len(d) THEN d[i] ELSE t[i - Len(d)]
  <2>1. d \in Seq(V)
    BY <1>1
  <2> QED
    BY <2>1, ConcatProperties
<1>4. k \in Nat /\ Len(s) \in Nat /\ Len(t) \in Nat /\ k <= Len(s)
  OBVIOUS
<1>5. /\ b \in Seq(V) /\ Len(b) = Len(s) + Len(t) - k
      /\ \A i \in 1..Len(b) : b[i] = c[i + k]
  <2> DEFINE m == k + 1
             n == Len(c)
             u == SubSeq(c, m, n)
  <2>1. m \in Int /\ n \in Int /\ \A i \in m..n : c[i] \in V
    BY <1>2, <1>4
  <2> HIDE DEF m, n
  <2>2. /\ u \in Seq(V) /\ Len(u) = IF m <= n THEN n - m + 1 ELSE 0
        /\ \A i \in 1..(n - m + 1) : u[i] = c[m + i - 1]
    BY <2>1, SubSeqProperties
  <2> HIDE DEF u
  <2>3. u \in Seq(V) /\ Len(u) = Len(s) + Len(t) - k /\ \A i \in 1..Len(u) : u[i] = c[i + k]
    BY <1>2, <1>4, <2>2 DEF m, n
  <2> QED
    BY <2>3 DEF u, m, n
<1> HIDE DEF a, b
<1>6. Len(a) = Len(b)
  BY <1>1, <1>3, <1>4, <1>5
<1>7. ASSUME NEW i \in 1..Len(a) PROVE a[i] = b[i]
  <2>1. i \in Nat /\ i + k \in 1..Len(c) /\ b[i] = c[i + k]
    BY <1>1, <1>2, <1>3, <1>4, <1>5
  <2>2. CASE i <= Len(d)
    <3>1. a[i] = d[i] /\ d[i] = s[i + k] /\ i + k <= Len(s)
      BY <1>1, <1>3, <1>4, <2>1, <2>2
    <3>2. c[i + k] = s[i + k]
      BY <1>2, <2>1, <3>1
    <3> QED
      BY <2>1, <3>1, <3>2
  <2>3. CASE ~ (i <= Len(d))
    <3>1. a[i] = t[i - Len(d)]
      BY <1>3, <2>3
    <3>2. ~ (i + k <= Len(s)) /\ (i + k) - Len(s) = i - Len(d)
      BY <1>1, <1>4, <2>1, <2>3
    <3>3. c[i + k] = t[(i + k) - Len(s)]
      BY <1>2, <2>1, <3>2
    <3> QED
      BY <2>1, <3>1, <3>2, <3>3
  <2> QED
    BY <2>2, <2>3
<1>8. a = b
  BY <1>3, <1>5, <1>6, <1>7, SeqEqual
<1> QED
  BY <1>8 DEF a, b, c, d

\* What the abstract variables stand for.
Waiting == [i \in DOMAIN Unconsumed |-> Unconsumed[i].user_data]

Done == Posted \o backlog

LEMMA WaitingType ==
    ASSUME SqInv
    PROVE  /\ Waiting \in Seq(Tokens) /\ Len(Waiting) = io_uring_sq_ready
           /\ io_uring_sq_ready \in Nat /\ io_uring_sq_ready <= SqEntries
           /\ \A i \in 1..io_uring_sq_ready : Waiting[i] = Unconsumed[i].user_data
<1>1. DOMAIN Unconsumed = 1..io_uring_sq_ready /\ io_uring_sq_ready \in Nat
  BY SqWindow DEF SqInv
<1>2. Waiting \in [1..io_uring_sq_ready -> Tokens]
  BY <1>1 DEF Waiting, SqInv, RequestsKnown
<1> QED
  BY <1>1, <1>2 DEF Waiting, SqInv

LEMMA DoneType ==
    ASSUME CqInv
    PROVE  /\ Posted \in Seq(Values) /\ backlog \in Seq(Values) /\ Done \in Seq(Values)
           /\ Len(Done) = Len(Posted) + Len(backlog)
           /\ Len(Posted) = io_uring_cq_ready /\ io_uring_cq_ready \in Nat
           /\ io_uring_cq_ready <= CqEntries
<1>1. /\ Posted \in Seq(Values) /\ backlog \in Seq(Values)
      /\ Len(Posted) = io_uring_cq_ready /\ io_uring_cq_ready \in Nat
      /\ io_uring_cq_ready <= CqEntries
  BY CqWindow DEF CqInv
<1>2. Done \in Seq(Values) /\ Len(Done) = Len(Posted) + Len(backlog)
  BY <1>1, ConcatProperties DEF Done
<1> QED
  BY <1>1, <1>2

\* A step of the rings that leaves them as they are for main.
Unseen == Waiting' = Waiting /\ inflight' = inflight /\ Done' = Done /\ Len(held') = Len(held)

LEMMA UnseenStutters == Unseen => UNCHANGED Abstract!vars
  BY DEF Unseen, Abstract!vars, Waiting, Done

LEMMA AbstractInit == Init => Abstract!Init
<1> SUFFICES ASSUME Init PROVE Abstract!Init
  OBVIOUS
<1>1. RingInv /\ backlog = <<>> /\ held = <<>> /\ inflight = {}
  BY RingInit DEF Init
<1>2. io_uring_sq_ready = 0 /\ io_uring_cq_ready = 0
  <2>1. 0 \in Counter
    BY RingSizes DEF Counter
  <2> QED
    BY <2>1, MinusIs DEF Init, io_uring_sq_ready, io_uring_cq_ready
<1>3. Waiting = <<>>
  BY <1>1, <1>2, WaitingType DEF RingInv
<1>4. Done = <<>>
  BY <1>1, <1>2, DoneType DEF RingInv
<1> QED
  BY <1>1, <1>3, <1>4 DEF Abstract!Init, Waiting, Done

\* user_data that main may use is free in the abstract queues.
LEMMA IdleIsFree ==
    ASSUME RingInv, NEW u \in Idle
    PROVE  u \in Abstract!Idle
<1>1. DOMAIN Waiting = DOMAIN Unconsumed
  BY DEF Waiting
<1>2. u \notin Abstract!Elements(Waiting)
  BY <1>1 DEF Idle, Abstract!Elements, Waiting
<1>3. u \notin Abstract!Elements(Done)
  <2>1. \A i \in DOMAIN Posted : Posted[i] # u
    BY DEF Idle
  <2>2. \A i \in DOMAIN backlog : backlog[i] # u
    BY DEF Idle
  <2> DEFINE p == Posted
  <2>3. p \in Seq(Values) /\ backlog \in Seq(Values)
    BY DoneType DEF RingInv
  <2>4. \A i \in DOMAIN p : p[i] # u
    BY <2>1
  <2> HIDE DEF p
  <2>5. \A i \in DOMAIN (p \o backlog) : (p \o backlog)[i] # u
    BY <2>2, <2>3, <2>4
  <2> QED
    BY <2>5 DEF Abstract!Elements, Done, p
<1> QED
  BY <1>2, <1>3 DEF Idle, Abstract!Idle, Waiting, Done

LEMMA PrepareStep ==
    ASSUME RingInv, NEW u \in Idle, io_uring_get_sqe(u)
    PROVE  Abstract!Prepare(u)
<1>1. /\ UNCHANGED <<cq, backlog, inflight, held>> /\ u \in Tokens
  BY DEF io_uring_get_sqe, Idle
<1> DEFINE x == Filled(BlankSqe, u)
           s == Unconsumed
<1>2. /\ io_uring_sq_ready < SqEntries /\ x.user_data = u /\ x \in Sqe
      /\ Unconsumed' = Append(s, x)
  BY <1>1, GetSqe DEF RingInv
<1>3. /\ s \in Seq(Sqe) /\ Waiting = [i \in DOMAIN s |-> s[i].user_data]
      /\ Waiting \in Seq(Tokens) /\ Len(Waiting) = Len(s) /\ Len(s) = io_uring_sq_ready
  BY WaitingType, SqWindow DEF Waiting, RingInv, SqInv
<1>4. Waiting' = [i \in DOMAIN Append(s, x) |-> Append(s, x)[i].user_data]
  BY <1>2 DEF Waiting
<1>5. Waiting' = Append(Waiting, u)
  <2> DEFINE w == Waiting
  <2>1. w = [i \in DOMAIN s |-> s[i].user_data] /\ w \in Seq(Tokens) /\ Len(w) = Len(s)
    BY <1>3
  <2> HIDE DEF w, x, s
  <2>2. /\ Append(s, x) \in Seq(Sqe) /\ Len(Append(s, x)) = Len(s) + 1
        /\ \A i \in 1..Len(s) : Append(s, x)[i] = s[i]
        /\ Append(s, x)[Len(s) + 1] = x
    BY <1>2, <1>3, AppendProperties
  <2>3. [i \in DOMAIN Append(s, x) |-> Append(s, x)[i].user_data] = Append(w, u)
    BY <1>1, <1>2, <1>3, <2>1, <2>2
  <2> QED
    BY <1>4, <2>3 DEF w
<1>6. Done' = Done
  BY <1>1, CqSame DEF Done
<1> QED
  BY <1>1, <1>2, <1>3, <1>5, <1>6 DEF Abstract!Prepare, Waiting, Done

LEMMA TakeStep ==
    ASSUME RingInv, NEW n \in 0..SqEntries, n <= io_uring_sq_ready, io_uring_submit(n)
    PROVE  Unseen \/ (n \in 1..Len(Waiting) /\ Abstract!Take(n))
<1> DEFINE s == Unconsumed
           w == Waiting
           m == io_uring_sq_ready
<1>1. /\ UNCHANGED <<cq, backlog, held>>
      /\ inflight' = inflight \cup {s[i].user_data : i \in 1..n}
  BY DEF io_uring_submit
<1>2. /\ w \in Seq(Tokens) /\ Len(w) = m /\ m \in Nat
      /\ \A i \in 1..m : w[i] = s[i].user_data
  BY WaitingType DEF RingInv
<1>3. /\ s \in Seq(Sqe) /\ Len(s) = m
  BY SqWindow DEF RingInv, SqInv
<1>4. n \in 0..m
  BY <1>2, Sizes
<1>5. Unconsumed' = SubSeq(s, n + 1, m)
  BY <1>3, <1>4, Submit DEF RingInv
<1>6. Waiting' = [i \in DOMAIN SubSeq(s, n + 1, m) |-> SubSeq(s, n + 1, m)[i].user_data]
  BY <1>5 DEF Waiting
<1>7. Done' = Done
  BY <1>1, CqSame DEF Done
<1> HIDE DEF s, w, m
<1>8. Waiting' = SubSeq(w, n + 1, m)
  <2>1. /\ DOMAIN SubSeq(s, n + 1, m) = 1..(m - n)
        /\ \A i \in 1..(m - n) : i + n \in 1..m /\ SubSeq(s, n + 1, m)[i] = s[i + n]
    BY <1>2, <1>3, <1>4
  <2>2. /\ SubSeq(w, n + 1, m) \in Seq(Tokens) /\ DOMAIN SubSeq(w, n + 1, m) = 1..(m - n)
        /\ \A i \in 1..(m - n) : SubSeq(w, n + 1, m)[i] = w[i + n]
    BY <1>2, <1>4
  <2> DEFINE a == SubSeq(s, n + 1, m)
             b == SubSeq(w, n + 1, m)
  <2>3. /\ DOMAIN a = 1..(m - n) /\ DOMAIN b = 1..(m - n)
        /\ \A i \in 1..(m - n) : a[i].user_data = b[i]
    BY <1>2, <2>1, <2>2
  <2>4. b = [i \in DOMAIN b |-> b[i]]
    BY <2>2
  <2> HIDE DEF a, b
  <2>5. [i \in DOMAIN a |-> a[i].user_data] = b
    BY <2>3, <2>4
  <2> QED
    BY <1>6, <2>5 DEF a, b
<1>9. CASE n = 0
  <2>1. inflight' = inflight
    BY <1>1, <1>9
  <2>2. SubSeq(w, n + 1, m) = w
    BY <1>2, <1>9
  <2>3. Waiting' = Waiting
    BY <1>8, <2>2, Zenon DEF w
  <2>4. Len(held') = Len(held)
    BY <1>1
  <2> QED
    BY <1>7, <2>1, <2>3, <2>4 DEF Unseen
<1>10. CASE n # 0
  <2>1. n \in 1..m
    BY <1>4, <1>10
  <2>2. {s[i].user_data : i \in 1..n} = Abstract!Elements(SubSeq(w, 1, n))
    <3>1. /\ DOMAIN SubSeq(w, 1, n) = 1..n
          /\ \A i \in 1..n : SubSeq(w, 1, n)[i] = w[i] /\ w[i] = s[i].user_data
      BY <1>2, <2>1
    <3> QED
      BY <3>1 DEF Abstract!Elements
  <2> QED
    BY <1>1, <1>2, <1>7, <1>8, <2>1, <2>2
       DEF Abstract!Take, Abstract!Drop, Waiting, Done, w
<1> QED
  BY <1>9, <1>10

LEMMA LookAtStep ==
    ASSUME RingInv, NEW n \in 1..io_uring_cq_ready, LooksAt(n), held = <<>>,
           UNCHANGED <<sq, backlog, inflight>>
    PROVE  n \in 1..CqEntries /\ n <= Len(Done) /\ Abstract!LookAt(n)
<1>1. Len(held') = n /\ Posted' = Posted
  BY LookStep
<1>2. /\ Len(Done) = Len(Posted) + Len(backlog) /\ Len(backlog) \in Nat
      /\ Len(Posted) = io_uring_cq_ready /\ io_uring_cq_ready \in Nat
      /\ io_uring_cq_ready <= CqEntries
  BY DoneType DEF RingInv, CqInv
<1>3. n \in 1..CqEntries /\ n <= Len(Done)
  BY <1>2, Sizes
<1>4. Waiting' = Waiting
  BY SqSame DEF Waiting
<1>5. Done' = Done
  BY <1>1 DEF Done
<1> QED
  BY <1>1, <1>3, <1>4, <1>5 DEF Abstract!LookAt, Waiting, Done

LEMMA GiveBackStep ==
    ASSUME RingInv, io_uring_cqe_seen
    PROVE  Abstract!GiveBack
<1> DEFINE p == Posted
           k == Len(held)
<1>1. /\ UNCHANGED <<sq, backlog, inflight>> /\ held # <<>> /\ held' = <<>>
      /\ held \in Seq(Values) /\ k <= io_uring_cq_ready
  BY DEF io_uring_cqe_seen, RingInv, HeldInv
<1>2. p \in Seq(Values) /\ backlog \in Seq(Values) /\ Len(p) = io_uring_cq_ready
  BY DoneType DEF RingInv
<1>3. k \in Nat /\ k > 0
  BY <1>1
<1>4. Posted' = SubSeq(p, k + 1, Len(p))
  BY SeenStep
<1>5. k \in 0..Len(p)
  BY <1>1, <1>2, <1>3
<1> HIDE DEF p, k
<1>6. SubSeq(p, k + 1, Len(p)) \o backlog = SubSeq(p \o backlog, k + 1, Len(p \o backlog))
  BY <1>2, <1>5, DropConcat
<1>7. Done' = SubSeq(Done, k + 1, Len(Done))
  BY <1>1, <1>4, <1>6 DEF Done, p
<1>8. Waiting' = Waiting
  BY <1>1, SqSame DEF Waiting
<1>9. Len(held') = 0
  BY <1>1
<1> QED
  BY <1>1, <1>3, <1>7, <1>8, <1>9 DEF Abstract!GiveBack, Abstract!Drop, Waiting, Done, k

LEMMA AbstractCompleteStep ==
    ASSUME RingInv, NEW u \in Tokens, Complete(u)
    PROVE  u \in inflight /\ Abstract!Complete(u)
<1>1. u \in inflight /\ inflight' = inflight \ {u} /\ UNCHANGED <<sq, held>>
  BY DEF Complete
<1> DEFINE p == Posted
<1>2. p \in Seq(Values) /\ backlog \in Seq(Values) /\ u \in Values
  BY DoneType DEF RingInv, Values
<1>3. p \o Append(backlog, u) = Append(p \o backlog, u)
  <2> HIDE DEF p
  <2> QED
    BY <1>2, AppendConcat
<1>4. Done' = Append(Done, u)
  <2>1. CASE io_uring_cq_ready < CqEntries /\ ~ io_uring_cq_has_overflow
    <3>1. Posts(u) /\ backlog' = backlog /\ backlog = <<>>
      BY <2>1 DEF Complete, Posts, io_uring_cq_has_overflow
    <3>2. Posted' = Append(p, u)
      BY <1>2, <2>1, <3>1, Post DEF RingInv
    <3> HIDE DEF p
    <3>3. Append(p, u) \in Seq(Values)
      BY <1>2
    <3>4. Append(p, u) \o <<>> = Append(p, u) /\ p \o <<>> = p
      BY <1>2, <3>3, ConcatEmptySeq
    <3> QED
      BY <3>1, <3>2, <3>4 DEF Done, p
  <2>2. CASE ~ (io_uring_cq_ready < CqEntries /\ ~ io_uring_cq_has_overflow)
    <3>1. backlog' = Append(backlog, u) /\ cq' = cq
      BY <2>2 DEF Complete
    <3>2. Posted' = Posted
      BY <3>1, CqSame
    <3> QED
      BY <1>3, <3>1, <3>2 DEF Done
  <2> QED
    BY <2>1, <2>2
<1>5. Waiting' = Waiting
  BY <1>1, SqSame DEF Waiting
<1> QED
  BY <1>1, <1>4, <1>5 DEF Abstract!Complete, Waiting, Done

\* Moving a completion from the backlog to the ring changes nothing main can see.
LEMMA FlushUnseen ==
    ASSUME RingInv, Flush
    PROVE  Unseen
<1> DEFINE p == Posted
<1>1. /\ UNCHANGED <<sq, inflight, held>> /\ backlog # <<>> /\ backlog' = Tail(backlog)
      /\ Posts(Head(backlog)) /\ io_uring_cq_ready < CqEntries
  BY DEF Flush, Posts, io_uring_cq_has_overflow
<1>2. p \in Seq(Values) /\ backlog \in Seq(Values)
  BY DoneType DEF RingInv
<1>3. Head(backlog) \in Values
  BY <1>1, <1>2, HeadTailProperties
<1>4. Posted' = Append(p, Head(backlog))
  <2> DEFINE v == Head(backlog)
  <2>1. v \in Values /\ Posts(v)
    BY <1>1, <1>3
  <2> HIDE DEF v
  <2>2. Posted' = Append(p, v)
    BY <1>1, <2>1, Post DEF RingInv
  <2> QED
    BY <2>2 DEF v
<1>5. Append(p, Head(backlog)) \o Tail(backlog) = p \o backlog
  <2> HIDE DEF p
  <2> QED
    BY <1>1, <1>2, MoveHead
<1>6. Done' = Done
  BY <1>1, <1>4, <1>5 DEF Done
<1>7. Waiting' = Waiting
  BY <1>1, SqSame DEF Waiting
<1> QED
  BY <1>1, <1>6, <1>7 DEF Unseen

LEMMA AbstractStep == RingInv /\ [Next]_vars => [Abstract!Next]_(Abstract!vars)
<1> SUFFICES ASSUME RingInv, [Next]_vars PROVE [Abstract!Next]_(Abstract!vars)
  OBVIOUS
<1>1. ASSUME NEW u \in Idle, io_uring_get_sqe(u) PROVE Abstract!Next
  BY <1>1, IdleIsFree, PrepareStep DEF Abstract!Next
<1>2. ASSUME NEW n \in 0..SqEntries, n <= io_uring_sq_ready, io_uring_submit(n)
      PROVE  [Abstract!Next]_(Abstract!vars)
  <2>1. Unseen \/ (n \in 1..Len(Waiting) /\ Abstract!Take(n))
    BY <1>2, TakeStep
  <2> QED
    BY <2>1, UnseenStutters DEF Abstract!Next, Waiting
<1>3. ASSUME io_uring_wait_cqe PROVE Abstract!Next
  <2>1. 1 \in 1..io_uring_cq_ready
    BY <1>3, CqWindow DEF io_uring_wait_cqe, RingInv, CqInv
  <2>2. 1 \in 1..CqEntries /\ 1 <= Len(Done) /\ Abstract!LookAt(1)
    BY <1>3, <2>1, LookAtStep DEF io_uring_wait_cqe
  <2> QED
    BY <2>2 DEF Abstract!Next, Done
<1>4. ASSUME io_uring_for_each_cqe PROVE Abstract!Next
  <2> DEFINE n == io_uring_cq_ready
  <2>1. n \in 1..io_uring_cq_ready
    BY <1>4, CqWindow DEF io_uring_for_each_cqe, RingInv, CqInv
  <2>2. LooksAt(n) /\ held = <<>> /\ UNCHANGED <<sq, backlog, inflight>>
    BY <1>4 DEF io_uring_for_each_cqe
  <2> HIDE DEF n
  <2>3. n \in 1..CqEntries /\ n <= Len(Done) /\ Abstract!LookAt(n)
    BY <2>1, <2>2, LookAtStep
  <2> QED
    BY <2>3 DEF Abstract!Next, Done
<1>5. ASSUME io_uring_cqe_seen PROVE Abstract!Next
  BY <1>5, GiveBackStep DEF Abstract!Next
<1>6. ASSUME NEW u \in Tokens, Complete(u) PROVE Abstract!Next
  BY <1>6, AbstractCompleteStep DEF Abstract!Next
<1>7. ASSUME Flush PROVE UNCHANGED Abstract!vars
  BY <1>7, FlushUnseen, UnseenStutters
<1>8. ASSUME UNCHANGED vars PROVE UNCHANGED Abstract!vars
  <2>1. Unseen
    BY <1>8, SqSame, CqSame DEF vars, Unseen, Waiting, Done
  <2> QED
    BY <2>1, UnseenStutters
<1> QED
  BY <1>1, <1>2, <1>3, <1>4, <1>5, <1>6, <1>7, <1>8 DEF Next, Main

\* Whatever the sizes of the rings and wherever the counters wrap around, main sees
\* two queues that lose, repeat and reorder nothing.
THEOREM ImplementsQueues == Spec => ImplementsRingSpec
  BY AbstractInit, AbstractStep, RingInvariance, PTL DEF Spec, ImplementsRingSpec, Abstract!Spec

=============================================================================
