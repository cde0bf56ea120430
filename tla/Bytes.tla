-------------------------------- MODULE Bytes --------------------------------
(* Big-endian byte arithmetic: what common/uint128.h, common/iputils.h and   *)
(* the qToBigEndian calls of the protocol classes compute.  A value of up    *)
(* to 24 bits is an integer; an address is the sequence of its bytes, so     *)
(* that its width is the width of the code's integer.                        *)
EXTENDS Integers, Sequences, SequencesExt, Bitwise

\* n bytes, all equal to b.
Fill(n, b) == [j \in 1..n |-> b]

\* CHOOSE y \in {f(x) : x \in {e}} : TRUE is f(e), with e evaluated once and
\* before f: the form in which the longer computations here name a value.

\* The low w <= 4 bytes of x, most significant first (-1 is all ones).
BE(x, w) ==
  CHOOSE b \in {SubSeq(<<(n \div 16777216) % 256, (n \div 65536) % 256, (n \div 256) % 256,
                          n % 256>>, 5 - w, 4) : n \in {x}} : TRUE

\* q as a tuple.
Strict(q) == <<>> \o q

\* SequencesExt's FoldLeft by recursion on the length: the sequences here are
\* long enough for the difference to matter.
FoldOver(op(_, _), base, q) ==
  LET f[n \in 0..Len(q)] ==
        IF n = 0 THEN base
        ELSE CHOOSE r \in {op(acc, x) : acc \in {f[n - 1]}, x \in {q[n]}} : TRUE
  IN f[Len(q)]

\* The sum of a sequence, by halves.
Sum(seq) ==
  LET total(q) ==
        LET f[lo \in 1..Len(q), hi \in 1..Len(q)] ==
              IF lo = hi THEN q[lo]
              ELSE f[lo, (lo + hi) \div 2] + f[(lo + hi) \div 2 + 1, hi]
        IN IF q = <<>> THEN 0 ELSE f[1, Len(q)]
  IN CHOOSE t \in {total(q) : q \in {seq}} : TRUE

\* The value of a short byte sequence.
ToInt(b) == FoldOver(LAMBDA a, x : a * 256 + x, 0, b)

\* b + x and b - x modulo 2^(8 * Len(b)), one byte at a time with the carry.
AddBytes(b, x) ==
  LET carry[j \in 1..Len(b)] ==
        IF j = Len(b) THEN x ELSE (b[j + 1] + carry[j + 1]) \div 256
  IN Strict([j \in 1..Len(b) |-> (b[j] + carry[j]) % 256])

SubBytes(b, x) == AddBytes(b, -x)

AndBytes(a, b) == [j \in 1..Len(a) |-> a[j] & b[j]]
OrBytes(a, b) == [j \in 1..Len(a) |-> a[j] | b[j]]
NotBytes(a) == [j \in 1..Len(a) |-> 255 - a[j]]

\* A mask of n bytes whose first p bits are ones: ~0 << (8n - p).
PrefixMask(p, n) ==
  [j \in 1..n |-> LET k == p - 8 * (j - 1)
                  IN IF k <= 0 THEN 0 ELSE IF k >= 8 THEN 255
                     ELSE 256 - 2 ^ (8 - k)]

\* The i-th address: the host part counts up or down within the mask.
HostAddress(ip, mask, mode, count, i) ==
  LET host == Strict(AndBytes(ip, NotBytes(mask)))
      next == IF mode = "inc" THEN AddBytes(host, i % count)
              ELSE SubBytes(host, i % count)
  IN IF mode = "fixed" THEN ip
     ELSE Strict(OrBytes(AndBytes(ip, mask), AndBytes(next, NotBytes(mask))))

\* ipUtils::ipAddress for IPv4.
Ip4Group(ip, prefix, mode, count, i) ==
  HostAddress(ip, PrefixMask(prefix, 4), mode, count, i)

\* ipUtils::ipAddress for IPv6.  Only the low half counts.  Its mask is
\* ~((1 << (prefix - 64)) - 1), ones from bit prefix - 64 up: it keeps the
\* first 128 - prefix bits of the half, and none when the prefix is short.
Ip6Group(ip, prefix, mode, count, i) ==
  LET mask == IF prefix > 64 THEN PrefixMask(128 - prefix, 8) ELSE Fill(8, 0)
  IN SubSeq(ip, 1, 8) \o HostAddress(SubSeq(ip, 9, 16), mask, mode, count, i)

\* The eight bits of each byte, most significant first.
BitsOf(b) ==
  [j \in 1..(8 * Len(b)) |->
     (b[1 + (j - 1) \div 8] \div (2 ^ (7 - ((j - 1) % 8)))) % 2]

=============================================================================
