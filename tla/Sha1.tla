-------------------------------- MODULE Sha1 ---------------------------------
(***************************************************************************)
(* SHA-1 as sha1.hpp computes it, for the accept key of a websocket.        *)
(* A 32-bit word is the pair <<high, low>> of its halves; a context is a    *)
(* record as in the code, with buf as long as buflen.                       *)
(***************************************************************************)
LOCAL INSTANCE Integers
LOCAL INSTANCE Sequences

Half == 65536
Word == (0..65535) \X (0..65535)
BLOCK_INTS == 16
BLOCK_BYTES == 64

Nibbles == 0..15
Bit(x, i) == (x \div 2 ^ i) % 2
Table(Op(_, _)) == [x \in Nibbles, y \in Nibbles |->
    Op(Bit(x, 0), Bit(y, 0)) + 2 * Op(Bit(x, 1), Bit(y, 1))
        + 4 * Op(Bit(x, 2), Bit(y, 2)) + 8 * Op(Bit(x, 3), Bit(y, 3))]
AndTable == Table(LAMBDA b, c : b * c)
XorTable == Table(LAMBDA b, c : (b + c) % 2)
Bitwise16(t, x, y) == t[x % 16, y % 16] + 16 * t[(x \div 16) % 16, (y \div 16) % 16]
    + 256 * t[(x \div 256) % 16, (y \div 256) % 16] + 4096 * t[x \div 4096, y \div 4096]
And(v, w) == <<Bitwise16(AndTable, v[1], w[1]), Bitwise16(AndTable, v[2], w[2])>>
Xor(v, w) == <<Bitwise16(XorTable, v[1], w[1]), Bitwise16(XorTable, v[2], w[2])>>
Or(v, w) == Xor(Xor(v, w), And(v, w))
Plus(v, w) == LET low == v[2] + w[2]
              IN  <<(v[1] + w[1] + (low \div Half)) % Half, low % Half>>
rol(v, bits) == LET x == IF bits < 16 THEN v ELSE <<v[2], v[1]>>
                    p == 2 ^ (bits % 16)
                IN  <<((x[1] * p) % Half) + ((x[2] * p) \div Half),
                      ((x[2] * p) % Half) + ((x[1] * p) \div Half)>>

blk(block, i) == rol(Xor(Xor(block[(i + 13) % 16], block[(i + 8) % 16]),
                         Xor(block[(i + 2) % 16], block[i])), 1)

(* The rounds of transform: which of R0 to R4 number n of the 80 calls, and *)
(* its constant and its function of w, x and y.                             *)
Choose(w, x, y) == Xor(And(w, Xor(x, y)), y)
Parity(w, x, y) == Xor(Xor(w, x), y)
Majority(w, x, y) == Or(And(Or(w, x), y), And(w, x))
Mix(n, w, x, y) == CASE n < 20 -> Plus(Choose(w, x, y), <<23170, 31129>>)
                     [] n \in 20..39 -> Plus(Parity(w, x, y), <<28377, 60321>>)
                     [] n \in 40..59 -> Plus(Majority(w, x, y), <<36635, 48348>>)
                     [] n >= 60 -> Plus(Parity(w, x, y), <<51810, 49622>>)

(* One call: z is changed by the other four, w is rotated, and a block word *)
(* is renewed from the second sixteen on.  The next call is the same with   *)
(* the names moved on by one.                                               *)
Round(n, state) ==
    LET i == n % 16
        block == IF n < 16 THEN state.block ELSE [state.block EXCEPT ![i] = blk(state.block, i)]
        v == state.vars[1]  w == state.vars[2]  x == state.vars[3]
        y == state.vars[4]  z == state.vars[5]
    IN  [block |-> block,
         vars |-> <<Plus(Plus(z, Mix(n, w, x, y)), Plus(block[i], rol(v, 5))), v, rol(w, 30), x, y>>]

transform(digest, block) ==
    LET run[n \in 0..80, state \in [block : [0..15 -> Word], vars : Seq(Word)]] ==
            IF n = 80 THEN state.vars ELSE run[n + 1, Round(n, state)]
        vars == run[0, [block |-> block, vars |-> digest]]
    IN  [i \in 1..5 |-> Plus(digest[i], vars[i])]

make_block(p) == [i \in 0..(BLOCK_INTS - 1) |->
                     <<256 * p[4 * i + 1] + p[4 * i + 2], 256 * p[4 * i + 3] + p[4 * i + 4]>>]

init == [blocks |-> 0, buf |-> <<>>,
         digest |-> << <<26437, 8961>>, <<61389, 43913>>, <<39098, 56574>>,
                       <<4146, 21622>>, <<50130, 57840>> >>]

update(ctx, message) ==
    LET loop[p \in 0..Len(message), c \in [blocks : Nat, buf : Seq(0..255), digest : Seq(Word)]] ==
            LET room == BLOCK_BYTES - Len(c.buf)
                size == Len(message) - p
                n == IF size < room THEN size ELSE room
                full == c.buf \o SubSeq(message, p + 1, p + n)
            IN  IF Len(full) # BLOCK_BYTES THEN [c EXCEPT !.buf = full]
                ELSE loop[p + n, [blocks |-> c.blocks + 1, buf |-> <<>>,
                                  digest |-> transform(c.digest, make_block(full))]]
    IN  loop[0, ctx]

Zeros(n) == [i \in 1..n |-> 0]

(* No room for the eight bytes of the length. *)
Bug_TooLong(buf) == Len(buf) > BLOCK_BYTES - 7
TooLong(buf) == Len(buf) > BLOCK_BYTES - 8

finish(ctx) ==
    LET total_bits == (ctx.blocks * 64 + Len(ctx.buf)) * 8
        buf == Append(ctx.buf, 128)
        block == make_block(buf \o Zeros(BLOCK_BYTES - Len(buf)))
        early == TooLong(buf)
        digest == IF early THEN transform(ctx.digest, block) ELSE ctx.digest
        last == [i \in 0..(BLOCK_INTS - 1) |->
                    CASE i = 15 -> <<total_bits \div Half, total_bits % Half>>
                      [] i = 14 -> <<0, 0>>
                      [] OTHER -> IF early THEN <<0, 0>> ELSE block[i]]
    IN  transform(digest, last)
=============================================================================
