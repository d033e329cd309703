------------------------------- MODULE Alu8080 -------------------------------
(***************************************************************************)
(* The arithmetic and logic helpers of adc_8080_cpu.c (op_inr to op_daa):  *)
(* each is the machine after the call.  set_cf_zsp is SetZSP.              *)
(***************************************************************************)
EXTENDS Machine8080

\* The flags z, s and p after a result; f gives the others.
ZSP(f, v) == [f EXCEPT !["s"] = v >= 128, !["z"] = v = 0, !["p"] = Parity(v)]

\* A new accumulator, with its z, s and p and the given aux and carry.
Result(m, v, aux, carry) ==
  [m EXCEPT !.reg["a"] = v,
            !.cf = ZSP([m.cf EXCEPT !["a"] = aux, !["c"] = carry], v)]

\* op_inr and op_dcr of a value, and the flags they leave (carry is kept).
inr(v) == Wrap8(v + 1)
dcr(v) == Wrap8(v - 1)

\* slip: a carry out of the byte.
inr_flagsCarry(m, v) ==
  [m EXCEPT !.cf = ZSP([m.cf EXCEPT !["a"] = inr(v) % 16 = 0, !["c"] = inr(v) = 0],
                       inr(v))]
inr_flags(m, v) ==
  [m EXCEPT !.cf = ZSP([m.cf EXCEPT !["a"] = inr(v) % 16 = 0], inr(v))]

dcr_flags(m, v) ==
  [m EXCEPT !.cf = ZSP([m.cf EXCEPT !["a"] = dcr(v) % 16 # 15], dcr(v))]

\* Bit 4 of sres ^ ra ^ val is the carry out of the low nibble.
op_add(m, v, c) ==
  LET a == m.reg["a"]
      sres == a + v + FlagBit(c)
  IN Result(m, Wrap8(sres), (Bit(sres, 16) + Bit(a, 16) + Bit(v, 16)) % 2 = 1,
            sres > 255)

\* Subtraction adds the complement; the carry out is the borrow inverted.
\* slip: the carry of the addition as it is.
op_subNoBorrow(m, v, c) == op_add(m, 255 - v, ~c)
op_sub(m, v, c) ==
  LET r == op_add(m, 255 - v, ~c) IN [r EXCEPT !.cf["c"] = ~r.cf["c"]]

\* The byte whose bits are f of the bits of x and y.
BitByBit(f(_, _), x, y) ==
  f(Bit(x, 1), Bit(y, 1)) + 2 * f(Bit(x, 2), Bit(y, 2))
    + 4 * f(Bit(x, 4), Bit(y, 4)) + 8 * f(Bit(x, 8), Bit(y, 8))
    + 16 * f(Bit(x, 16), Bit(y, 16)) + 32 * f(Bit(x, 32), Bit(y, 32))
    + 64 * f(Bit(x, 64), Bit(y, 64)) + 128 * f(Bit(x, 128), Bit(y, 128))

BitAnd(b, c) == b * c
BitOr(b, c) == b + c - b * c
BitXor(b, c) == (b + c) % 2

And8(x, y) == BitByBit(BitAnd, x, y)
Or8(x, y) == BitByBit(BitOr, x, y)
\* slip: the inclusive or.
Xor8Inclusive(x, y) == BitByBit(BitOr, x, y)
Xor8(x, y) == BitByBit(BitXor, x, y)

op_ana(m, v) ==
  LET a == m.reg["a"]
  IN Result(m, And8(a, v), Bit(a, 8) = 1 \/ Bit(v, 8) = 1, FALSE)
op_xra(m, v) == Result(m, Xor8(m.reg["a"], v), FALSE, FALSE)
op_ora(m, v) == Result(m, Or8(m.reg["a"], v), FALSE, FALSE)

\* res is a 16 bit difference; its bits 0 to 7 and 4 are those of res % 256.
op_cmp(m, v) ==
  LET a == m.reg["a"]
      res == a - v
      aux == (Bit(a, 16) + Bit(Wrap8(res), 16) + Bit(v, 16)) % 2 = 0
  IN [m EXCEPT !.cf = ZSP([m.cf EXCEPT !["a"] = aux, !["c"] = res < 0],
                          Wrap8(res))]

op_dad(m, w) ==
  SetHL([m EXCEPT !.cf["c"] = HL(m) + w > 65535], Wrap16(HL(m) + w))

-----------------------------------------------------------------------------
(* Rotates: a new accumulator and carry, the other flags kept.              *)

Rotated(m, v, carry) == [m EXCEPT !.reg["a"] = v, !.cf["c"] = carry]

ShiftLeft(v, in) == 2 * (v % 128) + in
ShiftRight(v, in) == v \div 2 + 128 * in

op_rlc(m) ==
  LET a == m.reg["a"]
  IN Rotated(m, ShiftLeft(a, Bit(a, 128)), Bit(a, 128) = 1)
op_rrc(m) ==
  LET a == m.reg["a"] IN Rotated(m, ShiftRight(a, Bit(a, 1)), Bit(a, 1) = 1)

op_ral(m) ==
  LET a == m.reg["a"]
  IN Rotated(m, ShiftLeft(a, FlagBit(m.cf["c"])), Bit(a, 128) = 1)
op_rar(m) ==
  LET a == m.reg["a"]
  IN Rotated(m, ShiftRight(a, FlagBit(m.cf["c"])), Bit(a, 1) = 1)

-----------------------------------------------------------------------------
(* The program status word and the decimal adjustment.                      *)

\* The flag byte op_push_psw builds: bit 1 is always set, 3 and 5 never.

\* slip: aux carry in bit 3.
PswMisplacedAux(f) ==
  128 * FlagBit(f["s"]) + 64 * FlagBit(f["z"]) + 8 * FlagBit(f["a"])
    + 4 * FlagBit(f["p"]) + 2 + FlagBit(f["c"])
\* slip: zero in bit 5.
PswMisplacedZero(f) ==
  128 * FlagBit(f["s"]) + 32 * FlagBit(f["z"]) + 16 * FlagBit(f["a"])
    + 4 * FlagBit(f["p"]) + 2 + FlagBit(f["c"])
Psw(f) == 128 * FlagBit(f["s"]) + 64 * FlagBit(f["z"]) + 16 * FlagBit(f["a"])
            + 4 * FlagBit(f["p"]) + 2 + FlagBit(f["c"])

op_push_psw(m) == StackPush(m, WordFromBytes(m.reg["a"], Psw(m.cf)))

op_pop_psw(m) ==
  LET w == StackTop(m)
      psw == Low(w)
      f == [s |-> 128, z |-> 64, a |-> 16, p |-> 4, c |-> 1]
  IN [StackDrop(m) EXCEPT !.reg["a"] = High(w),
                          !.cf = [x \in Flag |-> Bit(psw, f[x]) = 1]]

Lownib(m) == m.reg["a"] % 16
Highnib(m) == m.reg["a"] \div 16

daa_low(m) == Lownib(m) > 9 \/ m.cf["a"]

\* slip: the carry the low nibble is about to give is forgotten.
daa_highAlone(m) == Highnib(m) > 9 \/ m.cf["c"]
daa_high(m) ==
  Highnib(m) > 9 \/ m.cf["c"] \/ (Highnib(m) >= 9 /\ Lownib(m) > 9)

op_daa(m) ==
  LET addition == (IF daa_low(m) THEN 6 ELSE 0) + (IF daa_high(m) THEN 96 ELSE 0)
      r == op_add(m, addition, FALSE)
  IN [r EXCEPT !.cf["c"] = m.cf["c"] \/ daa_high(m)]
=============================================================================
