------------------------------- MODULE Borsh -------------------------------
(***************************************************************************)
(* The SDK's codec (sdk/src/borsh.ts).  A buffer is the sequence of what   *)
(* was put into it, each with its width; a read at the wrong place or of   *)
(* another width gives garbage.  Narrow writers mask silently, the 64-bit  *)
(* writer throws.                                                          *)
(***************************************************************************)
EXTENDS Economy, Sequences

\* Numbers of a byte, of two bytes.
U8Size  == 256
U16Size == 65536

Cell(width, value) == <<[width |-> width, value |-> value]>>

\* Clamped.
MutU8(v) == Cell("u8", IF v < U8Size THEN v ELSE U8Size - 1)

U8(v)     == Cell("u8", v % U8Size)
U16(v)    == Cell("u16", v % U16Size)
Bool(b)   == U8(IF b THEN 1 ELSE 0)
Pubkey(k) == Cell("key", k)
I64(v)    == Cell("i64", v)

\* The caller sees an exception unless the number fits.
FitsU64(v) == v \in 0 .. MaxU64
U64(v)     == Cell("u64", v)

\* The discriminator goes in front of what was written so far.
Disc(name, parts) == Cell("disc", name) \o parts

\* No value that is ever written.
Garbage == -1

Read(buf, at, width) ==
    IF at \in DOMAIN buf /\ buf[at].width = width THEN buf[at].value ELSE Garbage

ReadBool(buf, at) == Read(buf, at, "u8") = 1
=============================================================================
