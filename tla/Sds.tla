---------------------------------- MODULE Sds ----------------------------------
(***************************************************************************)
(* The strings of the library (sds.c of the configuration demo): a header  *)
(* with the length and the free space, and a buffer that ends with a NUL   *)
(* the length does not count.  One string is changed by any sequence of    *)
(* calls.  zmalloc ends the process when memory runs out, so the branches  *)
(* that return NULL are not taken.                                         *)
(***************************************************************************)
EXTENDS SdsText

CONSTANTS
  SDS_MAX_PREALLOC,  (* beyond this length the free space is no longer doubled  *)
  STATIC_BUFFER,     (* the size of the first buffer sdscatvprintf formats into *)
  HEADER_SIZE,       (* sizeof(struct sdshdr)                                   *)
  Texts,             (* bound: the strings made with sdsnewlen                  *)
  Args,              (* bound: the texts passed to the other calls              *)
  Numbers,           (* bound: the numbers passed                               *)
  Formats,           (* bound: the formats passed to sdscatfmt, with arguments  *)
                     (* and what they stand for                                 *)
  CallBytes,         (* bound: the bytes of the strings calls are made on       *)
  MaxLen             (* bound: the length of a string                           *)

VARIABLES
  sh,     (* the struct sdshdr: its fields len and free, and its buffer          *)
  call    (* history: the last call, as ByteString describes it                  *)
sdsVars == <<sh, call>>

\* What memory that was never written holds: no byte anyone wrote.
Junk == 256

Content(h) == SubSeq(h.buf, 1, h.len)
CStr(text) == SubSeq(text, 1, SelectInSeq(Append(text, NUL), LAMBDA b : b = NUL) - 1)

\* memcpy and memset at an offset of the buffer; writing past its end is seen, since the
\* buffer is longer then than the header says.
Written(buf, offset, text) ==
  [i \in 1 .. Max({Len(buf), offset + Len(text)}) |->
     IF i - offset \in DOMAIN text THEN text[i - offset] ELSE buf[i]]
Zeros(n) == [i \in 1 .. n |-> NUL]

zrealloc(buf, n) == [i \in 1 .. n |-> IF i \in DOMAIN buf THEN buf[i] ELSE Junk]

\* The string ends after n bytes of its buffer.
Ended(h, n) == [len |-> n, free |-> h.free + (h.len - n), buf |-> Written(h.buf, n, <<NUL>>)]

-------------------------------------------------------------------------------
\* sdsnewlen with a text (sdsnew, sdsempty, sdsdup and sdsfromlonglong go through it).
sdsnewlen(init) == [len |-> Len(init), free |-> 0, buf |-> Append(init, NUL)]
sdsfree == [len |-> 0, free |-> 0, buf |-> <<>>]
sdsAllocSize(h) == HEADER_SIZE + h.len + h.free + 1

sdsupdatelen(h) == LET reallen == Len(CStr(h.buf)) IN
  [h EXCEPT !.free = @ + (h.len - reallen), !.len = reallen]

sdsclear(h) == [len |-> 0, free |-> h.free + h.len, buf |-> Written(h.buf, 0, <<NUL>>)]

\* Mutant: the free space is what was asked for, the rest of the new buffer is forgotten.
sdsMakeRoomForAddlen(h, addlen) ==
  IF h.free >= addlen THEN h
  ELSE LET needed == h.len + addlen
           newlen == IF needed < SDS_MAX_PREALLOC THEN needed * 2 ELSE needed + SDS_MAX_PREALLOC
       IN [h EXCEPT !.free = addlen, !.buf = zrealloc(h.buf, newlen + 1)]
sdsMakeRoomFor(h, addlen) ==
  IF h.free >= addlen THEN h
  ELSE LET needed == h.len + addlen
           newlen == IF needed < SDS_MAX_PREALLOC THEN needed * 2 ELSE needed + SDS_MAX_PREALLOC
       IN [h EXCEPT !.free = newlen - h.len, !.buf = zrealloc(h.buf, newlen + 1)]

sdsRemoveFreeSpace(h) == [h EXCEPT !.free = 0, !.buf = zrealloc(h.buf, h.len + 1)]

sdsIncrLen(h, incr) ==
  [len |-> h.len + incr, free |-> h.free - incr, buf |-> Written(h.buf, h.len + incr, <<NUL>>)]

sdsgrowzero(h, len) ==
  IF len <= h.len THEN h
  ELSE LET r == sdsMakeRoomFor(h, len - h.len) IN
       [len |-> len, free |-> (r.len + r.free) - len,
        buf |-> Written(r.buf, h.len, Zeros(len - h.len + 1))]

\* sdscatlen; sdscat passes it a C string, sdscatsds a string.
sdscatlen(h, t) ==
  LET r == sdsMakeRoomFor(h, Len(t)) IN
  [len |-> h.len + Len(t), free |-> r.free - Len(t),
   buf |-> Written(Written(r.buf, h.len, t), h.len + Len(t), <<NUL>>)]
sdscat(h, t) == sdscatlen(h, CStr(t))

sdscpylen(h, t) ==
  LET r == IF h.free + h.len < Len(t) THEN sdsMakeRoomFor(h, Len(t) - h.len) ELSE h IN
  [len |-> Len(t), free |-> (r.free + r.len) - Len(t),
   buf |-> Written(Written(r.buf, 0, t), Len(t), <<NUL>>)]

\* sdscatvprintf: vsnprintf writes what fits of out, which a format of fmtlen bytes makes,
\* into a buffer; while the last byte but one of the buffer is used, into one twice as
\* large.  The text so far is a C string.
vsnprintf(out, n) == SubSeq(out, 1, Min({Len(out), n - 1})) \o <<NUL>>
Formatted(out, buflen) ==
  LET formatted[n \in Nat \ {0, 1}] ==
        LET buf == vsnprintf(out, n) IN
        IF At(buf, n - 2) # NUL THEN formatted[2 * n] ELSE CStr(buf)
  IN formatted[buflen]
sdscatprintf(h, fmtlen, out) == sdscat(h, Formatted(out, Max({2 * fmtlen, STATIC_BUFFER})))

\* The places of a format where the letter of a directive is: behind a %, unless that is
\* such a letter itself.
Letters(f) ==
  LET is[p \in 0 .. Len(f)] == p > 1 /\ f[p - 1] = PERCENT /\ ~is[p - 1]
  IN {p \in DOMAIN f : is[p]}

\* What stands for each byte of a format; args has the argument of a directive at the place
\* of its letter.  %i and %I, %u and %U differ in width only.
Piece(f, args, p) ==
  CASE p \notin Letters(f) /\ f[p] = PERCENT -> <<>>
    [] p \in Letters(f) /\ f[p] = Letter("s") -> CStr(args[p])
    [] p \in Letters(f) /\ f[p] = 83 -> args[p]
    [] p \in Letters(f) /\ f[p] \in {105, 73, 117, 85} -> sdsll2str(args[p])
    [] OTHER -> <<f[p]>>

\* sdscatfmt appends piece after piece: room for one byte before it looks at the format (that
\* it does so once for a directive, at its %, comes to the same), then for the piece.  There
\* is no terminator before the end.
Appended(h, piece) ==
  LET r == sdsMakeRoomFor(sdsMakeRoomFor(h, 1), Len(piece)) IN
  [len |-> r.len + Len(piece), free |-> r.free - Len(piece), buf |-> Written(r.buf, r.len, piece)]
sdscatfmt(h, f, args) ==
  LET upto[p \in 0 .. Len(f)] == IF p = 0 THEN h ELSE Appended(upto[p - 1], Piece(f, args, p))
      r == upto[Len(f)]
  IN [r EXCEPT !.buf = Written(@, r.len, <<NUL>>)]

\* strchr(cset, c) finds a NUL too: the terminator of cset.  sp and ep are offsets.
sdstrim(h, cset) ==
  LET in(i) == At(h.buf, i) \in ToSet(CStr(cset)) \union {NUL}
      sp == Min({i \in 0 .. h.len : i = h.len \/ ~in(i)})
      ep == IF h.len = 0 THEN -1 ELSE Max({i \in 0 .. h.len - 1 : i = 0 \/ ~in(i)})
      len == IF sp > ep THEN 0 ELSE ep - sp + 1
      moved == IF sp # 0 THEN Written(h.buf, 0, SubSeq(h.buf, sp + 1, sp + len)) ELSE h.buf
  IN Ended([h EXCEPT !.buf = moved], len)

\* Mutant: an end behind the last byte is not brought back.
sdsrangeUncut(h, first, last) ==
  LET FromStart(i) == IF i < 0 THEN Max({0, h.len + i}) ELSE i
      start == FromStart(first)
      end == FromStart(last)
      newlen == IF start > end \/ start >= h.len THEN 0 ELSE end - start + 1
      moved == IF start # 0 /\ newlen # 0
               THEN Written(h.buf, 0, SubSeq(h.buf, start + 1, start + newlen)) ELSE h.buf
  IN IF h.len = 0 THEN h ELSE Ended([h EXCEPT !.buf = moved], newlen)
sdsrange(h, first, last) ==
  LET FromStart(i) == IF i < 0 THEN Max({0, h.len + i}) ELSE i
      start == FromStart(first)
      end == FromStart(last)
      newlen == IF start > end \/ start >= h.len THEN 0
                ELSE IF end >= h.len THEN h.len - start ELSE end - start + 1
      moved == IF start # 0 /\ newlen # 0
               THEN Written(h.buf, 0, SubSeq(h.buf, start + 1, start + newlen)) ELSE h.buf
  IN IF h.len = 0 THEN h ELSE Ended([h EXCEPT !.buf = moved], newlen)

\* f applied to every byte of the string.
Mapped(h, f) == [h EXCEPT !.buf = [i \in DOMAIN @ |-> IF i <= h.len THEN f[@[i]] ELSE @[i]]]
sdstolower(h) == Mapped(h, [b \in 0 .. 255 |-> IF b \in 65 .. 90 THEN b + 32 ELSE b])
sdstoupper(h) == Mapped(h, [b \in 0 .. 255 |-> IF b \in 97 .. 122 THEN b - 32 ELSE b])
\* from is searched from its start, so the first of two equal bytes counts.
sdsmapchars(h, from, to) ==
  Mapped(h, [b \in 0 .. 255 |->
    IF b \in ToSet(from) THEN to[SelectInSeq(from, LAMBDA c : c = b)] ELSE b])

-------------------------------------------------------------------------------
\* What callers pass.  A format does not end in the middle of a directive.
Byte == 0 .. 255
IsFormat(f, args) ==
  /\ f \in Seq(Byte)
  /\ \A p \in Letters(f) :
       /\ f[p] \in {Letter("s"), 83} => args[p] \in Seq(Byte)
       /\ f[p] \in {105, 73} => args[p] \in Int
       /\ f[p] \in {117, 85} => args[p] \in Nat
  /\ Len(f) \in Letters(f) \/ f = <<>> \/ f[Len(f)] # PERCENT
ASSUME SdsAssumption ==
  /\ SDS_MAX_PREALLOC \in Nat \ {0} /\ STATIC_BUFFER \in Nat \ {0, 1} /\ HEADER_SIZE \in Nat
  /\ Texts \subseteq Seq(Byte) /\ Args \subseteq Seq(Byte) /\ Numbers \subseteq Int
  /\ \A f \in Formats :
       /\ IsFormat(f[1], f[2])
       /\ f[3] = FlattenSeq([p \in DOMAIN f[1] |-> Piece(f[1], f[2], p)])

\* A call that describes itself as <<name, text, i, j>> makes the string h.
Makes(name, text, i, j, h) ==
  /\ h.len <= MaxLen
  /\ sh' = h
  /\ call' = <<name, text, i, j>>

InUse == sh.buf # <<>> /\ ToSet(Content(sh)) \subseteq CallBytes

SdsInit == \E t \in Texts : sh = sdsnewlen(t) /\ call = <<"new", t, 0, 0>>

Free == sh.buf # <<>> /\ Makes("clear", <<>>, 0, 0, sdsfree)
New ==
  /\ sh.buf = <<>>
  /\ \/ \E t \in Args : Makes("new", t, 0, 0, sdsnewlen(t))
     \/ \E n \in Numbers : n >= 0 /\ Makes("new", Zeros(n), 0, 0, sdsnewlen(Zeros(n)))
     \/ \E n \in Numbers : Makes("catnumber", <<>>, n, 0, sdsnewlen(sdsll2str(n)))
Duplicate == InUse /\ Makes("same", <<>>, 0, 0, sdsnewlen(Content(sh)))
\* The program cuts the string by hand and has the length set right.
UpdateLen ==
  /\ InUse
  /\ \E i \in DOMAIN Content(sh) :
       Makes("cut", <<>>, i, 0, sdsupdatelen([sh EXCEPT !.buf = Written(@, i - 1, <<NUL>>)]))
Clear == InUse /\ Makes("clear", <<>>, 0, 0, sdsclear(sh))
MakeRoomFor == InUse /\ \E n \in Numbers : n > 0 /\ Makes("same", <<>>, 0, 0, sdsMakeRoomFor(sh, n))
RemoveFreeSpace == InUse /\ Makes("same", <<>>, 0, 0, sdsRemoveFreeSpace(sh))
\* The program makes room, writes behind the string and has the length increased.
WriteInPlace ==
  /\ InUse
  /\ \E t \in Args : LET r == sdsMakeRoomFor(sh, Len(t)) IN
       Makes("cat", t, 0, 0, sdsIncrLen([r EXCEPT !.buf = Written(@, r.len, t)], Len(t)))
CutRight == InUse /\ \E n \in Numbers : n \in 1 .. sh.len /\ Makes("shorten", <<>>, n, 0, sdsIncrLen(sh, -n))
GrowZero == InUse /\ \E n \in Numbers : Makes("growzero", <<>>, n, 0, sdsgrowzero(sh, n))
CatLen == InUse /\ \E t \in Args : Makes("cat", t, 0, 0, sdscatlen(sh, t))
Cat == InUse /\ \E t \in Args : Makes("catstring", t, 0, 0, sdscat(sh, t))
CpyLen == InUse /\ \E t \in Args : Makes("copy", t, 0, 0, sdscpylen(sh, t))
CatPrintf == InUse /\ \E t \in Args : Makes("catstring", t, 0, 0, sdscatprintf(sh, 2, t))
CatFmt ==
  InUse /\ \E f \in Formats : Makes("cat", f[3], 0, 0, sdscatfmt(sh, f[1], f[2]))
Trim == InUse /\ \E t \in Args : Makes("trim", CStr(t), 0, 0, sdstrim(sh, t))
Range_ == InUse /\ \E i, j \in Numbers : Makes("range", <<>>, i, j, sdsrange(sh, i, j))
ToLower == InUse /\ Makes("lower", <<>>, 0, 0, sdstolower(sh))
ToUpper == InUse /\ Makes("upper", <<>>, 0, 0, sdstoupper(sh))
MapChars ==
  InUse /\ \E t \in Args : Len(t) = 2 /\ Makes("map", <<>>, t[1], t[2], sdsmapchars(sh, <<t[1], t[1]>>, <<t[2], 0>>))

SdsNext ==
  \/ Free \/ New \/ Duplicate \/ UpdateLen \/ Clear \/ MakeRoomFor \/ RemoveFreeSpace
  \/ WriteInPlace \/ CutRight \/ GrowZero \/ CatLen \/ Cat \/ CpyLen \/ CatPrintf \/ CatFmt
  \/ Trim \/ Range_ \/ ToLower \/ ToUpper \/ MapChars
SdsSpec == SdsInit /\ [][SdsNext]_sdsVars

-------------------------------------------------------------------------------
(* Properties. *)

\* Whatever the calls before, the header says what was allocated, the string ends with
\* a NUL behind its last byte, and no byte of it was never written.
SdsInv == sh.buf # <<>> =>
  /\ sh.len \in Nat /\ sh.free \in Nat
  /\ HEADER_SIZE + Len(sh.buf) = sdsAllocSize(sh)
  /\ sh.buf[sh.len + 1] = NUL
  /\ Junk \notin ToSet(Content(sh))

\* The calls do to the bytes what their callers expect, for any sequence of calls and
\* whatever the free space was.
Bytes == INSTANCE ByteString WITH bytes <- Content(sh), call <- call
ImplementsBytes == Bytes!StringSpec
==============================================================================
