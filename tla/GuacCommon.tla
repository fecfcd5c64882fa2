----------------------------- MODULE GuacCommon -----------------------------
(***************************************************************************)
(* The helpers of libguac and libguac-common that the parts of guacd       *)
(* compute with: rectangles, sizes of allocations, strings in buffers of   *)
(* fixed size, characters as bytes and conversion of text.  They keep no   *)
(* state.                                                                  *)
(***************************************************************************)
EXTENDS Integers, SequencesExt

-----------------------------------------------------------------------------
(* Rectangles of libguac (rect.c): [left, right) x [top, bottom).          *)
(* Only guac_rect_shrink() is given coordinates near the limits of an int.  *)


guac_rect_init(x, y, width, height) ==
  [left   |-> x,
   top    |-> y,
   right  |-> IF width > 0 THEN x + width ELSE x,
   bottom |-> IF height > 0 THEN y + height ELSE y]

\* (guac_rect) { 0 }
NoRect == guac_rect_init(0, 0, 0, 0)

guac_rect_is_empty(r) == r.right <= r.left \/ r.bottom <= r.top

Lesser(a, b)  == IF a < b THEN a ELSE b
LOCAL Greater(a, b) == IF a > b THEN a ELSE b

guac_rect_width(r)  == Greater(r.right - r.left, 0)
guac_rect_height(r) == Greater(r.bottom - r.top, 0)

\* Only the rectangle extended is tested for being empty: an empty "min" still
\* contributes its corner.
guac_rect_extend(r, min) ==
  IF guac_rect_is_empty(r)
  THEN min
  ELSE [left   |-> Lesser(r.left, min.left),
        top    |-> Lesser(r.top, min.top),
        right  |-> Greater(r.right, min.right),
        bottom |-> Greater(r.bottom, min.bottom)]

guac_rect_constrain(r, max) ==
  [left   |-> Greater(r.left, max.left),
   top    |-> Greater(r.top, max.top),
   right  |-> Lesser(r.right, max.right),
   bottom |-> Lesser(r.bottom, max.bottom)]

\* The code takes the number of bits of "factor", a power of two.
guac_rect_align(r, factor) ==
  LET down(v) == (v \div factor) * factor
      up(v)   == down(v + factor - 1)
  IN  [left |-> down(r.left), top |-> down(r.top),
       right |-> up(r.right), bottom |-> up(r.bottom)]

\* The pixels a rectangle covers.
PixelsOf(r) == (r.left .. r.right - 1) \X (r.top .. r.bottom - 1)

\* The product of two ints as the processor computes it: what is beyond the 32nd
\* bit is lost, and that bit is the sign.  (In parts of 18 and 14 bits, so that
\* what is computed on the way is small.)
LowPart  == 262144
HighPart == 16384
SignPart == 8192
Times32(a, b) ==
  LET low  == a * (b % LowPart)
      high == (a * (b \div LowPart) + (low \div LowPart)) % HighPart
  IN  (IF high < SignPart THEN high ELSE high - HighPart) * LowPart + (low % LowPart)

\* Both sides shrink by the same factor, the one that fits both; what is smaller
\* than the maximum does not grow.  Products may overflow.  (A negative quotient
\* is not rounded to zero as it is in C; a rectangle made of it is empty anyway.)
guac_rect_shrink(r, max_width, max_height) ==
  LET width  == guac_rect_width(r)
      height == guac_rect_height(r)
      w == Lesser(width, max_width)
      h == Lesser(height, max_height)
      scale == IF Times32(w, height) < Times32(h, width)
               THEN <<w, width>> ELSE <<h, height>>
  IN  [r EXCEPT !.right  = r.left + (Times32(scale[1], width) \div scale[2]),
                !.bottom = r.top + (Times32(scale[1], height) \div scale[2])]

-----------------------------------------------------------------------------
(* Rectangles of libguac-common (common/rect.c): corner and size.          *)

guac_common_rect_init(x, y, width, height) ==
  [x |-> x, y |-> y, width |-> width, height |-> height]

\* Most of the operations work on the sides.
LOCAL Sided(r) == [left |-> r.x, top |-> r.y,
                   right |-> r.x + r.width, bottom |-> r.y + r.height]
LOCAL FromSides(s) == guac_common_rect_init(s.left, s.top, s.right - s.left,
                                            s.bottom - s.top)

guac_common_rect_extend(rect, min) ==
  LET r == Sided(rect)
      m == Sided(min)
  IN  FromSides([left   |-> Lesser(r.left, m.left),
                 top    |-> Lesser(r.top, m.top),
                 right  |-> Greater(r.right, m.right),
                 bottom |-> Greater(r.bottom, m.bottom)])

\* Nothing is left with a negative size where the two do not meet.
guac_common_rect_constrain(rect, max) ==
  LET r == Sided(rect)
      m == Sided(max)
  IN  FromSides([left   |-> Greater(r.left, m.left),
                 top    |-> Greater(r.top, m.top),
                 right  |-> Lesser(r.right, m.right),
                 bottom |-> Lesser(r.bottom, m.bottom)])

\* One dimension: the side from "at" of this length grows by what its length
\* lacks, half of it before, and is moved, then cut, to lie within the limits.
GrownSide(cell, at, length, low, high) ==
  LET d == cell - (length % cell)
      a == at - (d \div 2)
      b == a + length + d
  IN  IF b > high THEN <<Greater(a - (b - high), low), high>>
      ELSE IF a < low THEN <<low, Lesser(b + (low - a), high)>>
      ELSE <<a, b>>

guac_common_rect_expand_to_grid(cell_size, rect, max_rect) ==
  IF cell_size <= 1 THEN rect
  ELSE LET m == Sided(max_rect)
           h == GrownSide(cell_size, rect.x, rect.width, m.left, m.right)
           v == GrownSide(cell_size, rect.y, rect.height, m.top, m.bottom)
       IN  FromSides([left |-> h[1], top |-> v[1], right |-> h[2], bottom |-> v[2]])

\* 0: apart; 1: in part, or only touching; 2: inside the other.
guac_common_rect_intersects(rect, other) ==
  LET r == Sided(rect)
      o == Sided(other)
  IN  IF o.right < r.left \/ r.right < o.left \/ o.bottom < r.top \/ r.bottom < o.top
      THEN 0
      ELSE IF o.left <= r.left /\ o.right >= r.right /\ o.top <= r.top /\ o.bottom >= r.bottom
      THEN 2
      ELSE 1

\* What sticks out at the first side that does is split off; <<rect>> when
\* nothing does, otherwise <<what is left, what was split off>>.
guac_common_rect_clip_and_split(rect, hole) ==
  LET r == Sided(rect)
      h == Sided(hole)
      Split(kept, off) == <<FromSides(kept), FromSides(off)>>
  IN  IF guac_common_rect_intersects(rect, hole) = 0 THEN <<rect>>
      ELSE IF r.top < h.top
      THEN Split([r EXCEPT !.top = h.top], [r EXCEPT !.bottom = h.top])
      ELSE IF r.left < h.left
      THEN Split([r EXCEPT !.left = h.left], [r EXCEPT !.right = h.left])
      ELSE IF r.bottom > h.bottom
      THEN Split([r EXCEPT !.bottom = h.bottom], [r EXCEPT !.top = h.bottom])
      ELSE IF r.right > h.right
      THEN Split([r EXCEPT !.right = h.right], [r EXCEPT !.left = h.right])
      ELSE <<rect>>

-----------------------------------------------------------------------------
(* Sizes of allocations (mem.c).  "max" is SIZE_MAX.                       *)

Sum0(size) == [ok |-> TRUE, size |-> size]
Overflowed == [ok |-> FALSE, size |-> 0]

\* Nothing is multiplied after a zero.
TimesChecked(max, acc, factor) ==
  CASE ~acc.ok \/ acc.size = 0      -> acc
    [] factor > max \div acc.size   -> Overflowed
    [] OTHER                        -> Sum0(acc.size * factor)

PlusChecked(max, acc, term) ==
  CASE ~acc.ok                -> acc
    [] term > max - acc.size  -> Overflowed
    [] OTHER                  -> Sum0(acc.size + term)

MinusChecked(acc, term) ==
  CASE ~acc.ok          -> acc
    [] term > acc.size  -> Overflowed
    [] OTHER            -> Sum0(acc.size - term)

PRIV_guac_mem_ckd_mul(max, factors) ==
  IF factors = <<>> THEN Overflowed
  ELSE FoldLeft(LAMBDA acc, f : TimesChecked(max, acc, f), Sum0(Head(factors)), Tail(factors))

PRIV_guac_mem_ckd_add(max, terms) ==
  IF terms = <<>> THEN Overflowed
  ELSE FoldLeft(LAMBDA acc, t : PlusChecked(max, acc, t), Sum0(Head(terms)), Tail(terms))

PRIV_guac_mem_ckd_sub(terms) ==
  IF terms = <<>> THEN Overflowed
  ELSE FoldLeft(MinusChecked, Sum0(Head(terms)), Tail(terms))

\* What malloc() or calloc() of that many bytes gives, if anything.  No memory is
\* asked for when the size is zero, and then there is no error.
PRIV_guac_mem_alloc(max, factors, available) ==
  LET product == PRIV_guac_mem_ckd_mul(max, factors)
  IN  CASE ~product.ok             -> [mem |-> 0, error |-> "NO_MEMORY"]
        [] product.size = 0        -> [mem |-> 0, error |-> "SUCCESS"]
        [] product.size <= available -> [mem |-> product.size, error |-> "SUCCESS"]
        [] OTHER                   -> [mem |-> 0, error |-> "NO_MEMORY"]

\* The old block is given up when the new one is made or its size is zero.
PRIV_guac_mem_realloc(max, old, factors, available) ==
  LET new == PRIV_guac_mem_alloc(max, factors, available)
  IN  [mem |-> new.mem, error |-> new.error,
       old |-> IF new.error = "SUCCESS" THEN 0 ELSE old]

PRIV_guac_mem_realloc_or_die_aborts(new) == new.mem = 0 /\ new.error /= "SUCCESS"

-----------------------------------------------------------------------------
(* Strings (string.c): a buffer is a sequence of bytes; what is after the  *)
(* terminator 0 does not belong to its string.  "at" is where a pointer    *)
(* into the buffer points to.                                              *)

REMAINING(n, length) == IF n < length THEN 0 ELSE n - length

strnlen(buffer, at, n) ==
  LET ends == {i \in 0 .. n - 1 : buffer[at + i + 1] = 0}
  IN  IF ends = {} THEN n ELSE CHOOSE i \in ends : \A j \in ends : i <= j

\* As many bytes as there is room for, and the terminator; what it returns is
\* how many there are in all.
guac_strlcpy(buffer, at, src, n) ==
  LET copied == Lesser(Len(src), n - 1)
  IN  IF n = 0 THEN buffer
      ELSE [i \in 1 .. Greater(Len(buffer), at + copied + 1) |->
              IF i \in at + 1 .. at + copied THEN src[i - at]
              ELSE IF i = at + copied + 1 THEN 0
              ELSE buffer[i]]

\* <<the buffer, the length the string would have>>
guac_strlcat(buffer, at, src, n) ==
  LET length == strnlen(buffer, at, n)
  IN  <<guac_strlcpy(buffer, at + length, src, REMAINING(n, length)), length + Len(src)>>

JoinOne(n, acc, src) ==
  LET cat == guac_strlcat(acc[1], acc[2], src, REMAINING(n, acc[2]))
  IN  <<cat[1], acc[2] + cat[2]>>

guac_strljoin(buffer, elements, delim, n) ==
  IF elements = <<>> THEN <<guac_strlcpy(buffer, 0, <<>>, n), 0>>
  ELSE FoldLeft(LAMBDA acc, e : JoinOne(n, JoinOne(n, acc, delim), e),
                <<guac_strlcpy(buffer, 0, Head(elements), n), Len(Head(elements))>>,
                Tail(elements))

\* Where the needle is first found, or -1; the search ends at the first of its
\* first bytes that is too near to the end.
guac_strnstr(haystack, needle, len) ==
  LET nlen  == Len(needle)
      fits(o) == o + nlen <= len
      stops == {o \in 0 .. len - 1 :
                  /\ haystack[o + 1] = needle[1]
                  /\ fits(o) => SubSeq(haystack, o + 1, o + nlen) = needle}
      first == CHOOSE o \in stops : \A p \in stops : o <= p
  IN  IF nlen = 0 THEN 0 ELSE IF stops = {} \/ ~fits(first) THEN -1 ELSE first

\* At most n bytes, and the terminator.
guac_strndup(max, buffer, n) ==
  LET length == strnlen(buffer, 0, n)
  IN  IF PRIV_guac_mem_ckd_add(max, <<length, 1>>).ok
      THEN SubSeq(buffer, 1, length) \o <<0>>
      ELSE <<>>

-----------------------------------------------------------------------------
(* Characters as bytes (unicode.c).                                        *)

guac_utf8_charsize(c) ==
  CASE c < 128            -> 1
    [] c \in 192 .. 223   -> 2
    [] c \in 224 .. 239   -> 3
    [] c \in 240 .. 247   -> 4
    [] OTHER              -> 1

\* Characters begin at the first byte and after all bytes of the one before,
\* whatever these are.
guac_utf8_strlen(str) ==
  FoldLeft(LAMBDA acc, c : IF acc.skip > 0 THEN [acc EXCEPT !.skip = @ - 1]
                           ELSE [length |-> acc.length + 1,
                                 skip |-> guac_utf8_charsize(c) - 1],
           [length |-> 0, skip |-> 0], str).length

\* The bytes written where there is room for "length".
guac_utf8_write(codepoint, length) ==
  LET trail(k) == 128 + ((codepoint \div 64 ^ k) % 64)
      bytes == CASE codepoint <= 127     -> <<codepoint>>
                 [] codepoint <= 2047    -> <<192 + (codepoint \div 64), trail(0)>>
                 [] codepoint <= 65535   -> <<224 + (codepoint \div 4096), trail(1), trail(0)>>
                 [] codepoint <= 2097151 -> <<240 + (codepoint \div 262144),
                                              trail(2), trail(1), trail(0)>>
                 [] OTHER                -> <<63>>
  IN  IF Len(bytes) > length THEN <<>> ELSE bytes

\* How many bytes were read, and the character; none where its bytes are not all
\* there, and then the caller's variable is left as it was.
guac_utf8_read(utf8) ==
  LET initial == utf8[1]
      bytes == guac_utf8_charsize(initial)
      high == CASE initial < 128 -> initial
                [] bytes = 2 -> initial % 32
                [] bytes = 3 -> initial % 16
                [] OTHER -> initial % 8
  IN  IF utf8 = <<>> THEN [bytes |-> 0, codepoint |-> 0]
      ELSE IF initial \in 128 .. 191 \/ initial > 247
      THEN [bytes |-> 1, codepoint |-> 65533]
      ELSE IF bytes > Len(utf8) THEN [bytes |-> 0, codepoint |-> 0]
      ELSE [bytes |-> bytes,
            codepoint |-> FoldLeft(LAMBDA v, b : v * 64 + (b % 64), high,
                                   SubSeq(utf8, 2, bytes))]

-----------------------------------------------------------------------------
(* Conversion of text (common/iconv.c).                                    *)

\* __GUAC_RDP_CP1252_CODEPOINT: what 0x80 to 0x9F stand for.
CP1252 ==
  <<8364, 65533, 8218, 402, 8222, 8230, 8224, 8225, 710, 8240, 352, 8249, 338,
    65533, 381, 65533, 65533, 8216, 8217, 8220, 8221, 8226, 8211, 8212, 732,
    8482, 353, 8250, 339, 65533, 382, 376>>

Encodings == {"UTF8", "UTF16", "CP1252", "ISO8859_1"}

\* A character that is not all there: nothing is read for it, and (in UTF-8) its
\* value is what the reader's variable held.
UNSET == -1

ReadOne(encoding, in) ==
  CASE encoding = "UTF8" ->
         LET r == guac_utf8_read(in)
         IN  [bytes |-> r.bytes,
              value |-> IF r.bytes = 0 THEN UNSET ELSE r.codepoint]
    [] encoding = "UTF16" ->
         IF Len(in) < 2 THEN [bytes |-> 0, value |-> 0]
         ELSE [bytes |-> 2, value |-> in[1] + 256 * in[2]]
    [] encoding = "CP1252" ->
         [bytes |-> 1, value |-> IF in[1] \in 128 .. 159 THEN CP1252[in[1] - 127] ELSE in[1]]
    [] OTHER -> [bytes |-> 1, value |-> in[1]]

\* "\r\n" is read as "\n".  The character after a last "\r" is looked for where
\* there is none: an empty input reads as nothing.
NormalizedCRLF(r, rest, peek) ==
  IF r.value = 13 /\ rest /= <<>> /\ peek.value = 10
  THEN [bytes |-> r.bytes + peek.bytes, value |-> 10]
  ELSE r

Beyond(r, in) == SubSeq(in, r.bytes + 1, Len(in))

Peeked(encoding, r, rest) == NormalizedCRLF(r, rest, ReadOne(encoding, rest))

guac_iconv_read_normalized(encoding, in, r) == Peeked(encoding, r, Beyond(r, in))

WriteOne(encoding, value, room) ==
  LET found == {i \in 1 .. 32 : CP1252[i] = value}
  IN  CASE encoding = "UTF8"  -> guac_utf8_write(value, room)
        [] encoding = "UTF16" -> IF room < 2 THEN <<>>
                                 ELSE <<value % 256, (value \div 256) % 256>>
        [] encoding = "CP1252" /\ (value \in 128 .. 159 \/ value > 255) ->
             IF found = {} THEN <<63>>
             ELSE <<127 + CHOOSE i \in found : \A j \in found : i <= j>>
        [] OTHER -> <<IF value > 255 THEN 63 ELSE value>>

\* "\n" is written as "\r\n", or as far as there is room.
guac_iconv_write_crlf(encoding, room, cr) ==
  IF room - Len(cr) > 0 THEN cr \o WriteOne(encoding, 10, room - Len(cr)) ELSE cr

ReadAs(reader, in, r) ==
  IF reader.normalized THEN guac_iconv_read_normalized(reader.encoding, in, r) ELSE r

WrittenAs(writer, value, room) ==
  IF writer.crlf /\ value = 10
  THEN guac_iconv_write_crlf(writer.encoding, room, WriteOne(writer.encoding, 13, room))
  ELSE WriteOne(writer.encoding, value, room)

\* One character: a character there is no room for is left out and the next is
\* tried.  A value that was never set is written as often as there is room.
Consumed(s, r, w) ==
  [in |-> Beyond(r, s.in), out |-> s.out \o w, room |-> s.room - Len(w),
   done |-> r.value = 0, unset |-> FALSE]

ConvertRead(writer, s, r) ==
  IF r.value = UNSET THEN [s EXCEPT !.done = TRUE, !.unset = TRUE]
  ELSE Consumed(s, r, WrittenAs(writer, r.value, s.room))

Convert(reader, writer, s) ==
  IF s.done \/ s.in = <<>> \/ s.room = 0 THEN s
  ELSE ConvertRead(writer, s, ReadAs(reader, s.in, ReadOne(reader.encoding, s.in)))

guac_iconv(reader, in, writer, room) ==
  FoldLeft(LAMBDA s, i : Convert(reader, writer, s),
           [in |-> in, out |-> <<>>, room |-> room, done |-> FALSE, unset |-> FALSE],
           [i \in 1 .. Len(in) |-> i])

-----------------------------------------------------------------------------
(* What they promise.                                                      *)

LOCAL Covered(r) == (r.x .. r.x + r.width - 1) \X (r.y .. r.y + r.height - 1)

\* A rectangle that is clipped loses exactly what is split off, which is outside
\* of the hole, until what is left is inside of it (common/rect.h).
SplitExactly(rect, hole) ==
  LET parts == guac_common_rect_clip_and_split(rect, hole)
      both  == guac_common_rect_constrain(rect, hole)
  IN  /\ Len(parts) = 2 =>
           /\ Covered(parts[1]) \cup Covered(parts[2]) = Covered(rect)
           /\ Covered(parts[1]) \cap Covered(parts[2]) = {}
           /\ Covered(parts[2]) \cap Covered(hole) = {}
           /\ guac_common_rect_extend(parts[1], parts[2]) = rect
      /\ Len(parts) = 1 /\ Covered(rect) \cap Covered(hole) /= {} => both = rect
      /\ Covered(rect) \cap Covered(hole) = Covered(both)

\* A rectangle of a picture that is expanded stays within the picture, covers
\* what it did, and its sides are whole cells unless the picture ends first.
GridCovers(cell, rect, max) ==
  LET grown == guac_common_rect_expand_to_grid(cell, rect, max)
      Side(length, limit) == length % cell = 0 \/ length = limit
  IN  Covered(rect) \subseteq Covered(max) =>
        /\ Covered(rect) \subseteq Covered(grown)
        /\ Covered(grown) \subseteq Covered(max)
        /\ Side(grown.width, max.width) /\ Side(grown.height, max.height)

\* The sizes asked of malloc() are the true ones: what does not fit is refused,
\* what fits is not, unless a number before a zero is already too large (mem.h).
SizesRight(max, numbers) ==
  LET Product(s) == FoldLeft(LAMBDA a, b : a * b, 1, s)
      Total(s) == FoldLeft(LAMBDA a, b : a + b, 0, s)
      times == PRIV_guac_mem_ckd_mul(max, numbers)
      plus  == PRIV_guac_mem_ckd_add(max, numbers)
      minus == PRIV_guac_mem_ckd_sub(numbers)
      grown == PRIV_guac_mem_realloc(max, 1, numbers, max - 1)
  IN  numbers /= <<>> =>
        /\ times.ok <=> \A p \in Prefixes(numbers) : Product(p) <= max
        /\ times.ok => times.size = Product(numbers)
        /\ plus.ok <=> Total(numbers) <= max
        /\ plus.ok => plus.size = Total(numbers)
        /\ minus.ok <=> Total(Tail(numbers)) <= numbers[1]
        /\ minus.ok => minus.size = numbers[1] - Total(Tail(numbers))
        /\ grown.mem > 0 => grown.mem = Product(numbers) /\ grown.old = 0
        /\ PRIV_guac_mem_realloc_or_die_aborts(grown) <=> grown.old = 1

\* Joining writes what fits of the joined text and its terminator, nothing after
\* its room, and returns the length of the whole (string.h).
JoinsWhatFits(elements, delim, n) ==
  LET buffer == [i \in 1 .. n |-> 255]
      joined == guac_strljoin(buffer, elements, delim, n)
      whole == FoldLeft(LAMBDA a, e : a \o e, <<>>,
                        [i \in 1 .. 2 * Len(elements) - 1 |->
                           IF i % 2 = 1 THEN elements[(i + 1) \div 2] ELSE delim])
  IN  /\ joined[2] = Len(whole)
      /\ Len(joined[1]) = n
      /\ n > 0 => SubSeq(joined[1], 1, strnlen(joined[1], 0, n)) =
                  SubSeq(whole, 1, Lesser(Len(whole), n - 1))
      /\ n > 0 => guac_strndup(n + 1, joined[1], n) =
                  SubSeq(whole, 1, Lesser(Len(whole), n - 1)) \o <<0>>

\* What is found is the first occurrence within the limit, if there is one.
FindsFirst(haystack, needle, len) ==
  LET places == {o \in 0 .. len - Len(needle) :
                   SubSeq(haystack, o + 1, o + Len(needle)) = needle}
      found == guac_strnstr(haystack, needle, len)
  IN  IF places = {} THEN found = -1
      ELSE found \in places /\ \A o \in places : found <= o

\* A text and what is left of it between the encodings of a clipboard.
BytesOf(text) == FoldLeft(LAMBDA a, c : a \o guac_utf8_write(c, 4), <<>>, text)

Unix(text) == FoldLeft(LAMBDA a, c : IF c = 10 /\ a /= <<>> /\ Last(a) = 13
                                           THEN Front(a) \o <<10>> ELSE Append(a, c),
                             <<>>, text)

\* A text of the basic plane that is converted to UTF-16 with the line ends of
\* Windows and back is the same but for its line ends; one that is cut to fit is
\* cut between characters; and no character is made up, except where the bytes
\* given end within a character (iconv.h, unicode.h).
TextSurvives(text, room, cut) ==
  LET bytes == BytesOf(text)
      utf8  == [encoding |-> "UTF8", normalized |-> FALSE, crlf |-> FALSE]
      utf8n == [utf8 EXCEPT !.normalized = TRUE]
      utf16 == [encoding |-> "UTF16", normalized |-> TRUE, crlf |-> TRUE]
      there == guac_iconv(utf8n, bytes, utf16, 64)
      back  == guac_iconv(utf16, there.out, utf8, 64)
      short == guac_iconv(utf8, bytes, utf8, room)
      given == SubSeq(bytes, 1, Lesser(cut, Len(bytes)))
      part  == guac_iconv(utf8, given, utf8, 64)
      basic == \A i \in 1 .. Len(text) : text[i] <= 65535
  IN  /\ guac_utf8_strlen(bytes) = Len(text)
      /\ basic => back.out = BytesOf(Unix(text))
      /\ Len(short.out) <= room
      /\ short.out /= bytes => Len(bytes) > room
      /\ guac_utf8_strlen(short.out) <= Len(text) /\ ~short.unset
      /\ part.unset <=> ~ \E i \in 0 .. Len(text) : given = BytesOf(SubSeq(text, 1, i))
      /\ IsPrefix(part.out, bytes)

=============================================================================
