------------------------------- MODULE Formats -------------------------------
(***************************************************************************)
(* Conversions: inet_ntop(), inet_pton() and inet_aton() of libfree,       *)
(* in_cksum(), and crlf_add(), crlf_strip() and dowrite() of sock.  Each   *)
(* is computed as the loop in the code does, from an input chosen at the   *)
(* start.                                                                  *)
(*                                                                         *)
(* The text of an IPv6 address is a sequence of pieces: <<>> is a colon,   *)
(* <<v>> a hexadecimal number, <<v, w>> the dotted form of two numbers.    *)
(* The text of an IPv4 address is the sequence of the numbers between its  *)
(* dots, where Empty is no digit at all and Wraps a number that leaves 1   *)
(* in an unsigned long.                                                    *)
(***************************************************************************)
EXTENDS SequencesExt

CONSTANTS
  Bits,      \* of a word to be summed: 16
  MaxWords,  \* bound: words to be summed
  MaxIov,    \* UIO_MAXIOV: 16
  MaxBytes   \* bound: bytes to be written, characters to be converted

VARIABLES task, in, mid, out    \* mid is a result that is converted back

vars == <<task, in, mid, out>>

Bad == <<-1>>
Empty == 1000
Wraps == 1001

Words == {0, 1, 65535}
Addresses == [1..8 -> Words]

\* Texts that may be typed: up to nine groups, which are numbered, with a double
\* colon before the p-th, a single one at either end, and a dotted end.
Typed(n, p, first, last, dotted) ==
  LET group(k) == IF dotted /\ k = n THEN <<n, n + 1>> ELSE <<k>>
      sep(k) == IF k = p THEN IF k = 1 THEN <<<<>>, <<>>>> ELSE <<<<>>>> ELSE <<>>
      join(k) == (IF k > 1 THEN <<<<>>>> ELSE <<>>) \o sep(k) \o <<group(k)>>
      end == IF p = n + 1 THEN IF n = 0 THEN <<<<>>, <<>>>> ELSE <<<<>>, <<>>>> ELSE <<>> IN
  (IF first THEN <<<<>>>> ELSE <<>>) \o FlattenSeq([k \in 1..n |-> join(k)]) \o end
    \o (IF last THEN <<<<>>>> ELSE <<>>)

Newline == 10
Return == 13
Chars == {Newline, Return, 0}   \* 0 is any other
Texts == UNION {[1..n -> Chars] : n \in 0..MaxBytes}
Limit == 2^Bits

Init ==
  /\ mid = <<>> /\ out = <<>>
  /\ \/ task = "address" /\ in \in Addresses
     \/ /\ task = "typed"
        /\ in \in [n : 0..9, p : 0..10, first : BOOLEAN, last : BOOLEAN, dotted : BOOLEAN]
        /\ in.p <= in.n + 1 /\ (in.dotted => in.n > 0)
     \/ task = "aton" /\ in \in UNION {[1..n -> {0, 1, 255, 256, Empty, Wraps}] : n \in 1..5}
     \/ task = "ntop4" /\ in \in [length : 7..15, size : 0..20]
     \/ /\ task = "cksum" /\ in \in UNION {[1..n -> 0 .. Limit - 1] : n \in 0..MaxWords}
     \/ task = "crlf" /\ in \in [text : Texts, size : 0 .. 2 * MaxBytes + 1]
     \/ task = "dowrite" /\ in \in 0 .. 2 * MaxIov * MaxIov

-----------------------------------------------------------------------------
(* Addresses. *)

\* The longest run of zeros, the first of them, when there are two or more: the
\* loop over words[].
Longer(best, cur) == IF cur.base # 0 /\ (best.base = 0 \/ cur.len > best.len) THEN cur ELSE best

\* Mutant: a run at the end is forgotten.
BestRunOpen(words) ==
  LET none == [base |-> 0, len |-> 0]
      step(s, i) ==
        IF words[i] # 0 THEN [best |-> Longer(s.best, s.cur), cur |-> none]
        ELSE [s EXCEPT !.cur = IF s.cur.base = 0 THEN [base |-> i, len |-> 1]
                               ELSE [@ EXCEPT !.len = @ + 1]]
      best == FoldLeft(step, [best |-> none, cur |-> none], [i \in 1..8 |-> i]).best IN
  IF best.len < 2 THEN none ELSE best

BestRun(words) ==
  LET none == [base |-> 0, len |-> 0]
      step(s, i) ==
        IF words[i] # 0 THEN [best |-> Longer(s.best, s.cur), cur |-> none]
        ELSE [s EXCEPT !.cur = IF s.cur.base = 0 THEN [base |-> i, len |-> 1]
                               ELSE [@ EXCEPT !.len = @ + 1]]
      s == FoldLeft(step, [best |-> none, cur |-> none], [i \in 1..8 |-> i])
      best == Longer(s.best, s.cur) IN
  IF best.len < 2 THEN none ELSE best

\* inet_ntop6(): an address that begins with six zeros, or five and ffff, ends
\* in the dotted form.
Ntop6(words) ==
  LET best == BestRun(words)
      inside(i) == best.base # 0 /\ i >= best.base /\ i < best.base + best.len
      dotted == best.base = 1 /\ (best.len = 6 \/ (best.len = 5 /\ words[6] = 65535))
      colon(i) == IF i # 1 THEN <<<<>>>> ELSE <<>>
      piece(i) ==
        IF inside(i) THEN IF i = best.base THEN <<<<>>>> ELSE <<>>
        ELSE IF dotted /\ i = 7 THEN colon(i) \o <<<<words[7], words[8]>>>>
        ELSE IF dotted /\ i = 8 THEN <<>>
        ELSE colon(i) \o <<<<words[i]>>>>
      end == IF best.base # 0 /\ best.base + best.len = 9 THEN <<<<>>>> ELSE <<>> IN
  FlattenSeq([i \in 1..8 |-> piece(i)]) \o end

\* The shift by hand: n words from colonp on go to the end, one by one, and
\* leave zeros behind.
Shift(tp, colonp) ==
  LET n == Len(tp) - colonp + 1
      step(a, i) == [a EXCEPT ![9 - i] = a[Len(tp) + 1 - i], ![Len(tp) + 1 - i] = 0] IN
  FoldLeft(step, [k \in 1..8 |-> IF k <= Len(tp) THEN tp[k] ELSE 0], [i \in 1..n |-> i])

\* inet_pton6()
Pton6(text) ==
  LET colonFirst == Len(text) > 0 /\ text[1] = <<>>
      src == IF colonFirst THEN Tail(text) ELSE text
      start == [tp |-> <<>>, colonp |-> 0, val |-> <<>>, ok |-> TRUE]
      step(s, i) ==
        LET p == src[i] IN
        IF ~s.ok THEN s
        ELSE IF Len(p) = 1 THEN [s EXCEPT !.val = p]
        ELSE IF Len(p) = 2
        THEN IF Len(s.tp) + 2 <= 8 /\ i = Len(src)
             THEN [s EXCEPT !.tp = @ \o p, !.val = <<>>] ELSE [s EXCEPT !.ok = FALSE]
        ELSE IF s.val = <<>>
        THEN IF s.colonp # 0 THEN [s EXCEPT !.ok = FALSE] ELSE [s EXCEPT !.colonp = Len(s.tp) + 1]
        ELSE IF Len(s.tp) + 1 > 8 THEN [s EXCEPT !.ok = FALSE]
        ELSE [s EXCEPT !.tp = @ \o s.val, !.val = <<>>]
      s == FoldLeft(step, start, [i \in 1..Len(src) |-> i])
      tp == s.tp \o s.val IN
  IF (colonFirst /\ (Len(text) < 2 \/ text[2] # <<>>)) \/ ~s.ok \/ Len(tp) > 8 THEN Bad
  ELSE IF s.colonp # 0 THEN Shift(tp, s.colonp)
  ELSE IF Len(tp) = 8 THEN tp ELSE Bad

\* inet_aton(): no digit is 0, and missing numbers are zeros at the end.
Aton(text) ==
  LET acc(t) == IF t = Empty THEN 0 ELSE IF t = Wraps THEN 1 ELSE t IN
  IF Len(text) > 4 \/ \E k \in 1..Len(text) : acc(text[k]) > 255 THEN Bad
  ELSE [k \in 1..4 |-> IF k <= Len(text) THEN acc(text[k]) ELSE 0]

\* inet_ntop4(): the bytes it writes to a buffer of the given size.
Ntop4(length, size) == IF length > size THEN 0 ELSE length + 1

-----------------------------------------------------------------------------
(* The rest. *)

\* in_cksum(): the sum is folded twice.  An odd byte is a word of its own.
Cksum(words) ==
  LET sum == FoldSeq(LAMBDA w, n : n + w, 0, words)
      once == (sum \div Limit) + (sum % Limit)
      twice == once + (once \div Limit) IN
  (Limit - 1) - (twice % Limit)

\* crlf_add(): a text that would just fit is refused when it has a newline.
CrlfAdd(text, size) ==
  LET new == FlattenSeq([k \in 1..Len(text) |->
               IF text[k] = Newline THEN <<Return, Newline>> ELSE <<text[k]>>]) IN
  IF Len(text) > size \/ (Len(new) > Len(text) /\ Len(new) >= size) THEN Bad ELSE new

\* crlf_strip()
CrlfStrip(text, size) ==
  LET new == SelectSeq(text, LAMBDA c : c # Return) IN
  IF new # <<>> /\ Len(new) >= size THEN Bad ELSE new

\* dowrite() in chunks of equal size, the last of which may be shorter.
Dowrite(nbytes) ==
  LET size == IF nbytes \div MaxIov = 0 THEN 1
              ELSE (nbytes \div MaxIov) + (IF nbytes % MaxIov # 0 THEN 1 ELSE 0)
      left(i) == IF nbytes > (i - 1) * size THEN nbytes - (i - 1) * size ELSE 0
      len(i) == IF left(i) >= size THEN size ELSE left(i)
      full == {i \in 1..MaxIov : left(i) <= size} IN
  IF full = {} THEN Bad ELSE [i \in 1 .. CHOOSE i \in full : \A j \in full : i <= j |-> len(i)]

-----------------------------------------------------------------------------

Convert ==
  /\ out = <<>> /\ mid = <<>> /\ UNCHANGED <<task, in>>
  /\ \/ task = "address" /\ mid' = Ntop6(in) /\ out' = Pton6(mid')
     \/ /\ task = "typed" /\ mid' = Typed(in.n, in.p, in.first, in.last, in.dotted)
        /\ out' = Pton6(mid')
     \/ task = "aton" /\ out' = Aton(in) /\ UNCHANGED mid
     \/ task = "ntop4" /\ out' = <<Ntop4(in.length, in.size)>> /\ UNCHANGED mid
     \/ task = "cksum" /\ mid' = <<Cksum(in)>> /\ out' = <<Cksum(in \o mid')>>
     \/ /\ task = "crlf" /\ mid' = CrlfAdd(in.text, in.size)
        /\ out' = IF mid' = Bad THEN Bad ELSE CrlfStrip(mid', in.size)
     \/ task = "dowrite" /\ out' = Dowrite(in) /\ UNCHANGED mid

Next == Convert

Spec == Init /\ [][Next]_vars

-----------------------------------------------------------------------------

Done == out # <<>>
Groups(t) == Len(SelectSeq(t, LAMBDA p : Len(p) = 1)) + 2 * Len(SelectSeq(t, LAMBDA p : Len(p) = 2))
DoubleColons(t) == Cardinality({k \in 1 .. Len(t) - 1 : t[k] = <<>> /\ t[k + 1] = <<>>})

\* An address printed and read again is the same, and no shorter text of the
\* kind inet_ntop() writes means the same: the double colon stands for the
\* longest run of zeros there is, if that has two or more.
RoundTrip ==
  task = "address" /\ Done =>
    /\ out = in /\ DoubleColons(mid) <= 1
    /\ LET shown == IF DoubleColons(mid) = 0 THEN 0 ELSE 8 - Groups(mid) IN
       \A a \in 1..8, b \in 1..8 :
         a < b /\ (\A k \in a..b : in[k] = 0) => b - a + 1 <= shown

\* The numbers of a text that is valid, the double colon being zeros.
Value(i) ==
  LET n == IF i.dotted THEN i.n + 1 ELSE i.n IN
  IF i.p = 0 THEN [k \in 1..8 |-> k]
  ELSE [k \in 1..8 |-> IF k < i.p THEN k ELSE IF k > 8 - (n + 1 - i.p) THEN k - (8 - n) ELSE 0]

Valid(i) ==
  LET n == IF i.dotted THEN i.n + 1 ELSE i.n IN
  /\ ~i.first /\ ~i.last /\ (i.p = 0 => n = 8) /\ (i.p # 0 => n < 8)
  /\ ~(i.dotted /\ i.p = i.n + 1)

\* inet_pton() accepts every valid text and reads it right.  Beyond them it takes
\* one colon too many at the end, and a double colon among eight groups.
PtonAccepts ==
  task = "typed" /\ Done =>
    /\ Valid(in) => out = Value(in)
    /\ out # Bad /\ ~Valid(in) => in.last \/ (in.p # 0 /\ Groups(mid) = 8)

\* The comment of inet_pton6(): "(2) :: in a full address is silently ignored."
FullIgnored ==
  task = "typed" /\ Done /\ out # Bad /\ ~in.last /\ Groups(mid) = 8 => out = [k \in 1..8 |-> k]

\* inet_aton() accepts what is not an address only when a number between the
\* dots is missing, or so large that it wraps round.
AtonAccepts ==
  task = "aton" /\ Done /\ out # Bad =>
    \/ \A k \in 1..Len(in) : in[k] = out[k]
    \/ \E k \in 1..Len(in) : in[k] \in {Empty, Wraps}

\* inet_ntop4() writes one byte too many, and then only into a buffer that is
\* short of just that one.
Ntop4Fits == task = "ntop4" /\ Done => out[1] <= in.size \/ in.size = in.length

\* What a message and its checksum sum up to is 0, however many carries there are.
CksumZero == task = "cksum" /\ Done => out = <<0>>

\* A text that has been converted for the network and back is the same, but for
\* the returns it had; what is refused would have filled the buffer.
CrlfBack ==
  task = "crlf" /\ Done =>
    LET plain == SelectSeq(in.text, LAMBDA c : c # Return)
        full == Len(in.text) + Len(SelectSeq(in.text, LAMBDA c : c = Newline)) IN
    IF out = Bad THEN full >= in.size ELSE out = plain

\* dowrite() writes everything in chunks, and never runs out of them.
AllChunks ==
  task = "dowrite" /\ Done => out # Bad /\ Len(out) <= MaxIov /\ FoldSeq(LAMBDA a, b : a + b, 0, out) = in

FormatsRight ==
  /\ RoundTrip /\ PtonAccepts /\ AtonAccepts /\ Ntop4Fits /\ CksumZero /\ CrlfBack /\ AllChunks

===============================================================================
