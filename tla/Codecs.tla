------------------------------- MODULE Codecs -------------------------------
(***************************************************************************)
(* Conversions at the edges: UTF-8 (utf8.c), file URIs and positions of    *)
(* language servers (lsp_uri.c), length-delimited frames                   *)
(* (process_frame.c), base64 and paged reads of the file tool (std/sdk.c,  *)
(* std/tool_fs.c), durations (duration.c).  Bytes are numbers; in frames,  *)
(* words are single tokens.  A C string is a sequence of the bytes 1..255. *)
(***************************************************************************)
EXTENDS Integers, Sequences, SequencesExt, FiniteSets, FiniteSetsExt

CONSTANTS PathCap,                      \* bytes of a path with its end (4096)
          HeaderCap,                    \* bytes of a frame's header (8192)
          Int64Max, DigitsMax,          \* largest duration; digits of a number (19)
          Week, Day, Hour, Minute       \* in milliseconds

Upto(s, n) == SubSeq(s, 1, IF n < Len(s) THEN n ELSE Len(s))
From(s, k) == SubSeq(s, k, Len(s))

-----------------------------------------------------------------------------
(* UTF-8 *)

Continued(s, k, n) == k + n <= Len(s) /\ \A j \in k + 1..k + n : s[j] \in 128..191
\* The bytes of the character at index k; 0: none that is well formed.
jx_utf8_seq(s, k) ==
    CASE s[k] < 128 -> 1
      [] s[k] \in 194..223 /\ Continued(s, k, 1) -> 2
      [] s[k] \in 224..239 /\ Continued(s, k, 2) ->
           IF (s[k] = 224 /\ s[k + 1] < 160) \/ (s[k] = 237 /\ s[k + 1] > 159) THEN 0 ELSE 3
      [] s[k] \in 240..244 /\ Continued(s, k, 3) ->
           IF (s[k] = 240 /\ s[k + 1] < 144) \/ (s[k] = 244 /\ s[k + 1] > 143) THEN 0 ELSE 4
      [] OTHER -> 0
jx_utf8_valid(s) ==
    LET valid[k \in 1..Len(s) + 1] ==
            IF k > Len(s) THEN TRUE ELSE jx_utf8_seq(s, k) > 0 /\ valid[k + jx_utf8_seq(s, k)]
    IN valid[1]

-----------------------------------------------------------------------------
(* File URIs *)

Slash == 47
Percent == 37
Safe == {Slash, 45, 46, 95, 126} \cup 48..57 \cup 65..90 \cup 97..122
HexDigit(n) == IF n < 10 THEN 48 + n ELSE 55 + n
\* -1: not a digit
hex(c) == CASE c \in 48..57 -> c - 48
            [] c \in 97..102 -> c - 87
            [] c \in 65..70 -> c - 55
            [] OTHER -> -1

Scheme == <<102, 105, 108, 101, 58, Slash, Slash>>       \* file://
lsp_uri(path) ==
    IF path = <<>> \/ path[1] # Slash \/ Len(path) >= PathCap \/ ~jx_utf8_valid(path) THEN {}
    ELSE {Scheme \o FlattenSeq([k \in DOMAIN path |->
              IF path[k] \in Safe THEN <<path[k]>>
              ELSE <<Percent, HexDigit(path[k] \div 16), HexDigit(path[k] % 16)>>])}

\* The paths a URI decodes to from index k on: one, or none when it is refused.
Decoded(u) ==
    LET Escape(k) == k + 2 <= Len(u) /\ hex(u[k + 1]) >= 0 /\ hex(u[k + 2]) >= 0
        Next(k) == IF u[k] = Percent THEN k + 3 ELSE k + 1
        Byte(k) == IF u[k] = Percent THEN 16 * hex(u[k + 1]) + hex(u[k + 2]) ELSE u[k]
        Bad(k) == IF u[k] = Percent THEN ~Escape(k) ELSE u[k] \in {63, 35}
        rest[k \in 1..Len(u) + 1] ==
            IF k > Len(u) THEN {<<>>}
            ELSE IF Bad(k) \/ Byte(k) \in {0, 92} THEN {}
            ELSE {<<Byte(k)>> \o p : p \in rest[Next(k)]}
    IN rest[Len(Scheme) + 1]
lsp_path(u) ==
    IF ~IsPrefix(Append(Scheme, Slash), u) \/ Len(u) > 3 * PathCap + 7 THEN {}
    ELSE {p \in Decoded(u) : p[1] = Slash /\ Len(p) < PathCap /\ jx_utf8_valid(p)}

\* The offset of a position given in bytes (the encoding utf-8 is agreed on).
Newline == 10
lsp_offset(text, line, col) ==
    LET breaks == {k \in DOMAIN text : text[k] = Newline}
        starts == {0} \cup breaks          \* offsets of line starts
        start == CHOOSE s \in starts : Cardinality({b \in starts : b < s}) = line
        past == {b - 1 : b \in {x \in breaks : x > start}}
        stop == IF past = {} THEN Len(text) ELSE Min(past)
        end == IF stop > start /\ text[stop] = 13 THEN stop - 1 ELSE stop
    IN IF line >= Cardinality(starts) THEN {}
       ELSE IF col > end - start \/ (start + col < Len(text) /\ text[start + col + 1] \in 128..191) THEN {}
       ELSE {start + col}

-----------------------------------------------------------------------------
(* Frames.  Tokens: CR, LF, ":", " ", digits "0" to "9", the header names  *)
(* "length" and "type", the value "vscode", "bad" for bytes no header may  *)
(* hold, and any other for the rest.                                       *)

Busy == [code |-> "busy", text |-> <<>>, rest |-> <<>>]
Error(code) == [code |-> code, text |-> <<>>, rest |-> <<>>]
Digit(c) == CASE c = "0" -> 0 [] c = "1" -> 1 [] c = "2" -> 2 [] OTHER -> -1

Blank == <<"CR", "LF", "CR", "LF">>
HeaderEnds(b) == {k \in 4..Len(b) : k <= HeaderCap /\ SubSeq(b, k - 3, k) = Blank}
Trim(v) ==
    LET ink == {k \in DOMAIN v : v[k] # " "} IN IF ink = {} THEN <<>> ELSE SubSeq(v, Min(ink), Max(ink))

Fresh == [code |-> "ok", n |-> 0, typed |-> FALSE, at |-> 1]

\* The length so far, or the error.
AddDigit(acc, c, cap) ==
    CASE acc.code # "ok" -> acc
      [] acc.code = "ok" /\ Digit(c) < 0 -> [acc EXCEPT !.code = "protocol"]
      [] acc.code = "ok" /\ Digit(c) >= 0 /\ (Digit(c) > cap \/ acc.n > (cap - Digit(c)) \div 10) -> [acc EXCEPT !.code = "tool"]
      [] OTHER -> [acc EXCEPT !.n = @ * 10 + Digit(c)]
Length(value, cap) ==
    LET acc[k \in 0..Len(value)] == IF k = 0 THEN Fresh ELSE AddDigit(acc[k - 1], value[k], cap) IN acc[Len(value)]

\* One header line; n = 0: no length yet.
AddLine(acc, line, cap) ==
    LET colon == {k \in DOMAIN line : line[k] = ":"}
        name == Upto(line, Min(colon) - 1)
        value == Trim(From(line, Min(colon) + 1))
        len == Length(value, cap)
    IN CASE colon = {} \/ 1 \in colon -> [acc EXCEPT !.code = "protocol"]
         [] OTHER ->
              CASE name = <<"length">> ->
                     IF acc.n > 0 \/ value = <<>> THEN [acc EXCEPT !.code = "protocol"]
                     ELSE IF len.code # "ok" THEN [acc EXCEPT !.code = len.code]
                     ELSE IF len.n = 0 THEN [acc EXCEPT !.code = "protocol"] ELSE [acc EXCEPT !.n = len.n]
                [] name = <<"type">> ->
                     IF acc.typed \/ value # <<"vscode">> THEN [acc EXCEPT !.code = "protocol"]
                     ELSE [acc EXCEPT !.typed = TRUE]
                [] OTHER -> [acc EXCEPT !.code = "protocol"]

\* A header without its blank line, read from at on line by line.
Read(acc, h, cap) ==
    LET ends == {k \in acc.at..Len(h) - 1 : h[k] = "CR" /\ h[k + 1] = "LF"}
    IN IF acc.code # "ok" \/ ends = {} THEN acc
       ELSE [AddLine(acc, SubSeq(h, acc.at, Min(ends) - 1), cap) EXCEPT !.at = Min(ends) + 2]
Header(h, cap) ==
    LET acc[k \in 0..Len(h)] == IF k = 0 THEN Fresh ELSE Read(acc[k - 1], h, cap) IN acc[Len(h)]

\* Fault: the payload is taken as soon as some of it is there.
ArrivedPartly(b, header, n) == Len(b) > header
Arrived(b, header, n) == n <= Len(b) - header
take_frame(b, cap) ==
    LET ends == HeaderEnds(b)
        header == IF ends = {} THEN 0 ELSE Min(ends)
        seen == Upto(b, IF header > 0 THEN header ELSE HeaderCap)
        h == Header(Upto(b, header - 2), cap)
    IN CASE "bad" \in ToSet(seen) -> Error("protocol")
         [] "bad" \notin ToSet(seen) /\ header = 0 -> IF Len(b) >= HeaderCap THEN Error("protocol") ELSE Busy
         [] OTHER -> IF h.code # "ok" THEN Error(h.code)
                     ELSE IF h.n = 0 THEN Error("protocol")
                     ELSE IF ~Arrived(b, header, h.n) THEN Busy
                     ELSE [code |-> "ok", text |-> Upto(From(b, header + 1), h.n), rest |-> From(b, header + h.n + 1)]

-----------------------------------------------------------------------------
(* Base64 (symbols 0..63, Pad for =) and the pages of fs.read *)

Pad == 64
Triple(a, b, c) == 65536 * a + 256 * b + c
Symbols(v) == <<v \div 262144, (v \div 4096) % 64, (v \div 64) % 64, v % 64>>
base64_encode(d) ==
    FlattenSeq([k \in 1..(Len(d) + 2) \div 3 |->
        LET i == 3 * k - 2
        IN CASE Len(d) >= i + 2 -> Symbols(Triple(d[i], d[i + 1], d[i + 2]))
             [] Len(d) = i -> Upto(Symbols(Triple(d[i], 0, 0)), 2) \o <<Pad, Pad>>
             [] OTHER -> Upto(Symbols(Triple(d[i], d[i + 1], 0)), 3) \o <<Pad>>])

base64_decode(s) ==
    LET n == Len(s)
        pad == IF n = 0 \/ s[n] # Pad THEN 0 ELSE IF s[n - 1] = Pad THEN 2 ELSE 1
        Bits(k) == 262144 * s[k] + 4096 * s[k + 1]
        Group(k) ==
            LET v == Bits(k) + 64 * s[k + 2] + s[k + 3]
            IN CASE k + 4 <= n \/ pad = 0 -> <<v \div 65536, (v \div 256) % 256, v % 256>>
                 [] k + 4 > n /\ pad = 1 -> <<(Bits(k) + 64 * s[k + 2]) \div 65536, ((Bits(k) + 64 * s[k + 2]) \div 256) % 256>>
                 [] OTHER -> <<Bits(k) \div 65536>>
    IN IF n % 4 # 0 \/ (\E k \in 1..n - pad : s[k] = Pad) THEN {}
       ELSE IF (pad = 1 /\ s[n - 1] % 4 # 0) \/ (pad = 2 /\ s[n - 2] % 16 # 0) THEN {}
       ELSE {FlattenSeq([g \in 1..n \div 4 |-> Group(4 * g - 3)])}

\* The bytes from offset on, at most max of them; a text ends at a NUL, base64
\* carries every byte.  A one-byte probe tells whether more follow.
ReadPage(file, offset, max, enc) ==
    LET page == Upto(From(file.data, offset + 1), max)
        nul == {k \in DOMAIN page : page[k] = 0}
    IN [code |-> "ok",
        content |-> IF enc = "base64" THEN base64_encode(page)
                    ELSE IF nul = {} THEN page ELSE Upto(page, Min(nul) - 1),
        size |-> Len(file.data),
        truncated |-> Len(page) = max /\ offset + max < Len(file.data) /\ file.fails # "probe"]

\* A file is its bytes and the system call on it that fails, if any; of a
\* directory, open and fstat succeed.
Unread(code) == [code |-> code, content |-> <<>>, size |-> 0, truncated |-> FALSE]
cmd_read(file, offset, max, enc) ==
    CASE file.fails = "no path" \/ offset < 0 \/ max < 0 \/ enc \notin {"utf8", "base64"} -> Unread("astools/invalid-args")
      [] OTHER ->
           IF file.fails \in {"open", "fstat"} THEN Unread("errno")
           ELSE IF file.fails = "directory" THEN Unread("fs/is-dir")
           ELSE IF (file.fails = "lseek" /\ offset > 0) \/ (file.fails = "read" /\ max > 0) THEN Unread("errno")
           ELSE ReadPage(file, offset, max, enc)

-----------------------------------------------------------------------------
(* Durations, P[nD][T[nH][nM][n[.f]S]] or PnW, in the bytes of ASCII      *)

At(s, k) == IF k <= Len(s) THEN s[k] ELSE 0            \* 0: the end
DigitsEnd(s, k) == Min({j \in k..Len(s) + 1 : At(s, j) \notin 48..57})
\* A number: its value and the index behind it; -1: refused.
number(s, k) ==
    LET n[j \in k - 1..Len(s)] ==
            IF j < k THEN 0
            ELSE IF n[j - 1] < 0 \/ j - k >= DigitsMax \/ n[j - 1] > (Int64Max - (s[j] - 48)) \div 10 THEN -1
            ELSE 10 * n[j - 1] + s[j] - 48
    IN [n |-> IF DigitsEnd(s, k) = k THEN -1 ELSE n[DigitsEnd(s, k) - 1], at |-> DigitsEnd(s, k)]
\* The milliseconds of one to three decimals, if a point stands at k.
decimals(s, k) ==
    LET end == DigitsEnd(s, k + 1)
        d(j) == IF k + j < end THEN s[k + j] - 48 ELSE 0
    IN IF At(s, k) # 46 THEN [n |-> 0, at |-> k]
       ELSE [n |-> IF end - k \in 2..4 THEN 100 * d(1) + 10 * d(2) + d(3) ELSE -1, at |-> end]

\* The next of hours, minutes and seconds; parts are <<number, unit, fraction>>.
TimeUnits == <<Hour, Minute, 1000>>
NextPart(s, r) ==
    LET n == number(s, r.at)
        f == decimals(s, n.at)
        stage == {k \in r.stage + 1..3 : At(s, f.at) = <<72, 77, 83>>[k] /\ (f.at = n.at \/ k = 3)}
    IN IF r.at > Len(s) \/ ~r.ok THEN r
       ELSE IF n.n < 0 \/ f.n < 0 \/ stage = {} THEN [r EXCEPT !.ok = FALSE]
       ELSE [ok |-> TRUE, at |-> f.at + 1, stage |-> Min(stage), parts |-> Append(r.parts, <<n.n, TimeUnits[Min(stage)], f.n>>)]
\* The parts from the T at index k on.
TimeParts(s, k, days) ==
    LET r[j \in 0..Len(s)] ==
            IF j = 0 THEN [ok |-> TRUE, at |-> k + 1, stage |-> 0, parts |-> days] ELSE NextPart(s, r[j - 1])
    IN IF At(s, k) # 84 \/ At(s, k + 1) = 0 \/ ~r[Len(s)].ok THEN {} ELSE {r[Len(s)].parts}
\* The parts of a text: one sequence, or none when it is no duration.
duration_parts(s) ==
    LET n == number(s, 2)
    IN IF At(s, 1) # 80 \/ At(s, 2) = 0 THEN {}
       ELSE IF s[2] = 84 THEN TimeParts(s, 2, <<>>)
       ELSE IF n.n < 0 THEN {}
       ELSE CASE At(s, n.at) = 87 /\ At(s, n.at + 1) = 0 -> {<<<<n.n, Week, 0>>>>}
              [] At(s, n.at) = 68 /\ At(s, n.at + 1) = 0 -> {<<<<n.n, Day, 0>>>>}
              [] At(s, n.at) = 68 /\ At(s, n.at + 1) # 0 -> TimeParts(s, n.at + 1, <<<<n.n, Day, 0>>>>)
              [] OTHER -> {}

add(total, n, unit, fraction) ==
    IF total > Int64Max - fraction \/ n > (Int64Max - total - fraction) \div unit THEN -1
    ELSE total + n * unit + fraction
duration_total(parts) ==
    LET total[k \in 0..Len(parts)] ==
            IF k = 0 THEN 0
            ELSE IF total[k - 1] < 0 THEN -1 ELSE add(total[k - 1], parts[k][1], parts[k][2], parts[k][3])
    IN total[Len(parts)]
\* The milliseconds of a text; none: refused.
duration_parse_ms(s) == {duration_total(parts) : parts \in duration_parts(s)} \ {-1}

-----------------------------------------------------------------------------
(* What the conversions promise *)

\* A text is valid when it can be cut into encodings of Unicode's scalar values.
Encoding(c) ==
    CASE c < 128 -> <<c>>
      [] c \in 128..2047 -> <<192 + c \div 64, 128 + (c % 64)>>
      [] c \in 2048..65535 -> <<224 + c \div 4096, 128 + ((c \div 64) % 64), 128 + (c % 64)>>
      [] OTHER -> <<240 + c \div 262144, 128 + ((c \div 4096) % 64), 128 + ((c \div 64) % 64), 128 + (c % 64)>>
Character(b) ==
    LET c == CASE Len(b) = 1 -> b[1]
               [] Len(b) = 2 -> 64 * (b[1] % 32) + (b[2] % 64)
               [] Len(b) = 3 -> 4096 * (b[1] % 16) + 64 * (b[2] % 64) + (b[3] % 64)
               [] OTHER -> 262144 * (b[1] % 8) + 4096 * (b[2] % 64) + 64 * (b[3] % 64) + (b[4] % 64)
    IN c <= 1114111 /\ c \notin 55296..57343 /\ b = Encoding(c)
Utf8Exact(s) ==
    LET cut[k \in 0..Len(s)] == k = 0 \/ \E n \in 1..4 : n <= k /\ Character(SubSeq(s, k - n + 1, k)) /\ cut[k - n]
    IN jx_utf8_valid(s) <=> cut[Len(s)]

\* A path survives its URI, unless it has a backslash: then its URI is refused.
\* A URI that is accepted names one path: the containment check and the server
\* see the same bytes.
UriExact(s) ==
    /\ \A u \in lsp_uri(s) : lsp_path(u) = IF 92 \in ToSet(s) THEN {} ELSE {s}
    /\ \A p \in lsp_path(Scheme \o s) : \E u \in lsp_uri(p) : lsp_path(u) = {p}

\* A position lies in its line, before the line ending, at the start of a character.
PositionExact(text, line, col) ==
    \A o \in lsp_offset(text, line, col) :
        /\ Cardinality({k \in 1..o : text[k] = Newline}) = line
        /\ \A k \in o - col + 1..o : text[k] # Newline
        /\ o < Len(text) => text[o + 1] \notin 128..191

\* A verdict on a stream never depends on how much more has arrived, and a
\* message is taken whole: what follows it stays in the buffer.
FrameStable(stream, cap) ==
    \A n \in 0..Len(stream) :
        LET early == take_frame(Upto(stream, n), cap)
            late == take_frame(stream, cap)
        IN /\ early.code # "busy" => early.code = late.code /\ early.text = late.text
           /\ early.code = "ok" => early.rest \o From(stream, n + 1) = late.rest

\* Decoding accepts exactly the encoder's output.
Base64Exact(data, symbols) ==
    /\ base64_decode(base64_encode(data)) = {data}
    /\ \A d \in base64_decode(symbols) : base64_encode(d) = symbols

\* Pages of any size put together are the file, and the last one says so; with
\* a failing probe the first page may be taken for the last.
Sound(data) == [data |-> data, fails |-> ""]
PagesExact(data, max) ==
    LET from[offset \in Nat] ==
            LET r == cmd_read(Sound(data), offset, max, "base64")
                page == CHOOSE d \in base64_decode(r.content) : TRUE
            IN IF r.truncated THEN page \o from[offset + max] ELSE page
    IN from[0] = data

\* A duration is the exact sum of its parts, or refused when it does not fit.
DurationExact(s) ==
    LET Sum(parts) ==
            LET sum[k \in 0..Len(parts)] == IF k = 0 THEN 0 ELSE sum[k - 1] + parts[k][1] * parts[k][2] + parts[k][3]
            IN sum[Len(parts)]
    IN duration_parse_ms(s) = {n \in {Sum(parts) : parts \in duration_parts(s)} : n <= Int64Max}
=============================================================================
