------------------------------- MODULE WebText -------------------------------
(***************************************************************************)
(* What web/lib.rs does to texts that others read back: the rows of        *)
(* audit.csv, the filter in the link to it, the session cookie and the     *)
(* name of a downloaded file; each beside what reads it at the other end.  *)
(*                                                                         *)
(* A text is a sequence of code points.                                    *)
(***************************************************************************)
EXTENDS Integers, SequencesExt

Lf == 10
Cr == 13
Space == 32
Quote == 34
Percent == 37
Plus == 43
Comma == 44
Slash == 47
Semicolon == 59
Equals == 61
Backslash == 92

IsAscii(text) == \A i \in DOMAIN text : text[i] < 128

\* HeaderValue::to_str, and what may be in a header at all.
IsVisible(text) == \A i \in DOMAIN text : text[i] \in 32..126 \cup {9}
IsHeader(text) == \A i \in DOMAIN text : text[i] = 9 \/ (text[i] >= 32 /\ text[i] # 127)

ConcatMap(Op(_), text) == FlattenSeq([i \in DOMAIN text |-> Op(text[i])])

Keep(Test(_), text) == ConcatMap(LAMBDA x : IF Test(x) THEN <<x>> ELSE <<>>, text)

\* The parts of a text between separators.
SplitStep(parts, c, sep) ==
  IF c = sep THEN Append(parts, <<>>)
  ELSE Append(Front(parts), Append(Last(parts), c))

Split(text, sep) == FoldLeft(LAMBDA parts, c : SplitStep(parts, c, sep), <<<<>>>>, text)

Trim(text) ==
  LET inner == {i \in DOMAIN text : text[i] \notin {9, Lf, Cr, Space}}
  IN  IF inner = {} THEN <<>>
      ELSE SubSeq(text, CHOOSE i \in inner : \A j \in inner : i <= j,
                        CHOOSE i \in inner : \A j \in inner : i >= j)

-----------------------------------------------------------------------------
(* audit.csv                                                               *)

\* Mutant of Esc: a line break does not count.
EscCommas(field) ==
  IF \E i \in DOMAIN field : field[i] \in {Comma, Quote}
    THEN <<Quote>> \o ConcatMap(LAMBDA c : IF c = Quote THEN <<c, c>> ELSE <<c>>, field)
         \o <<Quote>>
    ELSE field

Esc(field) ==
  IF \E i \in DOMAIN field : field[i] \in {Comma, Quote, Lf, Cr}
    THEN <<Quote>> \o ConcatMap(LAMBDA c : IF c = Quote THEN <<c, c>> ELSE <<c>>, field)
         \o <<Quote>>
    ELSE field

CsvRow(fields) == Tail(ConcatMap(LAMBDA f : <<Comma>> \o Esc(f), fields)) \o <<Lf>>

\* A reader that goes by RFC 4180: where it is in a row, and the rows so far.
CsvStep(r, c) ==
  LET put(at) == [at |-> at, field |-> Append(r.field, c), row |-> r.row, rows |-> r.rows]
      row == Append(r.row, r.field)
  IN  CASE r.at = "quoted" /\ c = Quote -> [r EXCEPT !.at = "closed"]
        [] r.at = "quoted" /\ c # Quote -> put("quoted")
        [] r.at = "closed" /\ c = Quote -> put("quoted")
        [] r.at = "start" /\ c = Quote -> [r EXCEPT !.at = "quoted"]
        [] r.at # "quoted" /\ c = Comma ->
             [at |-> "start", field |-> <<>>, row |-> row, rows |-> r.rows]
        [] r.at # "quoted" /\ c \in {Lf, Cr} ->
             [at |-> "start", field |-> <<>>, row |-> <<>>, rows |-> Append(r.rows, row)]
        [] OTHER -> put("plain")

ReadCsv(text) ==
  FoldLeft(CsvStep, [at |-> "start", field |-> <<>>, row |-> <<>>, rows |-> <<>>], text).rows

-----------------------------------------------------------------------------
(* The filter of the audit page in the link to audit.csv                   *)

Hex(d) == IF d < 10 THEN 48 + d ELSE 55 + d
Unhex(c) == IF c \in 48..57 THEN c - 48 ELSE IF c \in 65..70 THEN c - 55 ELSE 0

\* {:X}: as many digits as it takes.
HexDigits(n) ==
  IF n < 16 THEN <<Hex(n)>>
  ELSE IF n < 256 THEN <<Hex(n \div 16), Hex(n % 16)>>
  ELSE <<Hex(n \div 256), Hex((n \div 16) % 16), Hex(n % 16)>>

Unreserved == (65..90) \cup (97..122) \cup (48..57) \cup {45, 46, 95, 126}

\* Mutant of UrlEncode: {:X} for {:02X}.
UrlEncodeShort(text) ==
  ConcatMap(LAMBDA c : IF c \in Unreserved THEN <<c>> ELSE <<Percent>> \o HexDigits(c), text)

\* The code point, not its bytes: {:02X} is what a reader expects below 128 only.
UrlEncode(text) ==
  ConcatMap(LAMBDA c : IF c \in Unreserved THEN <<c>>
                       ELSE IF c < 16 THEN <<Percent, Hex(0), Hex(c)>>
                       ELSE <<Percent>> \o HexDigits(c), text)

\* The query as axum reads it: + is a space, %XX a byte.
UrlStep(r, c) ==
  CASE r.wait = 2 -> [out |-> r.out, wait |-> 1, high |-> Unhex(c)]
    [] r.wait = 1 -> [out |-> Append(r.out, 16 * r.high + Unhex(c)), wait |-> 0, high |-> 0]
    [] r.wait = 0 /\ c = Percent -> [r EXCEPT !.wait = 2]
    [] OTHER -> [r EXCEPT !.out = Append(@, IF c = Plus THEN Space ELSE c)]

UrlDecode(text) == FoldLeft(UrlStep, [out |-> <<>>, wait |-> 0, high |-> 0], text).out

-----------------------------------------------------------------------------
(* The session cookie.  Its name is fips_session; a letter stands for it.  *)

SessionCookie == <<115>>

\* What the browser makes of Set-Cookie: it keeps name and value, and sends them
\* back behind cookies it has from elsewhere.
CookieHeader(others, token) ==
  others \o <<Semicolon, Space>> \o SessionCookie \o <<Equals>> \o token

CookieParts(header) == [i \in DOMAIN Split(header, Semicolon) |-> Trim(Split(header, Semicolon)[i])]

\* Mutant of IsCookie: the name need only begin the part.
StartsWithName(part, name) == IsPrefix(name, part) /\ Equals \in ToSet(part)

\* The part up to its first = is the name.
IsCookie(part, name) == IsPrefix(Append(name, Equals), part)

\* None is <<0>>, which no header has.
CookieValue(header, name) ==
  LET parts == CookieParts(header)
      hits == {i \in DOMAIN parts : IsCookie(parts[i], name)}
      first == CHOOSE i \in hits : \A j \in hits : i <= j
  IN  IF ~IsVisible(header) \/ hits = {} THEN <<0>>
      ELSE SubSeq(parts[first], Len(name) + 2, Len(parts[first]))

-----------------------------------------------------------------------------
(* The name of a downloaded file                                           *)

Take(text, n) == SubSeq(text, 1, IF Len(text) > n THEN n ELSE Len(text))

\* Mutant of SanitizeFilename: a backslash stays.
KeepBackslash(name) == Take(Keep(LAMBDA c : c \notin {Quote, Cr, Lf, 0, Slash}, name), 255)

SanitizeFilename(name) ==
  Take(Keep(LAMBDA c : c \notin {Quote, Cr, Lf, 0, Slash, Backslash}, name), 255)

\* What follows filename= in Content-Disposition, and how a browser reads it.
Disposition(name) == <<Quote>> \o SanitizeFilename(name) \o <<Quote>>

QuotedStep(r, c) ==
  CASE r.at = "escape" -> [at |-> "inside", out |-> Append(r.out, c)]
    [] r.at = "inside" /\ c = Backslash -> [r EXCEPT !.at = "escape"]
    [] r.at = "inside" /\ c = Quote -> [r EXCEPT !.at = "after"]
    [] r.at = "inside" /\ c \notin {Backslash, Quote} -> [r EXCEPT !.out = Append(@, c)]
    [] OTHER -> r

ReadQuoted(text) == FoldLeft(QuotedStep, [at |-> "inside", out |-> <<>>], Tail(text))
=============================================================================
