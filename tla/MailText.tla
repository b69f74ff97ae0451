------------------------------ MODULE MailText ------------------------------
(***************************************************************************)
(* The text of a mail: how stmp2log writes one (compose in                 *)
(* s2l-notify/src/smtp.rs), how the SMTP server takes it off the wire      *)
(* (read_data in s2l-smtp/src/session.rs), and how it is read, with its    *)
(* encoded words and its parts (s2l-mail: parse.rs, word.rs, qp.rs).       *)
(*                                                                         *)
(* A text is a sequence of bytes.  A number above 255 stands for a name    *)
(* that is written out in a mail, as Subject for the bytes "Subject".  The *)
(* only charset is UTF-8, with characters of one byte or of two.           *)
(*                                                                         *)
(* A definition marked "Slip" is no part of the model.                     *)
(***************************************************************************)
EXTENDS Integers, SequencesExt

CONSTANTS
    MaxPiece,       \* 45, the bytes of an encoded word
    LineLetters,    \* 76
    MaxSize,        \* max_size of the server's Config
    MaxDepth,       \* MAX_DEPTH, 12
    MaxAttachments  \* MAX_ATTACHMENTS, 64

(* Assumed by the module that instantiates this one.                       *)
MailTextAssumption ==
    /\ MaxPiece \in Nat /\ MaxPiece >= 2
    /\ LineLetters \in Nat \ {0}
    /\ {MaxSize, MaxDepth, MaxAttachments} \subseteq Nat

Tab == 9   Lf == 10   Cr == 13   Sp == 32   Quote == 34   Percent == 37   And == 38   Apostrophe == 39
Star == 42   Plus == 43   Minus == 45   Dot == 46   Slash == 47   Colon == 58   Semi == 59   Lt == 60
Eq == 61   Gt == 62   Qm == 63   Underscore == 95
Crlf == <<Cr, Lf>>
Blanks == {Tab, Sp, Cr, Lf}

Subject == 300   TypeOf == 301   EncodingOf == 302   DispositionOf == 303
Multipart == 310   Plain == 311   Html == 312   Octets == 313   Attached == 314
Boundary == 320   Filename == 321   Name == 322
Base64 == 330   QuotedPrintable == 331   Utf8 == 332   Unreadable == 333
Br == 340   Td == 341   Script == 342   Nbsp == 350   LtSign == 351   AndSign == 352

-----------------------------------------------------------------------------
Rest(text, n) == SubSeq(text, n, Len(text)) \* from the n-th on
StartsWith(text, start) == IsPrefix(start, text)

(* Where part is in text first, from the n-th on; 0 if nowhere.            *)
Find(text, part, n) ==
    LET At == {i \in n .. Len(text) - Len(part) + 1 : SubSeq(text, i, i + Len(part) - 1) = part}
    IN  IF At = {} THEN 0 ELSE CHOOSE i \in At : \A j \in At : i <= j

(* What stands before the first of these, from the n-th on, and after it.  *)
Before(text, part, n) == IF Find(text, part, n) = 0 THEN text ELSE SubSeq(text, 1, Find(text, part, n) - 1)
After(text, part, n) ==
    IF Find(text, part, n) = 0 THEN <<>> ELSE Rest(text, Find(text, part, n) + Len(part))

RECURSIVE Split(_, _)
Split(text, at) ==
    <<Before(text, <<at>>, 1)>>
    \o IF Find(text, <<at>>, 1) = 0 THEN <<>> ELSE Split(After(text, <<at>>, 1), at)

Joined(parts, between) ==
    IF parts = <<>> THEN <<>> ELSE FoldLeft(LAMBDA all, p : all \o between \o p, Head(parts), Tail(parts))

TrimStart(text) == Rest(text, SelectInSeq(Append(text, Colon), LAMBDA b : b \notin Blanks))
TrimOf(text, bytes) ==
    LET Cut(t) == SubSeq(t, 1, SelectLastInSeq(t, LAMBDA b : b \notin bytes))
    IN  Reverse(Cut(Reverse(Cut(text))))
TrimEnd(text) == SubSeq(text, 1, SelectLastInSeq(text, LAMBDA b : b \notin Blanks))
Trim(text) == TrimOf(text, Blanks)

(* Base64, three bytes to four letters.                                    *)
Letter(n) == CASE n < 26 -> 65 + n [] n \in 26 .. 51 -> 71 + n [] n \in 52 .. 61 -> n - 4
               [] n = 62 -> 43 [] n = 63 -> 47
Value(letter) == CHOOSE n \in 0 .. 63 : Letter(n) = letter
Letters == {Letter(n) : n \in 0 .. 63}

Encoded(bytes) ==
    FlattenSeq([g \in 1 .. (Len(bytes) + 2) \div 3 |->
        LET B(k) == IF 3 * g - 3 + k > Len(bytes) THEN 0 ELSE bytes[3 * g - 3 + k]
            n    == 65536 * B(1) + 256 * B(2) + B(3)
            have == IF 3 * g > Len(bytes) THEN Len(bytes) - 3 * g + 3 ELSE 3
            L(k) == IF k > have + 1 THEN Eq ELSE Letter((n \div 64 ^ (4 - k)) % 64)
        IN  <<L(1), L(2), L(3), L(4)>>])

Undecodable == <<-1>>

Clean(text) == SelectSeq(text, LAMBDA b : b \notin Blanks)
Bare(clean) == SubSeq(clean, 1, SelectLastInSeq(clean, LAMBDA b : b # Eq))

BytesOf(bare) ==
    LET V(k) == IF k > Len(bare) THEN 0 ELSE Value(bare[k])
    IN  [i \in 1 .. (3 * Len(bare)) \div 4 |->
            LET g == (i - 1) \div 3
                n == 262144 * V(4 * g + 1) + 4096 * V(4 * g + 2) + 64 * V(4 * g + 3) + V(4 * g + 4)
            IN  (n \div 256 ^ (2 - ((i - 1) % 3))) % 256]

DecodedFrom(bare, pads) ==
    IF \/ ~ ToSet(bare) \subseteq Letters
       \/ Len(bare) % 4 = 1
       \/ pads > (4 - (Len(bare) % 4)) % 4
    THEN Undecodable ELSE BytesOf(bare)

(* b64_lenient: blanks are left out, and padding may be missing.           *)
Decoded(text) ==
    LET clean == Clean(text)
    IN  DecodedFrom(Bare(clean), Len(clean) - Len(Bare(clean)))

(* Quoted-printable.                                                       *)
Hex(b) == CASE b \in 48 .. 57 -> b - 48 [] b \in 65 .. 70 -> b - 55 [] b \in 97 .. 102 -> b - 87
            [] OTHER -> -1
Hexes(text, n) == n + 1 <= Len(text) /\ Hex(text[n]) >= 0 /\ Hex(text[n + 1]) >= 0

RECURSIVE QpDecode(_, _)
QpDecode(text, inWord) ==
    CASE text = <<>> -> <<>>
      [] text # <<>> /\ inWord /\ Head(text) = Underscore -> <<Sp>> \o QpDecode(Tail(text), inWord)
      [] StartsWith(text, <<Eq>> \o Crlf) -> QpDecode(Rest(text, 4), inWord)
      [] StartsWith(text, <<Eq, Lf>>) -> QpDecode(Rest(text, 3), inWord)
      [] StartsWith(text, <<Eq>>) /\ Hexes(text, 2) ->
            <<16 * Hex(text[2]) + Hex(text[3])>> \o QpDecode(Rest(text, 4), inWord)
      [] OTHER -> <<Head(text)>> \o QpDecode(Tail(text), inWord)

(* charset::decode: what is no whole character cannot be read.             *)
Readable(bytes) ==
    LET Lead(i) == i \in DOMAIN bytes /\ bytes[i] \in 192 .. 223
        Tails(i) == i \in DOMAIN bytes /\ bytes[i] \in 128 .. 191
    IN  IF \A i \in 0 .. Len(bytes) : Lead(i) <=> Tails(i + 1) THEN bytes ELSE <<Unreadable>>

-----------------------------------------------------------------------------
(* Writing a mail.  A title is a sequence of characters.                   *)

WordOf(bytes) == <<Eq, Qm, Utf8, Qm, 66, Qm>> \o Encoded(bytes) \o <<Qm, Eq>>

(* (Slip: words are cut between bytes.)                                    *)
PiecesOfBytes(chars) ==
    LET bytes == FlattenSeq(chars)
    IN  [k \in 1 .. (Len(bytes) + MaxPiece - 1) \div MaxPiece |->
            SubSeq(bytes, MaxPiece * (k - 1) + 1,
                   IF MaxPiece * k < Len(bytes) THEN MaxPiece * k ELSE Len(bytes))]

(* As many whole characters as fit into a word.                            *)
Pieces(chars) ==
    FoldLeft(LAMBDA words, c : IF words # <<>> /\ Len(Last(words)) + Len(c) <= MaxPiece
                               THEN [words EXCEPT ![Len(words)] = @ \o c]
                               ELSE Append(words, c), <<>>, chars)

EncodeWord(title) ==
    LET chars == [i \in DOMAIN title |-> IF title[i] \in {<<Cr>>, <<Lf>>} THEN <<Sp>> ELSE title[i]]
        words == Pieces(chars)
    IN  IF \A c \in ToSet(chars) : c[1] \in 32 .. 126 THEN FlattenSeq(chars)
        ELSE Joined([k \in DOMAIN words |-> WordOf(words[k])], Crlf \o <<Sp>>)

Wrapped(enc) ==
    LET lines == [k \in 1 .. (Len(enc) + LineLetters - 1) \div LineLetters |->
                     SubSeq(enc, LineLetters * (k - 1) + 1,
                            IF LineLetters * k < Len(enc) THEN LineLetters * k ELSE Len(enc)) \o Crlf]
    IN  IF lines = <<>> THEN Crlf ELSE FlattenSeq(lines)

Base64Lines(bytes) == Wrapped(Encoded(bytes))

Compose(title, body) ==
    <<Subject, Colon, Sp>> \o EncodeWord(title) \o Crlf
    \o <<TypeOf, Colon, Sp, Plain>> \o Crlf
    \o <<EncodingOf, Colon, Sp, Base64>> \o Crlf \o Crlf
    \o Base64Lines(body)

(* write_message: no line of compose begins with a dot.                    *)
OnTheWire(message) == message \o <<Dot>> \o Crlf

-----------------------------------------------------------------------------
(* Taking a mail off the wire.                                             *)

TrimEol(line) == IF IsSuffix(<<Cr>>, line) THEN SubSeq(line, 1, Len(line) - 1) ELSE line
Unstuffed(line) == IF StartsWith(line, <<Dot, Dot>>) THEN Tail(line) ELSE line

TooBig == <<-2>>

Lines(split) == [i \in 1 .. Len(split) - (IF Last(split) = <<>> THEN 1 ELSE 0) |-> TrimEol(split[i])]

UpToTheDot(lines) ==
    LET dot == SelectInSeq(lines, LAMBDA l : l = <<Dot>>)
    IN  FlattenSeq([i \in 1 .. (IF dot = 0 THEN Len(lines) ELSE dot - 1) |-> Unstuffed(lines[i]) \o Crlf])

Limited(data) == IF Len(data) > MaxSize THEN TooBig ELSE data

ReadData(wire) == Limited(UpToTheDot(Lines(Split(wire, Lf))))

-----------------------------------------------------------------------------
(* Reading a header.                                                       *)

NotAWord == [text |-> <<>>, length |-> 0]

(* name and end are where the charset and the data end.                    *)
WordUpTo(bytes, name, end, raw) ==
    IF \/ ~ StartsWith(bytes, <<Eq, Qm>>)
       \/ name = 0 \/ name + 2 > Len(bytes) \/ end = 0
       \/ bytes[name + 1] \notin {66, 98, 81, 113} \/ bytes[name + 2] # Qm
       \/ raw = Undecodable
    THEN NotAWord
    ELSE [text |-> Readable(raw), length |-> end + 1]

ParseWord(bytes) ==
    LET name == Find(bytes, <<Qm>>, 3)
        end  == Find(bytes, <<Qm, Eq>>, name + 3)
        data == SubSeq(bytes, name + 3, end - 1)
    IN  WordUpTo(bytes, name, end,
                 IF bytes[name + 1] \in {66, 98} THEN Decoded(data) ELSE QpDecode(data, TRUE))

(* Blanks between two words are no part of the text.                       *)
RECURSIVE DecodeFrom(_, _, _)
DecodeFrom(bytes, gap, afterWord) ==
    IF bytes = <<>> THEN (IF afterWord THEN <<>> ELSE gap)
    ELSE LET word == ParseWord(bytes)
             next == Find(bytes, <<Eq, Qm>>, 2)
             chunk == IF next = 0 THEN bytes ELSE SubSeq(bytes, 1, next - 1)
             left  == Rest(bytes, Len(chunk) + 1)
         IN  IF word # NotAWord
             THEN (IF afterWord THEN <<>> ELSE gap) \o word.text
                  \o DecodeFrom(Rest(bytes, word.length + 1), <<>>, TRUE)
             ELSE IF Trim(chunk) = <<>> /\ left # <<>> THEN DecodeFrom(left, gap \o chunk, afterWord)
             ELSE gap \o Readable(chunk) \o DecodeFrom(left, <<>>, FALSE)

DecodeWords(value) ==
    IF Find(value, <<Eq, Qm>>, 1) = 0 THEN Readable(value) ELSE DecodeFrom(value, <<>>, FALSE)

(* A line that begins with a blank goes on with the header before it.      *)
Unfold(head) ==
    FoldLeft(LAMBDA headers, line :
                LET colon == Find(line, <<Colon>>, 1) IN
                IF StartsWith(line, <<Sp>>) \/ StartsWith(line, <<Tab>>)
                THEN IF headers = <<>> THEN headers
                     ELSE [headers EXCEPT ![Len(headers)].value = @ \o <<Sp>> \o TrimStart(line)]
                ELSE IF colon = 0 THEN headers
                ELSE Append(headers, [name |-> SubSeq(line, 1, colon - 1),
                                      value |-> TrimStart(Rest(line, colon + 1))]),
             <<>>, [i \in DOMAIN Split(head, Lf) |-> TrimEol(Split(head, Lf)[i])])

SplitHeaders(raw) ==
    LET blank == Find(raw, Crlf \o Crlf, 1)
    IN  CASE StartsWith(raw, Crlf) -> [headers |-> <<>>, body |-> Rest(raw, 3)]
          [] blank = 0 /\ ~ StartsWith(raw, Crlf) -> [headers |-> Unfold(raw), body |-> <<>>]
          [] OTHER -> [headers |-> Unfold(SubSeq(raw, 1, blank - 1)), body |-> Rest(raw, blank + 4)]

(* A header that a part has twice counts the first time (header_of), one   *)
(* of the mail itself the last time (parse).                               *)
ValueAt(headers, at) == IF at = 0 THEN <<>> ELSE headers[at].value
HeaderOf(headers, name) == ValueAt(headers, SelectInSeq(headers, LAMBDA h : h.name = <<name>>))
LastHeaderOf(headers, name) == ValueAt(headers, SelectLastInSeq(headers, LAMBDA h : h.name = <<name>>))

-----------------------------------------------------------------------------
(* The type of a part, and its parameters.                                 *)

Pair(field) ==
    LET eq == Find(field, <<Eq>>, 1)
    IN  [key |-> Trim(SubSeq(field, 1, eq - 1)),
         value |-> TrimOf(Trim(Rest(field, eq + 1)), {Quote, Apostrophe})]

ContentType(value) ==
    LET fields == Split(value, Semi)
        pairs  == SelectSeq(Tail(fields), LAMBDA f : Find(f, <<Eq>>, 1) # 0)
    IN  [mime |-> Trim(Head(fields)), params |-> [i \in DOMAIN pairs |-> Pair(pairs[i])]]

(* No value, and one that ends the program.                                *)
Missing == <<-3>>
Panic   == <<-4>>
Then(bytes, more) == IF more = Panic THEN Panic ELSE bytes \o more

(* from_str_radix takes a sign for a digit.                                *)
Radix16(text, n) == (IF text[n] = Plus THEN 0 ELSE 16 * Hex(text[n])) + Hex(text[n + 1])
IsRadix16(text, n) == Hexes(text, n) \/ (n + 1 <= Len(text) /\ text[n] = Plus /\ Hex(text[n + 1]) >= 0)

(* The two letters after a percent sign are cut out of a text, and there   *)
(* is no cutting inside a character.                                       *)
RECURSIVE PercentDecode(_)
PercentDecode(text) ==
    CASE text = <<>> -> <<>>
      [] StartsWith(text, <<Percent>>) /\ Len(text) >= 4 /\ text[4] \in 128 .. 191 -> Panic
      [] StartsWith(text, <<Percent>>) /\ IsRadix16(text, 2) ->
            Then(<<Radix16(text, 2)>>, PercentDecode(Rest(text, 4)))
      [] OTHER -> Then(<<Head(text)>>, PercentDecode(Tail(text)))

WithoutCharset(value) ==
    LET first  == Find(value, <<Apostrophe>>, 1)
        second == Find(value, <<Apostrophe>>, first + 1)
    IN  Rest(value, (IF second # 0 THEN second ELSE first) + 1)

(* A parameter may come in numbered pieces, and with a charset.            *)
Param(ct, name) ==
    LET Number(key) == IF Len(key) > 2 /\ key[3] # Star THEN key[3] ELSE 0
        own    == SelectSeq(ct.params, LAMBDA p : p.key # <<>> /\ p.key[1] = name)
        pieces == SortSeq(own, LAMBDA a, b : Number(a.key) < Number(b.key))
        joined == FlattenSeq([i \in DOMAIN pieces |-> pieces[i].value])
        bytes  == PercentDecode(WithoutCharset(joined))
    IN  IF own = <<>> THEN Missing
        ELSE IF \A i \in DOMAIN own : Last(own[i].key) # Star THEN joined
        ELSE IF bytes = Panic THEN Panic ELSE Readable(bytes)

-----------------------------------------------------------------------------
(* The parts of a mail.                                                    *)

IfDecoded(data, body) == IF data = Undecodable THEN body ELSE data

DecodeBody(body, encoding) ==
    CASE Trim(encoding) = <<Base64>> -> IfDecoded(Decoded(body), body)
      [] Trim(encoding) = <<QuotedPrintable>> -> QpDecode(body, FALSE)
      [] OTHER -> body

SizeOf(clean) ==
    LET pads == Len(clean) - Len(Bare(clean))
        full == (Len(clean) \div 4) * 3 + (CASE Len(clean) % 4 = 2 -> 1 [] Len(clean) % 4 = 3 -> 2
                                             [] OTHER -> 0)
        size == full - (IF pads < 2 THEN pads ELSE 2)
    IN  IF size < 0 THEN 0 ELSE size

(* What an attachment is said to have, when it is not kept.                *)
DecodedSize(body, encoding) ==
    IF Trim(encoding) = <<Base64>> THEN SizeOf(Clean(body)) ELSE Len(DecodeBody(body, encoding))

NormalizeEol(text) ==
    SelectSeq([i \in DOMAIN text |->
                  IF text[i] # Cr THEN text[i]
                  ELSE IF i < Len(text) /\ text[i + 1] = Lf THEN -1 ELSE Lf], LAMBDA b : b # -1)

PushText(mail, bytes) ==
    LET text == NormalizeEol(Readable(bytes))
    IN  IF Trim(text) = <<>> THEN mail
        ELSE [mail EXCEPT !.text = IF @ = <<>> THEN text ELSE @ \o <<Lf>> \o text]

(* The lines that begin with the boundary, up to the one that closes.      *)
RECURSIVE Bounds(_, _, _)
Bounds(body, marker, from) ==
    LET LineStart(i) == i = 1 \/ body[i - 1] = Lf
        starts == {i \in from .. Len(body) : LineStart(i) /\ StartsWith(Rest(body, i), marker)}
        i      == CHOOSE s \in starts : \A t \in starts : s <= t
        after  == i + Len(marker)
        eol    == Find(body, <<Lf>>, after)
        end    == IF eol = 0 THEN Len(body) + 1 ELSE eol + 1
    IN  IF starts = {} THEN <<>>
        ELSE <<[start |-> i, end |-> end]>>
             \o IF StartsWith(Rest(body, after), <<Minus, Minus>>) THEN <<>> ELSE Bounds(body, marker, end)

(* (Slip: the line end before a boundary stays with the part.)             *)
SplitPartsWhole(body, boundary) ==
    LET bounds == Bounds(body, <<Minus, Minus>> \o boundary, 1)
        parts  == [k \in 1 .. Len(bounds) - 1 |-> SubSeq(body, bounds[k].end, bounds[k + 1].start - 1)]
    IN  SelectSeq(parts, LAMBDA p : p # <<>>)

(* The line end before a boundary belongs to the boundary.  (All lines end *)
(* with Crlf, as read_data has them.)                                      *)
SplitParts(body, boundary) ==
    LET bounds == Bounds(body, <<Minus, Minus>> \o boundary, 1)
        Ended(part) == TrimEol(IF IsSuffix(<<Lf>>, part) THEN SubSeq(part, 1, Len(part) - 1) ELSE part)
        parts  == [k \in 1 .. Len(bounds) - 1 |->
                      Ended(SubSeq(body, bounds[k].end, bounds[k + 1].start - 1))]
    IN  SelectSeq(parts, LAMBDA p : p # <<>>)

RECURSIVE Walk(_, _, _, _, _)

NameIn(disp, ct) == IF Param(disp, Filename) # Missing THEN Param(disp, Filename) ELSE Param(ct, Name)

AddAttachment(mail, attachment) ==
    IF Len(mail.attachments) = MaxAttachments THEN mail
    ELSE [mail EXCEPT !.attachments = Append(@, attachment)]

Place(part, mail, mime, attached, name, data) ==
    CASE attached \/ (name # Missing /\ mime \notin {<<Plain>>, <<Html>>}) ->
           AddAttachment(mail, [name |-> IF name = Missing THEN <<Attached>> ELSE DecodeWords(name),
                                data |-> data, size |-> DecodedSize(part.body, part.encoding)])
      [] ~ attached /\ mime = <<Html>> -> [mail EXCEPT !.html = @ \o NormalizeEol(Readable(data))]
      [] OTHER -> PushText(mail, data)

Panicked(mail) == [mail EXCEPT !.panicked = TRUE]

(* walk_part, of one that has no parts of its own.                         *)
Leaf(part, mail) ==
    LET ct   == ContentType(part.type)
        disp == ContentType(part.disposition)
        name == NameIn(disp, ct)
    IN  IF name = Panic THEN Panicked(mail)
        ELSE Place(part, mail, ct.mime, disp.mime = <<Attached>>, name, DecodeBody(part.body, part.encoding))

Part(split) ==
    [body |-> split.body, type |-> HeaderOf(split.headers, TypeOf),
     encoding |-> HeaderOf(split.headers, EncodingOf),
     disposition |-> HeaderOf(split.headers, DispositionOf)]

Descend(part, depth, mail) ==
    LET ct == ContentType(part.type)
        b  == Param(ct, Boundary)
    IN  IF mail.panicked THEN mail
        ELSE IF ct.mime = <<Multipart>> THEN Walk(part, depth, mail, SplitParts(part.body, b), b)
        ELSE Leaf(part, mail)

Walk(part, depth, mail, parts, boundary) ==
    CASE depth > MaxDepth -> mail
      [] depth <= MaxDepth /\ boundary = Panic -> Panicked(mail)
      [] depth <= MaxDepth /\ boundary # Panic /\ (boundary \in {Missing, <<>>} \/ parts = <<>>) ->
            PushText(mail, DecodeBody(part.body, part.encoding))
      [] OTHER ->
            FoldLeft(LAMBDA m, raw : Descend(Part(SplitHeaders(raw)), depth + 1, m), mail, parts)

-----------------------------------------------------------------------------
(* The text of a page.  Br stands for br, p, div, tr, li, h1 to h4 and     *)
(* table, Td for td and th, Script for script and style; Nbsp, LtSign and  *)
(* AndSign are written out with their ampersand and semicolon.             *)

Unescape(text) ==
    [i \in DOMAIN text |-> CASE text[i] = Nbsp -> Sp [] text[i] = LtSign -> Lt [] text[i] = AndSign -> And
                             [] OTHER -> text[i]]

InName(b) == b \in 48 .. 57 \cup 65 .. 90 \cup 97 .. 122 \cup {Br, Td, Script}

(* The name in a tag, that begins with Lt.                                 *)
TagName(tag) ==
    LET bare == Rest(tag, 1 + SelectInSeq(Append(Tail(tag), Gt), LAMBDA b : b # Slash))
    IN  SubSeq(bare, 1, SelectInSeq(Append(bare, Gt), LAMBDA b : ~ InName(b)) - 1)

(* A line or a cell begins, unless one just has.                           *)
Begin(out, mark, marks) == IF out = <<>> \/ Last(out) \in marks THEN out ELSE Append(out, mark)

(* The loop of html_to_text: what is between tags, and what tags put there.*)
RECURSIVE Shown(_, _)
Shown(html, out) ==
    IF html = <<>> THEN out
    ELSE IF Head(html) # Lt
    THEN Shown(Rest(html, Len(Before(html, <<Lt>>, 1)) + 1), out \o Unescape(Before(html, <<Lt>>, 1)))
    ELSE LET name  == TagName(Before(html, <<Gt>>, 2))
             after == After(html, <<Gt>>, 2)
             close == Find(after, <<Lt, Slash>> \o name, 1)
         IN  CASE name = <<Br>> -> Shown(after, Begin(out, Lf, {Lf}))
               [] name = <<Td>> -> Shown(after, Begin(out, Tab, {Lf, Tab}))
               [] name = <<Script>> /\ close # 0 -> Shown(After(after, <<Gt>>, close), out)
               [] OTHER -> Shown(after, out)

(* Of blank lines that follow on each other one is left.                   *)
HtmlToText(html) ==
    LET split == Split(Shown(html, <<>>), Lf)
        lines == [i \in DOMAIN split |-> TrimEnd(split[i]) \o <<Lf>>]
        IsBlank(i) == i # 0 /\ lines[i] = <<Lf>>
    IN  Trim(FlattenSeq([i \in DOMAIN lines |-> IF IsBlank(i) /\ IsBlank(i - 1) THEN <<>> ELSE lines[i]]))

(* A mail without a text has the text of its page.                         *)
WithText(mail) ==
    IF mail.panicked \/ Trim(mail.text) # <<>> THEN mail ELSE [mail EXCEPT !.text = HtmlToText(mail.html)]

(* Of a mail without parts, the disposition is not asked for.              *)
Parse(raw) ==
    LET split == SplitHeaders(raw)
        whole == [body |-> split.body, type |-> LastHeaderOf(split.headers, TypeOf),
                  encoding |-> LastHeaderOf(split.headers, EncodingOf), disposition |-> <<>>]
    IN  WithText(Descend(whole, 0, [subject |-> DecodeWords(LastHeaderOf(split.headers, Subject)),
                                    text |-> <<>>, html |-> <<>>, attachments |-> <<>>,
                                    panicked |-> FALSE]))

-----------------------------------------------------------------------------
(* What the properties ask.                                                *)

HasText(mail, body) == Trim(body) # <<>> => mail.text = NormalizeEol(body)

HasTitle(mail, title) ==
    LET plain == \A c \in ToSet(title) : c[1] \in 32 .. 126 \cup {Cr, Lf}
    IN  \/ mail.subject = FlattenSeq([i \in DOMAIN title |->
                              IF title[i] \in {<<Cr>>, <<Lf>>} THEN <<Sp>> ELSE title[i]])
        \/ plain /\ title[1][1] \in {Cr, Lf, Sp}
        \/ plain /\ Find(FlattenSeq(title), <<Eq, Qm>>, 1) # 0

(* A mail that stmp2log writes, sent through a server like its own, is     *)
(* read with the title and the text it was written with; but a title of    *)
(* plain letters loses blanks in front, and what looks like an encoded     *)
(* word is taken for one.                                                  *)
ReadsBack(title, body) ==
    \A message \in {Compose(title, body)} : Len(message) <= MaxSize =>
        \A mail \in {Parse(ReadData(OnTheWire(message)))} :
            HasText(mail, body) /\ HasTitle(mail, title)

(* A device's mail: a tree of parts.                                       *)
RECURSIVE Render(_)
Render(tree) ==
    IF "parts" \in DOMAIN tree
    THEN <<TypeOf, Colon, Sp, Multipart, Semi, Sp, Boundary, Eq, Quote>> \o tree.boundary \o <<Quote>>
         \o Crlf \o Crlf
         \o FlattenSeq([i \in DOMAIN tree.parts |->
                <<Minus, Minus>> \o tree.boundary \o Crlf \o Render(tree.parts[i]) \o Crlf])
         \o <<Minus, Minus>> \o tree.boundary \o <<Minus, Minus>> \o Crlf
    ELSE <<TypeOf, Colon, Sp, tree.mime>> \o Crlf
         \o (IF tree.name = <<>> THEN <<>>
             ELSE <<DispositionOf, Colon, Sp, Attached>> \o tree.name \o Crlf)
         \o <<EncodingOf, Colon, Sp, tree.encoding>> \o Crlf \o Crlf
         \o (IF tree.encoding = Base64 THEN Base64Lines(tree.data) ELSE tree.data)

(* Of a line that begins with a dot, it doubles the dot.                   *)
Stuffed(message) ==
    LET lines == Split(message, Lf)
    IN  Joined([i \in DOMAIN lines |-> (IF StartsWith(lines[i], <<Dot>>) THEN <<Dot>> ELSE <<>>) \o lines[i]],
               <<Lf>>)

RECURSIVE Leaves(_)
Leaves(tree) ==
    IF "parts" \notin DOMAIN tree THEN <<tree>>
    ELSE FlattenSeq([i \in DOMAIN tree.parts |-> Leaves(tree.parts[i])])

RECURSIVE BoundariesOf(_)
BoundariesOf(tree) ==
    IF "parts" \notin DOMAIN tree THEN {}
    ELSE {tree.boundary} \cup UNION {BoundariesOf(p) : p \in ToSet(tree.parts)}

RECURSIVE DepthOf(_)
DepthOf(tree) ==
    IF "parts" \notin DOMAIN tree THEN 0
    ELSE 1 + LET depths == {DepthOf(p) : p \in ToSet(tree.parts)}
             IN  CHOOSE d \in depths : \A e \in depths : e <= d

(* What blanks and line ends part.                                         *)
Words(text) ==
    SelectSeq(Split([i \in DOMAIN text |-> IF text[i] \in Blanks THEN Sp ELSE text[i]], Sp), LAMBDA w : w # <<>>)

(* A percent sign, a letter and a wide character.                          *)
CutsACharacter(name) == \E i \in 1 .. Len(name) - 3 : name[i] = Percent /\ name[i + 3] \in 128 .. 191

(* The words that a page shows are the text of a mail that has no other.   *)
HasParts(mail, leaves) ==
    LET Of(mime) == SelectSeq(leaves, LAMBDA l : l.mime = mime /\ l.name = <<>>)
        Data(few) == [i \in DOMAIN few |-> few[i].data]
        texts     == SelectSeq(Of(Plain), LAMBDA l : Trim(l.data) # <<>>)
        attached  == SelectSeq(leaves, LAMBDA l : l.name # <<>>)
    IN  /\ IF texts # <<>> THEN mail.text = NormalizeEol(Joined(Data(texts), <<Lf>>))
           ELSE /\ Words(mail.text) = FlattenSeq([i \in DOMAIN Of(Html) |-> Of(Html)[i].words])
                /\ mail.text = Trim(mail.text)
        /\ mail.html = FlattenSeq(Data(Of(Html)))
        /\ Len(mail.attachments) = (IF Len(attached) < MaxAttachments
                                    THEN Len(attached) ELSE MaxAttachments)
        /\ \A i \in DOMAIN mail.attachments :
              /\ mail.attachments[i].data = attached[i].data
              /\ mail.attachments[i].size = Len(attached[i].data)
              /\ mail.attachments[i].name = attached[i].called

(* Every part of a device's mail is found, as it was and in its place: the *)
(* texts, the pages, and the attachments up to the limit.  (Not so if one  *)
(* boundary is the beginning of another, or the parts are nested too deep; *)
(* and the program panics over a name in which a percent sign is followed  *)
(* by a letter and a wide character, and over no other.)                   *)
PartsAreFound(tree) ==
    \A taken \in {ReadData(OnTheWire(Stuffed(Render(tree) \o Crlf)))} :
        \/ taken = TooBig
        \/ DepthOf(tree) > MaxDepth + 1
        \/ \E a, b \in BoundariesOf(tree) : a # b /\ StartsWith(a, b)
        \/ \A mail \in {Parse(taken)} :
              IF \E l \in ToSet(Leaves(tree)) : CutsACharacter(l.name) THEN mail.panicked
              ELSE ~ mail.panicked /\ HasParts(mail, Leaves(tree))

(* The size an attachment is listed with is the size it has, whenever its  *)
(* base64 can be decoded.                                                  *)
SizeIsRight(letters) ==
    Decoded(letters) = Undecodable \/ DecodedSize(letters, <<Base64>>) = Len(Decoded(letters))
=============================================================================
