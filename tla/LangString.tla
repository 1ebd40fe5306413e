------------------------------ MODULE LangString ------------------------------
\* String of src/include/pa_string.h: letters and, apart from them, the language each is to
\* be untainted with. While all letters have one language it is kept alone, without a length;
\* a cord of languages, as long as the letters, replaces it when another comes. Letters are
\* bytes, a zero ends them; characters of UTF-8 are counted over them (pa_charset.C).
\* Cords are sequences; what they share is left out.
EXTENDS Integers, Sequences, SequencesExt

CONSTANTS Parts,      \* strings of bytes that are appended
          Langs,      \* languages of what is appended
          Other,      \* strings that are appended
          Dictionary, \* dictionaries, sequences of [from, to]; a to is a string
          Blanks,     \* strings of characters that are trimmed
          Delimiter,  \* strings of one letter that are looked for
          MaxLength

VARIABLES string,  \* [body, langs]
          letters  \* what it stands for: a sequence of [byte, lang]

L_UNSPECIFIED == 0
L_CLEAN == 48
L_AS_IS == 65
L_TAINTED == 84
L_HTML == 72
L_OPTIMIZE_BIT == 128
optimizing(lang) == lang >= L_OPTIMIZE_BIT

Just(lang) == [just |-> TRUE, of |-> <<lang>>]
Cord(langs) == [just |-> FALSE, of |-> langs]
NoLangs == Just(L_UNSPECIFIED)
Empty == [body |-> <<>>, langs |-> NoLangs]
Chars(lang, n) == [i \in 1..n |-> lang]
Least(a, b) == IF a < b THEN a ELSE b
Most(a, b) == IF a > b THEN a ELSE b
\* CORD_substr, places are counted from zero and lengths are cut
Substr(cord, from, n) == SubSeq(cord, from + 1, Least(from + n, Len(cord)))

\* Languages
make_langs(langs, from, n) == IF langs.just THEN Chars(langs.of[1], n) ELSE Substr(langs.of, from, n)
append_cord(langs, current, cord) == Cord((IF langs.just THEN Chars(langs.of[1], current) ELSE langs.of) \o cord)
append_lang(langs, current, lang, n) ==
    IF langs.just /\ langs.of[1] = lang THEN langs
    ELSE IF langs = NoLangs THEN Just(lang)
    ELSE append_cord(langs, current, Chars(lang, n))
append_langs(langs, current, src, n) ==
    IF langs = NoLangs THEN src
    ELSE IF src.just THEN append_lang(langs, current, src.of[1], n)
    ELSE append_cord(langs, current, src.of)
append_part(langs, current, src, from, n) ==
    IF langs = NoLangs THEN IF src.just THEN src ELSE Cord(Substr(src.of, from, n))
    ELSE IF langs.just /\ src = langs THEN langs
    ELSE append_cord(langs, current, make_langs(src, from, n))
\* A char of a cord has a sign
Signed(lang) == IF lang > 127 THEN lang - 256 ELSE lang
check_lang(langs, lang, from, n) ==
    \/ lang = L_UNSPECIFIED
    \/ langs.just /\ langs.of[1] <= lang
    \/ ~langs.just /\ \A i \in from + 1..Least(from + n, Len(langs.of)) : Signed(langs.of[i]) <= lang
\* CORD_block_iter: runs of one language
Blocks(cord) ==
    LET Starts == {i \in DOMAIN cord : i = 1 \/ cord[i - 1] # cord[i]}
        End(i) == CHOOSE j \in i..Len(cord) : (j = Len(cord) \/ j + 1 \in Starts) /\ \A k \in i + 1..j : k \notin Starts
    IN  [k \in 1..Cardinality(Starts) |->
            LET i == CHOOSE x \in Starts : Cardinality({y \in Starts : y < x}) = k - 1
            IN  [lang |-> cord[i], n |-> End(i) - i + 1]]
for_each(langs, current) == IF langs.just THEN <<[lang |-> langs.of[1], n |-> current]>> ELSE Blocks(langs.of)
-----------------------------------------------------------------------------
\* First the languages, they look at the letters so far; then the letters
\* Mutant: the letters come first
append_know_length_wrong(s, str, lang) ==
    IF str = <<>> THEN s
    ELSE [body |-> s.body \o str, langs |-> append_lang(s.langs, Len(s.body) + Len(str), lang, Len(str))]
append_know_length(s, str, lang) ==
    IF str = <<>> THEN s
    ELSE [body |-> s.body \o str, langs |-> append_lang(s.langs, Len(s.body), lang, Len(str))]

append_to(src, dest) ==
    IF src.body = <<>> THEN dest
    ELSE [body |-> dest.body \o src.body, langs |-> append_langs(dest.langs, Len(dest.body), src.langs, Len(src.body))]

\* Tainted pieces get the language; when it optimizes, clean ones get its bit
append_fragment(lang, ilang) ==
    IF lang = L_TAINTED THEN ilang
    ELSE IF optimizing(ilang) /\ lang = L_CLEAN THEN L_CLEAN + L_OPTIMIZE_BIT
    ELSE lang
RECURSIVE append_fragments(_, _, _)
append_fragments(langs, current, fragments) ==
    LET f == Head(fragments)
    IN  IF fragments = <<>> THEN langs
        ELSE append_fragments(append_lang(langs, current, f.lang, f.n), current + f.n, Tail(fragments))
append_to_lang(src, dest, ilang, forced) ==
    LET n == Len(src.body)
        current == Len(dest.body)
        fragments == for_each(src.langs, n)
        untainted == [i \in DOMAIN fragments |-> [fragments[i] EXCEPT !.lang = append_fragment(@, ilang)]]
    IN  IF src.body = <<>> THEN dest
        ELSE [body |-> dest.body \o src.body,
              langs |-> IF forced THEN append_lang(dest.langs, current, ilang, n)
                        ELSE append_fragments(dest.langs, current, untainted)]

part(s, from, n) ==
    IF n = 0 THEN Empty
    ELSE [body |-> Substr(s.body, from, n), langs |-> append_part(NoLangs, 0, s.langs, from, n)]
mid(s, begin, end) ==
    LET from == Least(begin, Len(s.body))
        to == Least(Most(end, from), Len(s.body))
    IN  part(s, from, to - from)

\* Characters: what the first byte says, whatever follows; the last one may be cut off
TrailingBytes(byte) == IF byte < 192 THEN 0 ELSE IF byte < 224 THEN 1 ELSE 2
lengthUTF8Char(byte) == TrailingBytes(byte) + 1
Skips(str, pos) == pos < Len(str)
skipUTF8Char(str, pos) == IF Skips(str, pos) THEN pos + lengthUTF8Char(str[pos + 1]) ELSE pos
getUTF8BytePos(str, from, chars) ==
    LET p[k \in 0..chars] == IF k = 0 THEN from ELSE skipUTF8Char(str, p[k - 1]) IN p[chars] - from
lengthUTF8(str) == CHOOSE k \in 0..Len(str) :
    /\ ~Skips(str, getUTF8BytePos(str, 0, k))
    /\ \A j \in 0..k - 1 : Skips(str, getUTF8BytePos(str, 0, j))
getUTF8CharPos(str, pos) == CHOOSE k \in 0..Len(str) :
    /\ getUTF8BytePos(str, 0, k + 1) > pos
    /\ \A j \in 0..k - 1 : getUTF8BytePos(str, 0, j + 1) <= pos

mid_UTF8(s, from, to) ==
    LET first == Least(from, to)
        begin == getUTF8BytePos(s.body, 0, first)
        n == getUTF8BytePos(s.body, begin, to - first)
    IN  IF to = first \/ n = 0 THEN Empty ELSE part(s, begin, n)

\* A step back over one character
Continues(byte) == byte \in 128..191
BackChar(str, ptr) ==
    LET lead == CHOOSE i \in 0..ptr - 1 :
                    /\ \A j \in i + 1..ptr - 1 : Continues(str[j + 1])
                    /\ i = 0 \/ ~Continues(str[i + 1]) \/ ptr - i >= 6
                    /\ ptr - i <= 6
        expected == lengthUTF8Char(str[lead + 1])
        present == ptr - lead
    IN  IF expected = present \/ (expected > present /\ ptr = Len(str)) THEN lead ELSE ptr - 1
right_UTF8(s, n) ==
    LET p[k \in 0..n] == IF k = 0 THEN Len(s.body) ELSE IF p[k - 1] = 0 THEN 0 ELSE BackChar(s.body, p[k - 1])
    IN  IF p[n] = 0 THEN s ELSE mid(s, p[n], Len(s.body))
-----------------------------------------------------------------------------
\* Positions, -1 when not found
At(str, sub, i) == i + Len(sub) <= Len(str) /\ SubSeq(str, i + 1, i + Len(sub)) = sub
Found(found) == IF found = {} THEN -1 ELSE CHOOSE i \in found : \A j \in found : i <= j
body_pos(str, sub, from) == IF sub = <<>> THEN -1 ELSE Found({i \in from..Len(str) : At(str, sub, i)})
\* A place in another language is passed with all its letters
RECURSIVE pos(_, _, _, _)
pos(s, sub, from, lang) ==
    LET i == body_pos(s.body, sub, from)
    IN  IF i = -1 \/ check_lang(s.langs, lang, i, Len(sub)) THEN i ELSE pos(s, sub, i + Len(sub), lang)
pos_UTF8(s, sub, chars, lang) ==
    LET i == pos(s, sub, getUTF8BytePos(s.body, 0, chars), lang) IN IF i = -1 THEN -1 ELSE getUTF8CharPos(s.body, i)

RECURSIVE split(_, _, _, _)
split(s, after, delim, lang) ==
    LET before == pos(s, delim, after, lang)
    IN  IF s.body = <<>> THEN <<>>
        ELSE IF delim = <<>> THEN <<s>>
        ELSE IF before # -1 THEN <<mid(s, after, before)>> \o split(s, before + Len(delim), delim, lang)
        ELSE IF after < Len(s.body) THEN <<mid(s, after, Len(s.body))>> ELSE <<>>

\* The pieces between what is replaced keep their languages
first_that_begins(dict, str, i) ==
    LET those == {k \in DOMAIN dict : At(str, dict[k].from, i)}
    IN  IF those = {} THEN 0 ELSE CHOOSE k \in those : \A j \in those : k <= j
append_piece(result, s, from, n) ==
    IF n = 0 THEN result
    ELSE [body |-> result.body \o Substr(s.body, from, n), langs |-> append_part(result.langs, Len(result.body), s.langs, from, n)]
RECURSIVE Replaced(_, _, _, _, _)
Replaced(s, dict, prematch, current, result) ==
    LET k == first_that_begins(dict, s.body, current)
        next == current + Len(dict[k].from)
    IN  IF current >= Len(s.body)
        THEN IF prematch = 0 THEN s ELSE append_piece(result, s, prematch, Len(s.body) - prematch)
        ELSE IF k = 0 THEN Replaced(s, dict, prematch, current + 1, result)
        ELSE Replaced(s, dict, next, next, append_to(dict[k].to, append_piece(result, s, prematch, current - prematch)))
replace(s, dict) == IF dict = <<>> \/ s.body = <<>> THEN s ELSE Replaced(s, dict, 0, 0, Empty)

\* trim: places of the first letter kept and after the last; with characters of several
\* bytes among those trimmed the string is walked character by character
Among(chars, str) == \E i \in 0..Len(chars) : At(chars, str, i) /\ str # <<>>
Slow(chars) == \E i \in DOMAIN chars : chars[i] > 127
RECURSIVE TrimLeft(_, _, _)
TrimLeft(str, chars, start) ==
    LET next == IF ~Slow(chars) THEN start + 1
                ELSE CHOOSE i \in start + 1..Len(str) : (i = Len(str) \/ ~Continues(str[i + 1])) /\ \A j \in start + 1..i - 1 : Continues(str[j + 1])
    IN  IF start < Len(str) /\ Among(chars, SubSeq(str, start + 1, next)) THEN TrimLeft(str, chars, next) ELSE start
RECURSIVE TrimRight(_, _, _, _)
TrimRight(str, chars, left, end) ==
    LET prev == IF ~Slow(chars) THEN end - 1
                ELSE CHOOSE i \in left..end - 1 : (i = left \/ ~Continues(str[i + 1])) /\ \A j \in i + 1..end - 1 : Continues(str[j + 1])
    IN  IF end > left /\ Among(chars, SubSeq(str, prev + 1, end)) THEN TrimRight(str, chars, left, prev) ELSE end
trim(s, kind, chars) ==
    LET start == IF kind = "end" THEN 0 ELSE TrimLeft(s.body, chars, 0)
        end == IF kind = "start" THEN Len(s.body) ELSE TrimRight(s.body, chars, IF Slow(chars) THEN start ELSE 0, Len(s.body))
    IN  IF s.body = <<>> \/ (start = 0 /\ end = Len(s.body)) THEN s
        ELSE IF start = Len(s.body) \/ end = 0 THEN Empty
        ELSE part(s, start, end - start)

change_char(s, from, to) ==
    IF s.body = <<>> THEN Empty ELSE [s EXCEPT !.body = [i \in DOMAIN @ |-> IF @[i] = from THEN to ELSE @[i]]]

\* What is written to a file and read from it
serialize(s) == [body |-> s.body, fragments |-> IF s.langs = NoLangs THEN <<>> ELSE for_each(s.langs, Len(s.body))]
deserialize(file) ==
    [body |-> file.body, langs |-> append_fragments(NoLangs, 0, file.fragments)]
-----------------------------------------------------------------------------
\* Letters one by one
Tagged(str, lang) == [i \in DOMAIN str |-> [byte |-> str[i], lang |-> lang]]
Letters(s) ==
    [i \in DOMAIN s.body |-> [byte |-> s.body[i], lang |-> IF s.langs.just THEN s.langs.of[1] ELSE s.langs.of[i]]]
Retag(tagged, ilang, forced) ==
    [i \in DOMAIN tagged |-> [tagged[i] EXCEPT !.lang = IF forced THEN ilang ELSE append_fragment(@, ilang)]]
Bytes(tagged) == [i \in DOMAIN tagged |-> tagged[i].byte]
\* Places where characters begin, and the end
Begins(tagged) == {0, Len(tagged)} \cup {i \in 1..Len(tagged) - 1 : ~Continues(tagged[i + 1].byte)}
Nth(set, n) == CHOOSE i \in set : Cardinality({j \in set : j < i}) = n
Characters(tagged, from, to) ==
    LET begins == Begins(tagged)
        last == Cardinality(begins) - 1
    IN  SubSeq(tagged, Nth(begins, Least(from, last)) + 1, Nth(begins, Least(to, last)))
RECURSIVE Rewritten(_, _)
Rewritten(tagged, dict) ==
    LET k == first_that_begins(dict, Bytes(tagged), 0)
    IN  IF tagged = <<>> THEN <<>>
        ELSE IF k = 0 THEN <<Head(tagged)>> \o Rewritten(Tail(tagged), dict)
        ELSE Letters(dict[k].to) \o Rewritten(SubSeq(tagged, Len(dict[k].from) + 1, Len(tagged)), dict)
\* Characters of several bytes among those trimmed are trimmed whole
Trims(tagged, i, chars) ==
    LET begins == Begins(tagged)
        b == CHOOSE b \in begins : b < i /\ \A c \in begins : c < i => c <= b
        e == CHOOSE e \in begins : e >= i /\ \A c \in begins : c >= i => c >= e
    IN  Among(chars, Bytes(SubSeq(tagged, b + 1, e)))
Trimmed(tagged, kind, chars) ==
    LET keep == {i \in DOMAIN tagged : ~Trims(tagged, i, chars)}
        first == IF kind = "end" THEN 1 ELSE CHOOSE i \in keep : \A j \in keep : i <= j
        last == IF kind = "start" THEN Len(tagged) ELSE CHOOSE i \in keep : \A j \in keep : i >= j
    IN  IF keep = {} THEN <<>> ELSE SubSeq(tagged, first, last)

Init == string = Empty /\ letters = <<>>

Fits(s) == Len(s.body) <= MaxLength
AppendPiece(str, lang) ==
    /\ string' = append_know_length(string, str, lang)
    /\ letters' = letters \o Tagged(str, lang)
AppendString(other) ==
    /\ string' = append_to(other, string)
    /\ letters' = letters \o Letters(other)
\* The string is untainted into another one
Untaint(dest, ilang, forced) ==
    /\ string' = append_to_lang(string, dest, ilang, forced)
    /\ letters' = Letters(dest) \o Retag(letters, ilang, forced)
Mid(from, to) ==
    /\ string' = mid_UTF8(string, from, to)
    /\ letters' = Characters(letters, from, to)
Replace(dict) ==
    /\ string' = replace(string, dict)
    /\ letters' = Rewritten(letters, dict)
Trim(kind, chars) ==
    /\ string' = trim(string, kind, chars)
    /\ letters' = Trimmed(letters, kind, chars)
ChangeChar(from, to) ==
    /\ string' = change_char(string, from, to)
    /\ letters' = [i \in DOMAIN letters |-> [letters[i] EXCEPT !.byte = IF @ = from THEN to ELSE @]]
Reload ==
    /\ string' = deserialize(serialize(string))
    /\ UNCHANGED letters

Next ==
    /\ \/ \E str \in Parts, lang \in Langs : AppendPiece(str, lang)
       \/ \E other \in Other \cup {string} : AppendString(other)
       \/ \E dest \in Other \cup {Empty}, ilang \in Langs, forced \in BOOLEAN : Untaint(dest, ilang, forced)
       \/ \E from, to \in 0..MaxLength : from <= to /\ Mid(from, to)
       \/ \E dict \in Dictionary : Replace(dict)
       \/ \E kind \in {"both", "start", "end"}, chars \in Blanks : Trim(kind, chars)
       \/ \E from, to \in {str[1] : str \in Delimiter} : ChangeChar(from, to)
       \/ Reload
    /\ Fits(string')
-----------------------------------------------------------------------------
\* Each letter keeps the language it came with
LangsKept ==
    /\ Letters(string) = letters
    /\ string.langs.just \/ Len(string.langs.of) = Len(string.body)

\* Splitting by a clean delimiter cuts at each clean one and at no other, and loses nothing.
\* Languages that optimize are out: in a cord their sign makes them less than the clean one
Cuts(delim, lang) == {i \in DOMAIN letters : letters[i].byte = delim[1] /\ letters[i].lang <= lang}
SplitWhole == (\A i \in DOMAIN letters : ~optimizing(letters[i].lang)) => \A delim \in Delimiter, lang \in {L_CLEAN, L_AS_IS} :
    LET cuts == Cuts(delim, lang)
        pieces == split(string, 0, delim, lang)
        Begin(k) == IF k = 1 THEN 1 ELSE Nth(cuts, k - 2) + 1
        End(k) == IF k <= Cardinality(cuts) THEN Nth(cuts, k - 1) - 1 ELSE Len(letters)
        last == Cardinality(cuts) + IF Len(letters) \in cuts \/ letters = <<>> THEN 0 ELSE 1
    IN  /\ Len(pieces) = last
        /\ \A k \in DOMAIN pieces : Letters(pieces[k]) = SubSeq(letters, Begin(k), End(k))

\* A tail of n characters is n characters long and is the end of the string
RightCounts == \A n \in 0..MaxLength :
    LET length == lengthUTF8(string.body)
        right == right_UTF8(string, n)
    IN  /\ lengthUTF8(right.body) = Least(n, length)
        /\ Letters(right) = Characters(letters, length - Least(n, length), length)
        /\ lengthUTF8(string.body) = Cardinality(Begins(letters)) - 1

\* What pos returns is the place where mid begins
PosIsPlace == \A sub \in Delimiter, from \in 0..MaxLength :
    LET at == pos_UTF8(string, sub, from, L_UNSPECIFIED)
    IN  IF at = -1 THEN \A i \in from..lengthUTF8(string.body) : mid_UTF8(string, i, i + 1).body # sub
        ELSE mid_UTF8(string, at, at + 1).body = sub /\ \A i \in from..at - 1 : mid_UTF8(string, i, i + 1).body # sub

Strings == LangsKept /\ SplitWhole /\ RightCounts /\ PosIsPlace
=============================================================================
