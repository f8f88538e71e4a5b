-------------------------------- MODULE Json --------------------------------
(***************************************************************************)
(* The JSON values of the configuration files: a client puts members and   *)
(* items into one, it is written out as text, the text may be edited by    *)
(* hand, and the recursive parser reads it.  A text is a sequence of       *)
(* characters; "null", and what setprecision leaves of a long number, count *)
(* as one.  Left out: true and false, which are read like null; blanks     *)
(* between the signs; the sign, point and exponent of a number.            *)
(***************************************************************************)
EXTENDS Integers, Sequences, FiniteSets, SequencesExt, TLC

CONSTANTS
  Members,          \* the names of members
  Indices,          \* the positions of items
  MaxEdits,         \* bound: edits of the value
  MaxDamage,        \* bound: edits of the text
  MaxLength         \* bound: the characters of a text that is edited by hand

VARIABLES value, text, edits, damage

jsonVars == <<value, text, edits, damage>>

Null == [type |-> "null"]
Number(digits) == [type |-> "number", number |-> digits]
String(s) == [type |-> "string", string |-> s]
Arr(items) == [type |-> "array", items |-> items]
Object(entries) == [type |-> "object", entries |-> entries]

\* A number of one digit, one that needs more than 15, and one without digits;
\* and strings with what has to be escaped.
Scalars ==
  {Number(d) : d \in {<<"1">>, <<"long">>, <<"inf">>}}
    \cup {String(<<"quote", "newline", "backslash", "tab">>),
          String(<<"SOH", "return", "backspace", "formfeed">>), String(<<"DLE">>)}

(***************************************************************************)
(* operator[]: what is no object or array becomes one                      *)
(***************************************************************************)
RECURSIVE Edited(_, _, _)

EditedMember(v, name, rest, new) ==
  LET old == IF v.type = "object" THEN v.entries ELSE [m \in {} |-> Null]
  IN Object([m \in DOMAIN old \cup {name} |->
       IF m # name THEN old[m]
       ELSE Edited(IF name \in DOMAIN old THEN old[name] ELSE Null, rest, new)])

EditedItem(v, index, rest, new) ==
  LET old == IF v.type = "array" THEN v.items ELSE <<>>
      item(i) == IF i <= Len(old) THEN old[i] ELSE Null
      size == IF index > Len(old) THEN index ELSE Len(old)
  IN Arr([i \in 1..size |-> IF i = index THEN Edited(item(i), rest, new) ELSE item(i)])

\* v after an assignment to v[path[1]][path[2]]...
Edited(v, path, new) ==
  IF path = <<>> THEN new
  ELSE IF path[1].at = "member" THEN EditedMember(v, path[1].name, Tail(path), new)
  ELSE EditedItem(v, path[1].index, Tail(path), new)

Places == [at : {"member"}, name : {<<m>> : m \in Members}] \cup [at : {"item"}, index : Indices]
Routes == {<<>>} \cup {<<p>> : p \in Places} \cup {<<p, q>> : p \in Places, q \in Places}

(***************************************************************************)
(* stringify                                                               *)
(***************************************************************************)
\* What has an escape of its own, and the digits of two other controls.
Short ==
  [quote |-> "quote", backslash |-> "backslash", backspace |-> "b", formfeed |-> "f",
   newline |-> "n", return |-> "r", tab |-> "t"]
Hex == [SOH |-> <<"0", "1">>, DLE |-> <<"1", "0">>]

EscapeOf(c) ==
  CASE c \in DOMAIN Short -> <<"backslash", Short[c]>>
    [] c \in DOMAIN Hex -> <<"backslash", "u", "0", "0">> \o Hex[c]
    [] OTHER -> <<c>>

(* Mutant of escapeString: backslashes stay as they are.                    *)
EscapeNoBackslash(s) ==
  FlattenSeq([i \in DOMAIN s |-> IF s[i] = "backslash" THEN <<s[i]>> ELSE EscapeOf(s[i])])

escapeString(s) == FlattenSeq([i \in DOMAIN s |-> EscapeOf(s[i])])

Quoted(s) == <<"quote">> \o escapeString(s) \o <<"quote">>

\* setprecision(15): a longer number is written as the nearest with 15 digits.
Numeral(digits) == IF digits = <<"long">> THEN <<"rounded">> ELSE digits

RECURSIVE Texts(_)

Joined(parts) ==
  FlattenSeq([i \in DOMAIN parts |-> IF i = 1 THEN parts[i] ELSE <<",">> \o parts[i]])

\* The members are written in the order of a hash table, which is any.
Texts(v) ==
  CASE v.type = "null" -> {<<"null">>}
    [] v.type = "number" -> {Numeral(v.number)}
    [] v.type = "string" -> {Quoted(v.string)}
    [] v.type = "array" ->
         {<<"[">> \o Joined(parts) \o <<"]">> :
            parts \in {p \in [DOMAIN v.items -> UNION {Texts(v.items[i]) : i \in DOMAIN v.items}] :
                         \A i \in DOMAIN v.items : p[i] \in Texts(v.items[i])}}
    [] v.type = "object" ->
         {<<"{">> \o Joined([i \in DOMAIN order |->
              Quoted(order[i]) \o <<":">> \o (CHOOSE t \in Texts(v.entries[order[i]]) : TRUE)])
            \o <<"}">> : order \in SetToSeqs(DOMAIN v.entries)}

(***************************************************************************)
(* The parser                                                              *)
(***************************************************************************)
Failed == [ok |-> FALSE]
Read(v, next) == [ok |-> TRUE, value |-> v, next |-> next]

Is(pos, c) == pos <= Len(text) /\ text[pos] = c

Digits == {"0", "1", "rounded"}

\* The first of the characters of s that are no hexadecimal digits, or the end.
Damaged(s) == CHOOSE n \in 1..Len(s) + 1 :
  /\ n <= Len(s) => s[n] \notin {"0", "1"}
  /\ \A i \in 1..n - 1 : s[i] \in {"0", "1"}

\* strtol stops at a character that is no digit, and nobody asks where it did.
strtol(s) ==
  FoldLeft(LAMBDA n, d : 16 * n + (IF d = "1" THEN 1 ELSE 0), 0, SubSeq(s, 1, Damaged(s) - 1))

\* The character with a code; those beyond the controls are not told apart.
Point(code) ==
  CASE code = 0 -> "NUL" [] code = 1 -> "SOH" [] code = 16 -> "DLE" [] OTHER -> "other"

Unescaped ==
  [quote |-> "quote", backslash |-> "backslash", b |-> "backspace", f |-> "formfeed",
   n |-> "newline", r |-> "return", t |-> "tab"] @@ "/" :> "/"

RECURSIVE parseString(_, _)

\* The rest of a string from pos on, after the characters in out.
parseString(pos, out) ==
  CASE pos > Len(text) -> Failed
    [] Is(pos, "quote") -> Read(out, pos + 1)
    [] ~Is(pos, "quote") /\ ~Is(pos, "backslash") -> parseString(pos + 1, Append(out, text[pos]))
    [] Is(pos, "backslash") /\ pos < Len(text) /\ text[pos + 1] \in DOMAIN Unescaped ->
         parseString(pos + 2, Append(out, Unescaped[text[pos + 1]]))
    [] Is(pos, "backslash") /\ Is(pos + 1, "u") /\ pos + 5 <= Len(text) ->
         parseString(pos + 6, Append(out, Point(strtol(SubSeq(text, pos + 2, pos + 5)))))
    [] OTHER -> Failed

\* The number that digits stand for: zeros before the others count for nothing.
NumberOf(digits) ==
  LET k == CHOOSE k \in DOMAIN digits :
             /\ k < Len(digits) => digits[k] # "0"
             /\ \A i \in 1..k - 1 : digits[i] = "0"
  IN Number(SubSeq(digits, k, Len(digits)))

\* All the digits that follow; no zero at the front is refused.
parseNumber(pos) ==
  LET next == CHOOSE n \in pos + 1..Len(text) + 1 :
                /\ n <= Len(text) => text[n] \notin Digits
                /\ \A i \in pos..n - 1 : text[i] \in Digits
  IN Read(NumberOf(SubSeq(text, pos, next - 1)), next)

RECURSIVE parseValue(_)
RECURSIVE parseObject(_, _)
RECURSIVE parseArray(_, _)

\* The first of two members with one name stays.
parseObject(pos, entries) ==
  LET key == IF Is(pos, "quote") THEN parseString(pos + 1, <<>>) ELSE Failed
      member == IF key.ok /\ Is(key.next, ":") THEN parseValue(key.next + 1) ELSE Failed
      next == IF key.value \in DOMAIN entries THEN entries
              ELSE [m \in DOMAIN entries \cup {key.value} |->
                      IF m = key.value THEN member.value ELSE entries[m]]
  IN CASE ~member.ok -> Failed
       [] member.ok /\ Is(member.next, "}") -> Read(Object(next), member.next + 1)
       [] member.ok /\ Is(member.next, ",") -> parseObject(member.next + 1, next)
       [] OTHER -> Failed

parseArray(pos, items) ==
  LET item == parseValue(pos)
  IN CASE ~item.ok -> Failed
       [] item.ok /\ Is(item.next, "]") -> Read(Arr(Append(items, item.value)), item.next + 1)
       [] item.ok /\ Is(item.next, ",") -> parseArray(item.next + 1, Append(items, item.value))
       [] OTHER -> Failed

parseValue(pos) ==
  CASE pos > Len(text) -> Failed
    [] Is(pos, "quote") ->
         LET s == parseString(pos + 1, <<>>) IN IF s.ok THEN Read(String(s.value), s.next) ELSE Failed
    [] Is(pos, "{") ->
         IF Is(pos + 1, "}") THEN Read(Object([m \in {} |-> Null]), pos + 2)
         ELSE parseObject(pos + 1, [m \in {} |-> Null])
    [] Is(pos, "[") -> IF Is(pos + 1, "]") THEN Read(Arr(<<>>), pos + 2) ELSE parseArray(pos + 1, <<>>)
    [] Is(pos, "null") -> Read(Null, pos + 1)
    [] pos <= Len(text) /\ text[pos] \in Digits -> parseNumber(pos)
    [] OTHER -> Failed

parse == LET v == parseValue(1) IN IF v.ok /\ v.next = Len(text) + 1 THEN v ELSE Failed

(***************************************************************************)
(* The value is built, written and edited by hand.                         *)
(***************************************************************************)
Init == value = Null /\ text \in Texts(Null) /\ edits = 0 /\ damage = 0

Edit ==
  /\ edits < MaxEdits /\ damage = 0 /\ edits' = edits + 1
  /\ \E path \in Routes, new \in Scalars : value' = Edited(value, path, new)
  /\ text' \in Texts(value')
  /\ UNCHANGED damage

\* What is typed into a text: every sign of the grammar, a letter of an escape,
\* a digit, a tab, and a name.
Typed == {"{", "}", "[", "]", ",", ":", "quote", "backslash", "u", "0", "tab", "null"} \cup Members

Damage ==
  /\ damage < MaxDamage /\ Len(text) <= MaxLength /\ damage' = damage + 1
  /\ \E i \in DOMAIN text :
       \/ text' = RemoveAt(text, i)
       \/ \E c \in Typed : text' = ReplaceAt(text, i, c) \/ text' = InsertAt(text, i, c)
  /\ UNCHANGED <<value, edits>>

Next == Edit \/ Damage

Spec == Init /\ [][Next]_jsonVars

-----------------------------------------------------------------------------
(***************************************************************************)
(* What a text stands for by RFC 8259, apart from the code: one meaning, or *)
(* none.  A reader that is not strict takes a control character in a        *)
(* string, four characters after \u of which some are no digits, and a      *)
(* number with zeros before its digits.                                     *)
(***************************************************************************)
Escaped ==
  {<<"quote", "quote">>, <<"backslash", "backslash">>, <<"/", "/">>, <<"b", "backspace">>,
   <<"f", "formfeed">>, <<"n", "newline">>, <<"r", "return">>, <<"t", "tab">>}
ControlCharacters == {"NUL", "SOH", "DLE", "backspace", "formfeed", "newline", "return", "tab"}

RECURSIVE Bodies(_, _)

\* The strings that the characters between two quotes stand for.
Bodies(s, strict) ==
  LET after(n) == Bodies(SubSeq(s, n + 1, Len(s)), strict)
      plain == {<<s[1]>> \o u : u \in after(1)}
      short == {<<e[2]>> \o u : e \in {e \in Escaped : e[1] = s[2]}, u \in after(2)}
      digits == SubSeq(s, 3, 6)
      coded == {<<Point(strtol(digits))>> \o u : u \in after(6)}
  IN CASE s = <<>> -> {<<>>}
       [] s # <<>> /\ s[1] \notin {"quote", "backslash"} ->
            IF strict /\ s[1] \in ControlCharacters THEN {} ELSE plain
       [] Len(s) > 1 /\ s[1] = "backslash" /\ s[2] # "u" -> short
       [] Len(s) > 5 /\ s[1] = "backslash" /\ s[2] = "u" ->
            IF strict /\ Damaged(digits) # 5 THEN {} ELSE coded
       [] OTHER -> {}

IsString(s) == Len(s) > 1 /\ s[1] = "quote" /\ s[Len(s)] = "quote"
StringsOf(s, strict) ==
  IF IsString(s) THEN Bodies(SubSeq(s, 2, Len(s) - 1), strict) ELSE {}

IsNumber(s, strict) ==
  /\ s # <<>> /\ \A i \in DOMAIN s : s[i] \in Digits
  /\ strict => Len(s) = 1 \/ s[1] # "0"

RECURSIVE Meanings(_, _)
RECURSIVE Lists(_, _)
RECURSIVE MemberLists(_, _)

Before(s, k) == SubSeq(s, 1, k - 1)
Behind(s, k) == SubSeq(s, k + 1, Len(s))
Where(s, c) == {k \in 2..Len(s) - 1 : s[k] = c}

\* The lists of values that the text between two brackets stands for.
Lists(s, strict) ==
  {<<v>> : v \in Meanings(s, strict)}
    \cup UNION {{<<v>> \o l : v \in Meanings(Before(s, k), strict), l \in Lists(Behind(s, k), strict)} :
                  k \in Where(s, ",")}

MemberLists(s, strict) ==
  LET one(t) == UNION {{[name |-> n, value |-> v] :
                          n \in StringsOf(Before(t, k), strict), v \in Meanings(Behind(t, k), strict)} :
                        k \in Where(t, ":")}
  IN {<<m>> : m \in one(s)}
       \cup UNION {{<<m>> \o l : m \in one(Before(s, k)), l \in MemberLists(Behind(s, k), strict)} :
                     k \in Where(s, ",")}

ObjectOf(list) ==
  Object([n \in {list[i].name : i \in DOMAIN list} |->
    list[CHOOSE i \in DOMAIN list : list[i].name = n /\ \A j \in 1..i - 1 : list[j].name # n].value])

Meanings(s, strict) ==
  LET inner == SubSeq(s, 2, Len(s) - 1)
      inside(open, close) == Len(s) > 1 /\ s[1] = open /\ s[Len(s)] = close
  IN CASE s = <<"null">> -> {Null}
       [] IsNumber(s, strict) -> {NumberOf(s)}
       [] IsString(s) -> {String(u) : u \in StringsOf(s, strict)}
       [] inside("[", "]") -> {Arr(l) : l \in IF inner = <<>> THEN {<<>>} ELSE Lists(inner, strict)}
       [] inside("{", "}") ->
            {ObjectOf(l) : l \in IF inner = <<>> THEN {<<>>} ELSE MemberLists(inner, strict)}
       [] OTHER -> {}

RECURSIVE ComesBack(_)

\* The values without a number of more than 15 digits and without one that has none.
ComesBack(v) ==
  CASE v.type = "number" -> v.number \notin {<<"long">>, <<"inf">>}
    [] v.type = "array" -> \A i \in DOMAIN v.items : ComesBack(v.items[i])
    [] v.type = "object" -> \A m \in DOMAIN v.entries : ComesBack(v.entries[m])
    [] OTHER -> TRUE

\* The parser (json.cpp:26) gives a text of the grammar the value that the
\* grammar gives it.  It takes nothing else, but for the three things that are
\* not strict: control characters in strings (166), what is no digit after \u
\* (148), and zeros before a number (195).  What was written out (406) comes back as
\* it was if its numbers come back: one with more than 15 digits is rounded
\* (415), and an infinite one is written as a word that no parser reads.
ParsesWhatIsWritten ==
  /\ Meanings(text, FALSE) = IF parse.ok THEN {parse.value} ELSE {}
  /\ Meanings(text, TRUE) # {} => parse.ok /\ Meanings(text, TRUE) = {parse.value}
  /\ damage = 0 /\ ComesBack(value) => parse.ok /\ parse.value = value
=============================================================================
