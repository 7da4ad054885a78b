------------------------------ MODULE Bencode ------------------------------
(***************************************************************************)
(* Bencoded data and its decoder (bencode.c).                              *)
(*                                                                         *)
(* Data is a sequence of lexemes: the marks "d", "l" and "e" that open and *)
(* close dictionaries and lists; strings "s", of n bytes that v stands     *)
(* for (items holds the compact addresses in them), whose length is        *)
(* written with pad zeros before it; integers "i", with the characters     *)
(* between their "i" and "e"; and "cut", a string or integer that does not *)
(* end within the data, or a byte that begins nothing.                     *)
(*                                                                         *)
(* The data is the beginning of a buffer which holds older bytes after it. *)
(***************************************************************************)
EXTENDS Integers, SequencesExt

CONSTANTS
    NULL,
    StringOrder,  \* what strings stand for, in the order of their bytes
    LongMax       \* LONG_MAX

ASSUME LongMaxAssumption == LongMax \in Nat

Lexeme(kind, v, n, items, pad, text) ==
    [kind |-> kind, v |-> v, n |-> n, items |-> items, pad |-> pad, text |-> text]

Mark(kind)          == Lexeme(kind, "", 0, <<>>, 0, <<>>)
String(v, n)        == Lexeme("s", v, n, <<>>, 0, <<>>)
Compact(items, n)   == Lexeme("s", "compact", n, items, 0, <<>>)
Integer(text)       == Lexeme("i", "", 0, <<>>, 0, text)

Minus == -1

-----------------------------------------------------------------------------
(* Integers *)

Digits == 0 .. 9

(* find_integer_end: digits, the first perhaps after a minus sign. *)
IsDelimited(text) ==
    /\ text # <<>>
    /\ \A i \in DOMAIN text : text[i] \in Digits \/ (i = 1 /\ text[i] = Minus)

(* What strtol makes of the characters. *)
Magnitude(text) ==
    FoldLeft(LAMBDA m, c : 10 * m + c, 0, SelectSeq(text, LAMBDA c : c \in Digits))

Negative(text) == text[1] = Minus

Strtol(text) == IF Negative(text) THEN -Magnitude(text) ELSE Magnitude(text)

(* The range of long, outside of which strtol sets ERANGE. *)
Long == -(LongMax + 1) .. LongMax

(* MUTANT: zeros before a positive integer are let pass. *)
BDecode_integer_Padded(text) ==
    /\ IsDelimited(text)
    /\ text # <<Minus>>
    /\ Strtol(text) \in Long
    /\ CASE Strtol(text) = 0 -> text = <<0>>
         [] Strtol(text) > 0 -> TRUE
         [] Strtol(text) < 0 -> text[2] # 0

(* The text of an integer is accepted.  Without a digit strtol converts    *)
(* nothing, and its end is not the expected one.                           *)
BDecode_integer(text) ==
    /\ IsDelimited(text)
    /\ text # <<Minus>>
    /\ Strtol(text) \in Long
    /\ CASE Strtol(text) = 0 -> text = <<0>>
         [] Strtol(text) > 0 -> text[1] # 0
         [] Strtol(text) < 0 -> text[2] # 0

-----------------------------------------------------------------------------
(* Trees *)

None == [type |-> "none"]

BNode(type, lexeme, nodes, end) ==
    [type |-> type, lexeme |-> lexeme, nodes |-> nodes, end |-> end]

(* A string is accepted.  Only the length of an empty one may begin with   *)
(* zeros.                                                                  *)
BDecode_string(x) == x.n > 0 => x.pad = 0

Rank(v) == CHOOSE i \in DOMAIN StringOrder : StringOrder[i] = v

(* -1, 0 or 1, for what memcmp and then the lengths say. *)
compare_keys(v, w) == CASE Rank(v) < Rank(w) -> -1
                        [] Rank(v) = Rank(w) -> 0
                        [] OTHER             -> 1

(* BDecode_dictionary's checks of the list of its keys and values. *)
IsDictionary(nodes) ==
    /\ Len(nodes) % 2 = 0
    /\ \A i \in DOMAIN nodes : i % 2 = 1 =>
          /\ nodes[i].type = "BString"
          /\ i > 1 => compare_keys(nodes[i - 2].lexeme.v, nodes[i].lexeme.v) < 0


(* next_len = 0.  A list that was closed by the byte after the data makes  *)
(* next_len of the list around it wrap, and that is never 0 again.         *)
AtEnd(p, len) == p = len + 1

(* What is decoded at the place p of the buffer: one value, or the rest of *)
(* a list.  The byte after the data is looked at, though it is not part of *)
(* it, when the data ends within a list.                                   *)
BDecode_list_or_dict(buf, len) ==
    LET at[p \in 1 .. Len(buf) + 1] ==
        LET x    == buf[p]
            list == at[p + 1].rest
            one  ==
                CASE p > Len(buf) -> None
                  [] p <= Len(buf) /\ x.kind = "i" ->
                        IF BDecode_integer(x.text)
                        THEN BNode("BInteger", x, <<>>, p + 1) ELSE None
                  [] p <= Len(buf) /\ x.kind = "s" ->
                        IF BDecode_string(x)
                        THEN BNode("BString", x, <<>>, p + 1) ELSE None
                  [] p <= Len(buf) /\ x.kind = "l" ->
                        IF list # None
                        THEN BNode("BList", x, list.nodes, list.end) ELSE None
                  [] p <= Len(buf) /\ x.kind = "d" ->
                        IF list # None /\ IsDictionary(list.nodes)
                        THEN BNode("BDictionary", x, list.nodes, list.end) ELSE None
                  [] OTHER -> None
            more == at[one.end].rest
        IN  [one  |-> one,
             rest |->
                CASE p <= Len(buf) /\ x.kind = "e" ->
                        BNode("rest", x, <<>>, p + 1)
                  [] (p > Len(buf) \/ x.kind # "e") /\ AtEnd(p, len) -> None
                  [] OTHER ->
                        IF one # None /\ more # None
                        THEN BNode("rest", NULL, <<one>> \o more.nodes, more.end)
                        ELSE None]
    IN  at[1].one

BDecode(buf, len) == IF len = 0 THEN None ELSE BDecode_list_or_dict(buf, len)

-----------------------------------------------------------------------------
(* Looking up a key *)

(* MUTANT: the search ends one place too early. *)
Narrowing_Short(l, r) == l + 2 < r

Narrowing(l, r) == l + 1 < r

(* The binary search over the keys; None when the key is not there. *)
BNode_GetValue(dict, key) ==
    LET pairs == Len(dict.nodes) \div 2
        KeyAt(i) == dict.nodes[2 * i + 1].lexeme.v
        left[l \in 0 .. pairs, r \in 0 .. pairs] ==
            LET m   == l + (r - l) \div 2
                cmp == compare_keys(key, KeyAt(m))
            IN  IF Narrowing(l, r)
                THEN left[IF 0 <= cmp THEN m ELSE l, IF cmp <= 0 THEN m ELSE r]
                ELSE l
        found == left[0, pairs]
    IN  IF /\ dict.type = "BDictionary"
           /\ found * 2 + 1 < Len(dict.nodes)
           /\ KeyAt(found) = key
        THEN dict.nodes[2 * found + 2] ELSE None

-----------------------------------------------------------------------------
(* References for the decoder *)

(* The characters that an integer is written with. *)
Decimal(i) ==
    LET size == CHOOSE s \in 1 .. 10 : 10 ^ s > i /\ (s > 1 => 10 ^ (s - 1) <= i)
    IN  [d \in 1 .. size |-> (i \div 10 ^ (size - d)) % 10]

(* A lexeme as it should be written. *)
Canonical(x) ==
    CASE x.kind = "i" -> LET i == Strtol(x.text)
                         IN  Integer(IF i < 0 THEN <<Minus>> \o Decimal(-i) ELSE Decimal(i))
      [] x.kind = "s" -> [x EXCEPT !.pad = 0]
      [] OTHER        -> x

(* The lexemes of a tree that is nested at most three deep. *)
Written(node) ==
    LET Leaf(n) == <<Canonical(n.lexeme)>>
        W(n, Inner(_)) ==
            IF n.type \in {"BList", "BDictionary"}
            THEN <<n.lexeme>> \o FlattenSeq([i \in DOMAIN n.nodes |-> Inner(n.nodes[i])])
                   \o <<Mark("e")>>
            ELSE Leaf(n)
    IN  W(node, LAMBDA a : W(a, LAMBDA b : W(b, LAMBDA c : W(c, Leaf))))

(* The value of a key: the one after it. *)
ValueOf(dict, key) ==
    IF \E i \in DOMAIN dict.nodes : i % 2 = 1 /\ dict.nodes[i].lexeme.v = key
    THEN dict.nodes[1 + CHOOSE i \in DOMAIN dict.nodes :
                           i % 2 = 1 /\ dict.nodes[i].lexeme.v = key]
    ELSE None

=============================================================================
