-------------------------------- MODULE Jsmn --------------------------------
(***************************************************************************)
(* The JSON tokenizer zserge-jsmn/jsmn.c, as libraft builds it (neither    *)
(* JSMN_STRICT nor JSMN_PARENT_LINKS): one action per kind of character in *)
(* the loops of jsmn_parse and the two functions it calls.  A call may be  *)
(* repeated with the same parser, on more data (after JSMN_ERROR_PART) or  *)
(* with more tokens (after JSMN_ERROR_NOMEM), and goes on where the last   *)
(* one stopped.                                                            *)
(*                                                                         *)
(* pos, start and end are C's.  tokens holds the tokens in use, so toknext *)
(* is its length; token indices are C's plus one, and toksuper 0 is C's -1.*)
(* Characters are classes: "x" stands for the letters without a meaning of *)
(* their own, "b" for those that are hex digits and may be escaped, "ctl"  *)
(* for bytes outside the printable ones.  The data has no '\0' before its  *)
(* end.                                                                    *)
(***************************************************************************)
EXTENDS Integers, Sequences

VARIABLES js,             \* the data so far
          pos, toksuper,  \* parser
          tokens,
          num, null,      \* arguments: num_tokens, tokens == NULL
          mode, start,    \* the loop that runs, and where its token began
          count, r        \* tokens found by this call; what it returned

parser == <<pos, toksuper, tokens>>
args == <<num, null>>

Chars == {"lbrace", "rbrace", "lbracket", "rbracket", "quote", "colon", "comma",
          "blank", "backslash", "x", "b", "u", "ctl"}
Types == {"PRIMITIVE", "OBJECT", "ARRAY", "STRING"}

NOMEM == -1
INVAL == -2
PART == -3

Token == [type : Types, start : Nat, end : Nat \cup {-1}, size : Nat]
NewToken(type, from, end) ==
  [type |-> type, start |-> from, end |-> end, size |-> 0]

(* jsmn_init, and no call under way *)
jsmn_init ==
  /\ pos = 0 /\ toksuper = 0 /\ tokens = <<>>
  /\ mode = "idle" /\ start = 0 /\ count = 0 /\ r = PART

(* A call of jsmn_parse begins. *)
jsmn_parse(n, isNull) ==
  /\ mode = "idle" /\ mode' = "main"
  /\ num' = n /\ null' = isNull /\ count' = 0
  /\ UNCHANGED <<parser, start, r>>

Char == js[pos + 1]
At(m, chars) == mode = m /\ pos < Len(js) /\ Char \in chars

Open == {i \in 1 .. Len(tokens) : tokens[i].end = -1}
Last(S) == CHOOSE i \in S : \A j \in S : j <= i

(* tokens[toksuper].size++, if there is a superior token *)
Count(toks) == IF toksuper = 0 THEN toks
               ELSE [toks EXCEPT ![toksuper].size = @ + 1]

Go(p, m) == pos' = p /\ mode' = m /\ UNCHANGED <<js, args, r>>

(* return an error, with the parser at position p *)
Fail(error, p) ==
  /\ r' = error /\ pos' = p /\ mode' = "idle"
  /\ UNCHANGED <<js, toksuper, tokens, args, start, count>>

-----------------------------------------------------------------------------
(* Objects, arrays and separators *)

TypeOf(char) == IF char \in {"lbrace", "rbrace"} THEN "OBJECT" ELSE "ARRAY"

Begin ==
  /\ At("main", {"lbrace", "lbracket"})
  /\ IF ~null /\ Len(tokens) >= num THEN Fail(NOMEM, pos)
     ELSE /\ IF null THEN UNCHANGED <<tokens, toksuper>>
             ELSE /\ tokens' = Append(Count(tokens), NewToken(TypeOf(Char), pos, -1))
                  /\ toksuper' = Len(tokens) + 1
          /\ count' = count + 1
          /\ Go(pos + 1, "main") /\ UNCHANGED start

(* Fault: nothing is superior once an object or array has been closed. *)
NoSuperior(open) == 0

(* The innermost of the open tokens is superior. *)
Superior(open) == IF open = {} THEN 0 ELSE Last(open)

End ==
  LET i == Last(Open) IN
  /\ At("main", {"rbrace", "rbracket"})
  /\ IF ~null /\ (Open = {} \/ tokens[i].type # TypeOf(Char)) THEN Fail(INVAL, pos)
     ELSE /\ IF null THEN UNCHANGED <<tokens, toksuper>>
             ELSE /\ tokens' = [tokens EXCEPT ![i].end = pos + 1]
                  /\ toksuper' = Superior(Open \ {i})
          /\ Go(pos + 1, "main") /\ UNCHANGED <<start, count>>

Blank ==
  /\ At("main", {"blank"})
  /\ Go(pos + 1, "main") /\ UNCHANGED <<toksuper, tokens, start, count>>

(* The last token, a key, becomes the superior one of its value. *)
Colon ==
  /\ At("main", {"colon"})
  /\ toksuper' = Len(tokens)
  /\ Go(pos + 1, "main") /\ UNCHANGED <<tokens, start, count>>

(* After a member the superior token is the open object again.  Without a  *)
(* superior token the code reads what is in front of the array.            *)
Comma ==
  /\ At("main", {"comma"})
  /\ \E type \in IF toksuper = 0 THEN Types ELSE {tokens[toksuper].type} :
       toksuper' = IF null \/ type \in {"ARRAY", "OBJECT"} \/ Open = {}
                   THEN toksuper ELSE Superior(Open)
  /\ Go(pos + 1, "main") /\ UNCHANGED <<tokens, start, count>>

-----------------------------------------------------------------------------
(* Strings and primitives *)

(* A string or primitive is complete and becomes a token. *)
Leaf(type, from, next) ==
  IF ~null /\ Len(tokens) >= num THEN Fail(NOMEM, start)
  ELSE /\ IF null THEN UNCHANGED tokens
          ELSE tokens' = Count(Append(tokens, NewToken(type, from, pos)))
       /\ count' = count + 1
       /\ Go(next, "main") /\ UNCHANGED <<toksuper, start>>

(* jsmn_parse calls jsmn_parse_string, which skips the quote, or           *)
(* jsmn_parse_primitive.                                                   *)
LeafBegin ==
  /\ \/ At("main", {"quote"}) /\ Go(pos + 1, "string")
     \/ At("main", {"x", "b", "u", "backslash", "ctl"}) /\ Go(pos, "primitive")
  /\ start' = pos
  /\ UNCHANGED <<toksuper, tokens, count>>

StringQuote == At("string", {"quote"}) /\ Leaf("STRING", start + 1, pos + 1)

Escaped == Char = "backslash" /\ pos + 1 < Len(js)

StringChar ==
  /\ At("string", Chars \ {"quote"}) /\ ~Escaped
  /\ Go(pos + 1, "string") /\ UNCHANGED <<toksuper, tokens, start, count>>

(* behind the hex digits of \u: four of them, or fewer at the end of the data *)
DigitsEnd == IF pos + 6 < Len(js) THEN pos + 6 ELSE Len(js)

(* A backslash, with what it quotes: one character, or u and hex digits *)
StringEscape ==
  LET digits == pos + 3 .. DigitsEnd IN  \* indices in js
  /\ At("string", {"backslash"}) /\ Escaped
  /\ \/ /\ js[pos + 2] \in {"quote", "backslash", "b"}
        /\ Go(pos + 2, "string") /\ UNCHANGED <<toksuper, tokens, start, count>>
     \/ /\ js[pos + 2] = "u" /\ \A d \in digits : js[d] = "b"
        /\ Go(DigitsEnd, "string")
        /\ UNCHANGED <<toksuper, tokens, start, count>>
     \/ /\ js[pos + 2] = "u" /\ \E d \in digits : js[d] # "b"
        /\ Fail(INVAL, start)
     \/ /\ js[pos + 2] \notin {"quote", "backslash", "b", "u"}
        /\ Fail(INVAL, start)

(* Fault: parsing resumes behind what was read of the string. *)
StringPartResumed == mode = "string" /\ pos >= Len(js) /\ Fail(PART, pos)

StringPart == mode = "string" /\ pos >= Len(js) /\ Fail(PART, start)

Delimiters == {"blank", "colon", "comma", "rbracket", "rbrace"}

PrimitiveChar ==
  /\ At("primitive", Chars \ Delimiters)
  /\ IF Char = "ctl" THEN Fail(INVAL, start)
     ELSE Go(pos + 1, "primitive") /\ UNCHANGED <<toksuper, tokens, start, count>>

(* found: a delimiter, or the end of the data *)
PrimitiveEnd ==
  /\ At("primitive", Delimiters) \/ (mode = "primitive" /\ pos >= Len(js))
  /\ Leaf("PRIMITIVE", start, pos)

(* jsmn_parse at the end of the data *)
Return ==
  /\ mode = "main" /\ pos >= Len(js)
  /\ mode' = "idle"
  /\ r' = IF Open # {} THEN PART ELSE count
  /\ UNCHANGED <<js, parser, args, start, count>>

Parse ==
  \/ Begin \/ End \/ Blank \/ Colon \/ Comma
  \/ LeafBegin \/ StringQuote \/ StringChar \/ StringEscape \/ StringPart
  \/ PrimitiveChar \/ PrimitiveEnd \/ Return

-----------------------------------------------------------------------------

(* Type of a tokenizer (jsmn.h) over the data js. *)
JsmnTypeOK ==
  /\ js \in Seq(Chars) /\ pos \in 0 .. Len(js)
  /\ tokens \in Seq(Token) /\ toksuper \in Nat
  /\ num \in Nat /\ null \in BOOLEAN
  /\ mode \in {"idle", "main", "string", "primitive"} /\ start \in 0 .. pos
  /\ count \in Nat /\ r \in Nat \cup {NOMEM, INVAL, PART}

(* The tokenizer stays inside its data and the caller's array, also when a *)
(* call is resumed after an error: pos is in the data, at most num_tokens  *)
(* tokens are in use, and toksuper, through which sizes are incremented,   *)
(* is one of them or none.  It is none only when no object or array is     *)
(* open, so the look in front of the array in the case of ',' decides      *)
(* nothing.                                                                *)
InBounds ==
  /\ JsmnTypeOK
  /\ Len(tokens) <= num
  /\ toksuper \in 0 .. Len(tokens)
  /\ toksuper = 0 => Open = {}

=============================================================================
