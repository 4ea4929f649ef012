----------------------------- MODULE JsonProofs -----------------------------
(***************************************************************************)
(* Proofs about the tokenizer and its callers, for texts of any length and *)
(* nesting and token arrays of any size, whichever program calls it and    *)
(* wherever the text is cut into chunks.                                   *)
(*                                                                         *)
(* It stays in bounds: InBounds is inductive for the steps of jsmn_parse;  *)
(* the callers add that a parser that is called with another array than    *)
(* before has not found a token yet, or gets a larger one.                 *)
(*                                                                         *)
(* It finds the tokens of the text: TokensMatch speaks of the end of a     *)
(* call, and what the tokenizer holds in the middle of the text is to be   *)
(* compared with what the writer had there.  The invariant TInv says that  *)
(* there is a history of the writer with which the tokenizer agrees.       *)
(*                                                                         *)
(* What jsondump and raft_print_stats print: the tokens of a text describe *)
(* a tree in preorder.  The number of visits that are still due, one for   *)
(* each item that has not been seen, becomes zero behind the last token    *)
(* and not earlier.  That dump() visits each token once follows by         *)
(* induction over the tokens from the last to the first, as a least        *)
(* counterexample.                                                         *)
(***************************************************************************)
EXTENDS JsonReaders, WellFoundedInduction, TLAPS

(* The tokens are in bounds between two calls, too. *)
IInv ==
  /\ InBounds
  /\ escape \in Seq(Chars)
  /\ got \in Nat
  /\ pc = "read" /\ (got = 0 \/ prog # "dump") => tokens = <<>>
  /\ pc = "parse" /\ prog = "dump" => got # 0

-----------------------------------------------------------------------------
(* The largest of a set of indices *)

(* A set of naturals has a smallest element. *)
LEMMA MinExists ==
  ASSUME NEW T \in SUBSET Nat, T # {}
  PROVE  \E x \in T : \A y \in T : x <= y
<1> DEFINE Less == OpToRel(<, Nat)
<1>1. IsWellFoundedOn(Less, Nat)
  BY Zenon, NatLessThanWellFounded
<1> HIDE DEF Less
<1>2. PICK x \in T : \A y \in T : ~(<<y, x>> \in Less)
  BY <1>1, WFMin, Zenon
<1>3. \A a, b \in Nat : a < b => <<a, b>> \in Less
  BY DEF Less, OpToRel
<1>4. ASSUME NEW y \in T PROVE x <= y
  <2>1. x \in Nat /\ y \in Nat
    OBVIOUS
  <2>2. ~(y < x)
    BY Zenon, <1>2, <1>3, <2>1
  <2> QED
    BY <2>1, <2>2
<1> QED
  BY <1>4

(* Last, which stands for the backward loops of jsmn_parse, finds one. *)
LEMMA LastIn ==
  ASSUME NEW n \in Nat, NEW S \in SUBSET (1 .. n), S # {}
  PROVE  Last(S) \in S
<1> DEFINE T == {n - x : x \in S}
<1>1. T \in SUBSET Nat /\ T # {}
  <2>1. ASSUME NEW x \in S PROVE n - x \in Nat
    OBVIOUS
  <2> QED
    BY Zenon, <2>1
<1>2. PICK m \in T : \A y \in T : m <= y
  BY Zenon, <1>1, MinExists
<1>3. PICK x \in S : m = n - x
  OBVIOUS
<1>4. ASSUME NEW y \in S PROVE y <= x
  <2>1. m <= n - y
    BY <1>2
  <2> QED
    BY <2>1, <1>3
<1> QED
  BY <1>4 DEF Last

-----------------------------------------------------------------------------
(* Token arrays *)

(* A token stays one when its size or its end is set. *)
LEMMA TokenExcept ==
  ASSUME NEW t \in Token, NEW n \in Nat
  PROVE  /\ [t EXCEPT !.size = @ + 1] \in Token
         /\ [t EXCEPT !.size = @ + 1].end = t.end
         /\ [t EXCEPT !.end = n] \in Token
         /\ [t EXCEPT !.end = n].end = n
<1>1. [t EXCEPT !.size = @ + 1] =
        [type |-> t.type, start |-> t.start, end |-> t.end, size |-> t.size + 1]
  BY DEF Token
<1>2. [t EXCEPT !.end = n] =
        [type |-> t.type, start |-> t.start, end |-> n, size |-> t.size]
  BY DEF Token
<1>3. t.type \in Types /\ t.start \in Nat /\ t.end \in Nat \cup {-1} /\ t.size \in Nat
  BY DEF Token
<1> QED
  BY <1>1, <1>2, <1>3 DEF Token

(* A token of the array is replaced by another. *)
LEMMA ReplacedToken ==
  ASSUME NEW toks \in Seq(Token), NEW i \in 1 .. Len(toks), NEW e \in Token
  PROVE  /\ [toks EXCEPT ![i] = e] \in Seq(Token)
         /\ Len([toks EXCEPT ![i] = e]) = Len(toks)
         /\ \A j \in 1 .. Len(toks) : [toks EXCEPT ![i] = e][j] = IF j = i THEN e ELSE toks[j]
OBVIOUS

(* tokens[toksuper].size++ changes neither the length nor any end. *)
LEMMA CountKeeps ==
  ASSUME NEW toks \in Seq(Token), toksuper \in 0 .. Len(toks)
  PROVE  /\ Count(toks) \in Seq(Token)
         /\ Len(Count(toks)) = Len(toks)
         /\ \A i \in 1 .. Len(toks) : Count(toks)[i].end = toks[i].end
<1>1. CASE toksuper = 0
  BY <1>1 DEF Count
<1>2. CASE toksuper # 0
  <2> DEFINE new == [toks[toksuper] EXCEPT !.size = @ + 1]
  <2>1. toksuper \in 1 .. Len(toks) /\ toks[toksuper] \in Token
    BY <1>2
  <2>2. new \in Token /\ new.end = toks[toksuper].end
    BY Zenon, <2>1, TokenExcept
  <2>3. Count(toks) = [toks EXCEPT ![toksuper] = new]
    BY <1>2 DEF Count
  <2> HIDE DEF new
  <2>4. Count(toks) \in Seq(Token) /\ Len(Count(toks)) = Len(toks)
    BY <2>1, <2>2, <2>3, ReplacedToken
  <2>5. \A i \in 1 .. Len(toks) : Count(toks)[i] = IF i = toksuper THEN new ELSE toks[i]
    BY <2>1, <2>2, <2>3, ReplacedToken
  <2> QED
    BY <2>2, <2>4, <2>5
<1> QED
  BY <1>1, <1>2

(* jsmn_alloc_token and jsmn_fill_token *)
LEMMA AppendToken ==
  ASSUME NEW toks \in Seq(Token), NEW type \in Types, NEW first \in Nat,
         NEW end \in Nat \cup {-1}
  PROVE  LET new == Append(toks, NewToken(type, first, end)) IN
         /\ new \in Seq(Token) /\ Len(new) = Len(toks) + 1
         /\ \A i \in 1 .. Len(toks) : new[i] = toks[i]
         /\ new[Len(toks) + 1].end = end
<1>1. NewToken(type, first, end) \in Token
  BY DEF NewToken, Token
<1>2. NewToken(type, first, end).end = end
  BY DEF NewToken
<1> QED
  BY <1>1, <1>2

-----------------------------------------------------------------------------
(* The steps of jsmn_parse *)

(* An error return leaves the tokens alone. *)
LEMMA FailKeeps ==
  ASSUME InBounds, NEW error \in {NOMEM, INVAL, PART}, NEW p \in {pos, start},
         Fail(error, p)
  PROVE  InBounds'
BY DEF Fail, args, InBounds, JsmnTypeOK, Open

(* A step that only moves on in the data *)
LEMMA GoKeeps ==
  ASSUME InBounds, NEW p \in pos .. Len(js),
         NEW m \in {"idle", "main", "string", "primitive"}, Go(p, m),
         UNCHANGED <<toksuper, tokens, start, count>>
  PROVE  InBounds'
BY DEF Go, args, InBounds, JsmnTypeOK, Open

(* The end of jsmn_parse_string or jsmn_parse_primitive *)
LEMMA LeafKeeps ==
  ASSUME InBounds, NEW type \in Types, NEW first \in Nat, NEW next \in pos .. Len(js),
         Leaf(type, first, next)
  PROVE  InBounds'
<1>1. CASE ~null /\ Len(tokens) >= num
  <2>1. Fail(NOMEM, start)
    BY <1>1 DEF Leaf
  <2> QED
    BY <2>1, FailKeeps
<1>2. CASE null
  <2>1. UNCHANGED <<js, args, r, tokens, toksuper, start>> /\ pos' = next /\ mode' = "main"
          /\ count' = count + 1
    BY <1>2 DEF Leaf, Go
  <2> QED
    BY <2>1 DEF args, InBounds, JsmnTypeOK, Open
<1>3. CASE ~null /\ ~(Len(tokens) >= num)
  <2> DEFINE new == Append(tokens, NewToken(type, first, pos))
  <2>1. UNCHANGED <<js, args, r, toksuper, start>> /\ pos' = next /\ mode' = "main"
          /\ count' = count + 1 /\ tokens' = Count(new)
    BY <1>3 DEF Leaf, Go
  <2>2. new \in Seq(Token) /\ Len(new) = Len(tokens) + 1
          /\ new[Len(tokens) + 1].end = pos
          /\ \A i \in 1 .. Len(tokens) : new[i] = tokens[i]
    BY AppendToken DEF InBounds, JsmnTypeOK
  <2> HIDE DEF new
  <2>3. toksuper \in 0 .. Len(new)
    BY <2>2 DEF InBounds, JsmnTypeOK
  <2>4. tokens' \in Seq(Token) /\ Len(tokens') = Len(tokens) + 1
          /\ \A i \in 1 .. Len(new) : tokens'[i].end = new[i].end
    BY <2>1, <2>2, <2>3, CountKeeps
  <2>5. Open' = Open
    BY <2>2, <2>4 DEF Open, InBounds, JsmnTypeOK
  <2> QED
    BY <1>3, <2>1, <2>4, <2>5 DEF args, InBounds, JsmnTypeOK
<1> QED
  BY <1>1, <1>2, <1>3

(* { and [ : the new token, which is open, becomes superior. *)
LEMMA BeginKeeps ==
  ASSUME InBounds, Begin
  PROVE  InBounds'
<1>1. CASE ~null /\ Len(tokens) >= num
  <2>1. Fail(NOMEM, pos)
    BY <1>1 DEF Begin
  <2> QED
    BY <2>1, FailKeeps
<1>2. CASE null
  <2>1. UNCHANGED <<js, args, r, tokens, toksuper, start>> /\ pos' = pos + 1
          /\ mode' = "main" /\ count' = count + 1 /\ pos < Len(js)
    BY <1>2 DEF Begin, At, Go
  <2> QED
    BY <2>1 DEF args, InBounds, JsmnTypeOK, Open
<1>3. CASE ~null /\ ~(Len(tokens) >= num)
  <2> DEFINE type == TypeOf(Char)
             old == Count(tokens)
  <2>1. UNCHANGED <<js, args, r, start>> /\ pos' = pos + 1 /\ mode' = "main"
          /\ count' = count + 1 /\ tokens' = Append(old, NewToken(type, pos, -1))
          /\ toksuper' = Len(tokens) + 1 /\ pos < Len(js)
    BY <1>3 DEF Begin, At, Go
  <2>2. type \in Types /\ pos \in Nat
    BY DEF TypeOf, Types, InBounds, JsmnTypeOK
  <2>3. old \in Seq(Token) /\ Len(old) = Len(tokens)
    BY CountKeeps DEF InBounds, JsmnTypeOK
  <2> HIDE DEF type, old
  <2>4. tokens' \in Seq(Token) /\ Len(tokens') = Len(tokens) + 1
    BY <2>1, <2>2, <2>3, AppendToken
  <2> QED
    BY <1>3, <2>1, <2>4 DEF args, InBounds, JsmnTypeOK
<1> QED
  BY <1>1, <1>2, <1>3

(* } and ] : the innermost open token is closed, and the one around it     *)
(* becomes superior.                                                       *)
LEMMA EndKeeps ==
  ASSUME InBounds, End
  PROVE  InBounds'
<1> DEFINE i == Last(Open)
<1>1. CASE ~null /\ (Open = {} \/ tokens[i].type # TypeOf(Char))
  <2>1. Fail(INVAL, pos)
    BY <1>1 DEF End
  <2> QED
    BY <2>1, FailKeeps
<1>2. CASE null
  <2>1. Go(pos + 1, "main") /\ UNCHANGED <<toksuper, tokens, start, count>> /\ pos < Len(js)
    BY <1>2 DEF End, At
  <2>2. pos + 1 \in pos .. Len(js)
    BY <2>1 DEF InBounds, JsmnTypeOK
  <2> QED
    BY <2>1, <2>2, GoKeeps
<1>3. CASE ~null /\ ~(Open = {} \/ tokens[i].type # TypeOf(Char))
  <2>1. UNCHANGED <<js, args, r, start, count>> /\ pos' = pos + 1 /\ mode' = "main"
          /\ tokens' = [tokens EXCEPT ![i].end = pos + 1]
          /\ toksuper' = Superior(Open \ {i}) /\ pos < Len(js)
    BY <1>3 DEF End, At, Go
  <2>2. Open \in SUBSET (1 .. Len(tokens)) /\ Len(tokens) \in Nat
    BY DEF Open, InBounds, JsmnTypeOK
  <2>3. i \in Open
    BY Zenon, <1>3, <2>2, LastIn
  <2> HIDE DEF i
  <2> DEFINE new == [tokens[i] EXCEPT !.end = pos + 1]
  <2>4. tokens[i] \in Token /\ pos + 1 \in Nat
    BY <2>2, <2>3 DEF InBounds, JsmnTypeOK
  <2>5. new \in Token /\ new.end = pos + 1
    BY Zenon, <2>4, TokenExcept
  <2>6. tokens' = [tokens EXCEPT ![i] = new]
    BY <2>1
  <2> HIDE DEF new
  <2>7. tokens' \in Seq(Token) /\ Len(tokens') = Len(tokens)
          /\ \A j \in 1 .. Len(tokens) : tokens'[j] = IF j = i THEN new ELSE tokens[j]
    BY <2>2, <2>3, <2>5, <2>6, ReplacedToken DEF InBounds, JsmnTypeOK
  <2>8. Open' = Open \ {i}
    BY <2>2, <2>3, <2>4, <2>5, <2>7 DEF Open
  <2>9. toksuper' \in 0 .. Len(tokens) /\ (toksuper' = 0 => Open' = {})
    <3>1. CASE Open \ {i} = {}
      BY <2>1, <2>2, <2>8, <3>1 DEF Superior
    <3>2. CASE Open \ {i} # {}
      <4>1. Last(Open \ {i}) \in Open \ {i}
        BY Zenon, <2>2, <3>2, LastIn
      <4> QED
        BY <2>1, <2>2, <3>2, <4>1 DEF Superior
    <3> QED
      BY <3>1, <3>2
  <2> QED
    BY <2>1, <2>7, <2>9 DEF args, InBounds, JsmnTypeOK
<1> QED
  BY <1>1, <1>2, <1>3

(* A comma makes the innermost open token superior, or changes nothing,    *)
(* whatever is in front of the array.                                      *)
LEMMA CommaKeeps ==
  ASSUME InBounds, Comma
  PROVE  InBounds'
<1>1. UNCHANGED <<js, args, r, tokens, start, count>> /\ pos' = pos + 1 /\ mode' = "main"
        /\ pos < Len(js)
        /\ (toksuper' = toksuper \/ (Open # {} /\ toksuper' = Superior(Open)))
  BY DEF Comma, At, Go
<1>2. Open \in SUBSET (1 .. Len(tokens)) /\ Len(tokens) \in Nat
  BY DEF Open, InBounds, JsmnTypeOK
<1>3. toksuper' \in 0 .. Len(tokens) /\ (toksuper' = 0 => Open = {})
  <2>1. CASE toksuper' = toksuper
    BY <2>1 DEF InBounds
  <2>2. CASE Open # {} /\ toksuper' = Superior(Open)
    <3>1. Last(Open) \in Open
      BY Zenon, <1>2, <2>2, LastIn
    <3> QED
      BY <1>2, <2>2, <3>1 DEF Superior
  <2> QED
    BY <1>1, <2>1, <2>2
<1>4. Open' = Open
  BY <1>1 DEF Open
<1> QED
  BY <1>1, <1>3, <1>4 DEF args, InBounds, JsmnTypeOK

(* A backslash: on to behind what it quotes, or back to the quote *)
LEMMA EscapeKeeps ==
  ASSUME InBounds, StringEscape
  PROVE  InBounds'
<1>1. pos + 1 < Len(js) /\ pos \in Nat /\ Len(js) \in Nat
  BY DEF StringEscape, Escaped, InBounds, JsmnTypeOK
<1>2. DigitsEnd \in pos .. Len(js)
  BY <1>1 DEF DigitsEnd
<1>3. \/ /\ Go(pos + 2, "string") \/ Go(DigitsEnd, "string")
         /\ UNCHANGED <<toksuper, tokens, start, count>>
      \/ Fail(INVAL, start)
  BY DEF StringEscape
<1> QED
  BY <1>1, <1>2, <1>3, GoKeeps, FailKeeps

(* Every step of the tokenizer keeps it in bounds. *)
LEMMA ParseKeeps ==
  ASSUME InBounds, Parse
  PROVE  InBounds'
<1>0. pos \in 0 .. Len(js) /\ start \in 0 .. pos /\ Len(js) \in Nat /\ pos \in pos .. Len(js)
  BY DEF InBounds, JsmnTypeOK
<1>1. CASE Blank \/ StringChar
  <2>0. pos < Len(js)
    BY <1>1, Zenon DEF Blank, StringChar, At
  <2>1. pos + 1 \in pos .. Len(js)
    BY <1>0, <2>0
  <2>2. (Go(pos + 1, "main") \/ Go(pos + 1, "string"))
          /\ UNCHANGED <<toksuper, tokens, start, count>>
    BY <1>1, Zenon DEF Blank, StringChar
  <2> QED
    BY <2>1, <2>2, GoKeeps
<1>2. CASE Colon
  <2>1. UNCHANGED <<js, args, r, tokens, start, count>> /\ pos' = pos + 1
          /\ mode' = "main" /\ pos < Len(js) /\ toksuper' = Len(tokens)
    BY <1>2 DEF Colon, At, Go
  <2>2. Len(tokens) = 0 => Open = {}
    BY DEF Open
  <2>3. Open' = Open
    BY <2>1 DEF Open
  <2> QED
    BY <2>1, <2>2, <2>3 DEF args, InBounds, JsmnTypeOK
<1>3. CASE LeafBegin
  <2>1. UNCHANGED <<js, args, r, tokens, toksuper, count>> /\ pos' \in pos .. Len(js)
          /\ mode' \in {"string", "primitive"} /\ start' = pos
    BY <1>0, <1>3 DEF LeafBegin, At, Go
  <2> QED
    BY <1>0, <2>1 DEF args, InBounds, JsmnTypeOK, Open
<1>4. CASE StringQuote
  <2>1. Leaf("STRING", start + 1, pos + 1) /\ pos + 1 \in pos .. Len(js) /\ start + 1 \in Nat
    BY <1>0, <1>4 DEF StringQuote, At
  <2> QED
    BY <2>1, LeafKeeps DEF Types
<1>5. CASE StringPart
  <2>1. Fail(PART, start)
    BY <1>5 DEF StringPart
  <2> QED
    BY <2>1, FailKeeps
<1>6. CASE PrimitiveChar
  <2>1. \/ Fail(INVAL, start)
        \/ /\ Go(pos + 1, "primitive") /\ pos + 1 \in pos .. Len(js)
           /\ UNCHANGED <<toksuper, tokens, start, count>>
    BY <1>0, <1>6 DEF PrimitiveChar, At
  <2> QED
    BY <2>1, GoKeeps, FailKeeps
<1>7. CASE PrimitiveEnd
  <2>1. Leaf("PRIMITIVE", start, pos) /\ start \in Nat
    BY <1>0, <1>7 DEF PrimitiveEnd
  <2> QED
    BY <1>0, <2>1, LeafKeeps DEF Types
<1>8. CASE Return
  BY <1>8 DEF Return, parser, args, InBounds, JsmnTypeOK, Open
<1> QED
  BY <1>1, <1>2, <1>3, <1>4, <1>5, <1>6, <1>7, <1>8,
     BeginKeeps, EndKeeps, CommaKeeps, EscapeKeeps DEF Parse

-----------------------------------------------------------------------------
(* The writer and the programs *)

(* A new character does not disturb the tokenizer. *)
LEMMA WriteKeeps ==
  ASSUME IInv, Write
  PROVE  IInv'
<1>1. UNCHANGED <<jsmn, reader>> /\ escape' \in Seq(Chars)
        /\ (js' = js \/ \E char \in Chars : js' = Append(js, char))
  <2>1. CASE \E char \in {"lbrace", "lbracket"} : WriteOpen(char)
    BY <2>1 DEF WriteOpen, Put, Chars, IInv
  <2>2. CASE \E char \in {"rbrace", "rbracket"} : WriteClose(char)
    BY <2>2 DEF WriteClose, Put, Chars, IInv
  <2>3. CASE WriteComma \/ WriteColon \/ WriteBlank
    BY <2>3 DEF WriteComma, WriteColon, WriteBlank, Put, Chars, IInv
  <2>4. CASE WritePrimitive
    BY <2>4 DEF WritePrimitive, Put, Chars, IInv
  <2>5. CASE Damage
    <3>1. <<>> \in Seq(Chars) /\ {"rbrace", "rbracket", "ctl", "x"} \subseteq Chars
      BY DEF Chars
    <3>2. PICK char \in {"rbrace", "rbracket", "ctl", "x"} : Put(char)
      BY <2>5 DEF Damage
    <3> QED
      BY <2>5, <3>1, <3>2 DEF Damage, Put
  <2>6. CASE WriteString
    <3>1. escape # <<>> => Head(escape) \in Chars /\ Tail(escape) \in Seq(Chars)
      BY DEF IInv
    <3>2. {<<>>, <<"quote">>, <<"backslash">>, <<"u", "b", "b", "b", "b">>} \subseteq Seq(Chars)
      BY DEF Chars
    <3> QED
      BY Zenon, <2>6, <3>1, <3>2 DEF WriteString, Put, Chars, IInv
  <2> QED
    BY <2>1, <2>2, <2>3, <2>4, <2>5, <2>6 DEF Write
<1>2. js' \in Seq(Chars) /\ Len(js') >= Len(js)
  <2>1. js \in Seq(Chars)
    BY Zenon DEF IInv, InBounds, JsmnTypeOK
  <2>2. CASE js' = js
    BY <2>1, <2>2
  <2>3. ASSUME NEW char \in Chars, js' = Append(js, char)
        PROVE  js' \in Seq(Chars) /\ Len(js') >= Len(js)
    BY <2>1, <2>3
  <2> QED
    BY Zenon, <1>1, <2>2, <2>3
<1>3. InBounds'
  BY <1>1, <1>2 DEF jsmn, parser, args, IInv, InBounds, JsmnTypeOK, Open
<1> QED
  BY <1>1, <1>3 DEF jsmn, parser, reader, IInv

(* A call of jsmn_parse finds room for the tokens there are. *)
LEMMA CallKeeps ==
  ASSUME InBounds, NEW n \in Nat, NEW isNull \in BOOLEAN, Len(tokens) <= n,
         jsmn_parse(n, isNull), UNCHANGED js
  PROVE  InBounds'
BY DEF jsmn_parse, parser, InBounds, JsmnTypeOK, Open

(* The steps of jsondump's main and of the programs with one call *)
LEMMA ReadKeeps ==
  ASSUME IInv, Read
  PROVE  IInv'
<1>0. num \in Nat /\ tokens \in Seq(Token) /\ Len(tokens) <= num /\ js \in Seq(Chars)
  BY DEF IInv, InBounds, JsmnTypeOK
<1>1. CASE ReadChunk
  <2> DEFINE n == IF got = 0 THEN 2 ELSE num
  <2>1. n \in Nat /\ Len(tokens) <= n
    BY <1>0, <1>1 DEF ReadChunk, IInv
  <2>2. jsmn_parse(n, FALSE) /\ UNCHANGED <<doc, prog>> /\ got < Len(js)
          /\ got' = Len(js) /\ pc' = "parse"
    BY Zenon, <1>1 DEF ReadChunk
  <2> HIDE DEF n
  <2>3. InBounds'
    BY Zenon, <2>1, <2>2, CallKeeps DEF IInv, doc
  <2> QED
    BY <1>0, <2>2, <2>3 DEF IInv, doc
<1>2. CASE Dump
  <2>1. CASE r = NOMEM /\ jsmn_parse(Grown(num), FALSE) /\ UNCHANGED <<doc, reader>>
    <3>1. Grown(num) \in Nat /\ Len(tokens) <= Grown(num)
      BY <1>0 DEF Grown
    <3>2. InBounds'
      BY Zenon, <2>1, <3>1, CallKeeps DEF IInv, doc
    <3>3. UNCHANGED <<pc, prog, got, tokens, escape>>
      BY <2>1 DEF jsmn_parse, parser, doc, reader
    <3> QED
      BY <3>2, <3>3 DEF IInv
  <2>2. CASE pc' = "read" /\ UNCHANGED <<doc, jsmn, prog, got, cut>>
    <3>1. InBounds'
      BY <2>2 DEF doc, jsmn, parser, args, IInv, InBounds, JsmnTypeOK, Open
    <3> QED
      BY <1>2, <2>2, <3>1 DEF Dump, doc, jsmn, parser, IInv
  <2> QED
    BY Zenon, <1>2, <2>1, <2>2 DEF Dump
<1>3. CASE CallOnce
  <2>1. PICK n \in Nat, isNull \in BOOLEAN : jsmn_parse(n, isNull)
    BY Zenon, <1>3, ReaderConstants DEF CallOnce
  <2>2. prog # "dump" /\ pc = "read" /\ UNCHANGED <<doc, prog>> /\ got' = Len(js)
          /\ pc' = "parse"
    BY Zenon, <1>3 DEF CallOnce
  <2>3. Len(tokens) <= n
    BY <2>2 DEF IInv
  <2>4. InBounds'
    BY <2>1, <2>2, <2>3, CallKeeps DEF IInv, doc
  <2> QED
    BY <1>0, <2>2, <2>4 DEF IInv, doc
<1>4. CASE Exit \/ PrintStats \/ Estimate
  <2>1. pc' \notin {"read", "parse"} /\ UNCHANGED <<doc, jsmn, prog, got>>
    BY <1>4 DEF Exit, PrintStats, Estimate
  <2>2. InBounds'
    BY <2>1 DEF doc, jsmn, parser, args, IInv, InBounds, JsmnTypeOK, Open
  <2> QED
    BY <2>1, <2>2 DEF IInv, doc
<1>5. CASE Parsing
  <2>1. InBounds'
    BY <1>5, ParseKeeps DEF Parsing, IInv
  <2> QED
    BY <1>5, <2>1 DEF Parsing, reader, IInv
<1> QED
  BY <1>1, <1>2, <1>3, <1>4, <1>5 DEF Read

(* No call of jsmn_parse writes outside the array it was given, and the    *)
(* superior token is one of the array, for every text, every way to cut it *)
(* into chunks and every size of the arrays.                               *)
THEOREM StaysInBounds == Spec => []InBounds
<1>1. Init => IInv
  <2> SUFFICES ASSUME Init PROVE IInv
    OBVIOUS
  <2>1. js = <<>> /\ tokens = <<>> /\ escape = <<>> /\ pos = 0 /\ toksuper = 0 /\ num = 0
          /\ mode = "idle" /\ start = 0 /\ count = 0 /\ r = PART /\ got = 0 /\ pc = "read"
    BY DEF Init, jsmn_init
  <2>2. null \in BOOLEAN
    BY Zenon DEF Init
  <2>3. JsmnTypeOK
    BY <2>1, <2>2 DEF JsmnTypeOK
  <2>4. Open = {}
    BY <2>1 DEF Open
  <2> QED
    BY <2>1, <2>3, <2>4 DEF IInv, InBounds
<1>2. IInv /\ [Next]_vars => IInv'
  <2> SUFFICES ASSUME IInv, [Next]_vars PROVE IInv'
    OBVIOUS
  <2>1. CASE Done \/ UNCHANGED vars
    <3>1. UNCHANGED <<doc, jsmn, reader>>
      BY <2>1 DEF Done, vars
    <3>2. InBounds'
      BY <3>1 DEF doc, jsmn, parser, args, IInv, InBounds, JsmnTypeOK, Open
    <3> QED
      BY <3>1, <3>2 DEF doc, jsmn, parser, reader, IInv
  <2> QED
    BY <2>1, WriteKeeps, ReadKeeps DEF Next
<1>3. IInv => InBounds
  BY DEF IInv
<1> QED
  BY <1>1, <1>2, <1>3, PTL DEF Spec

-----------------------------------------------------------------------------
(***************************************************************************)
(* The history of the text: state h[n] of the writer is the one in which   *)
(* it wrote character n + 1, and h[Len(js)] the one it is in.  The         *)
(* invariant says that there is such a history, and that the tokenizer at  *)
(* position n holds the tokens of h[n].                                    *)
(***************************************************************************)

Now == [expect |-> expect, stack |-> stack, key |-> key, from |-> from,
        escape |-> escape, ref |-> ref]

(* between two tokens, and in a string *)
Between == {"value", "item", "member", "key", "colon", "separator", "end"}
Within == {"string", "keystring"}

TopOf(w) == w.stack[Len(w.stack)]
ParentOf(w) ==
  IF w.key # 0 THEN w.key ELSE IF w.stack = <<>> THEN 0 ELSE TopOf(w)

(* toks with one more token, which its parent counts *)
Added(toks, parent, tok) ==
  IF parent = 0 THEN Append(toks, tok)
  ELSE [Append(toks, tok) EXCEPT ![parent].size = @ + 1]

OpenIn(toks) == {i \in 1 .. Len(toks) : toks[i].end = -1}

(* The open tokens, objects and arrays, are on the stack, the innermost    *)
(* one on top.                                                             *)
Stacked(toks, stk) ==
  /\ \A i \in 1 .. Len(stk) : /\ stk[i] \in OpenIn(toks)
                              /\ toks[stk[i]].type \in {"OBJECT", "ARRAY"}
  /\ \A i, j \in 1 .. Len(stk) : i < j => stk[i] < stk[j]
  /\ \A t \in OpenIn(toks) : \E i \in 1 .. Len(stk) : stk[i] = t

(* A state of the writer: there is a key from its end to the end of its    *)
(* value.                                                                  *)
Shape(w) ==
  /\ w.expect \in Between \cup Within \cup {"primitive", "damaged"}
  /\ w.ref \in Seq(Token) /\ w.stack \in Seq(Nat) /\ w.from \in Nat
  /\ Stacked(w.ref, w.stack)
  /\ w.key \in 0 .. Len(w.ref)
  /\ w.key # 0 => w.ref[w.key].type = "STRING" /\ w.stack # <<>>
  /\ w.expect \in {"item", "member", "key", "keystring", "separator", "end"} => w.key = 0
  /\ w.expect \in {"item", "member", "key", "keystring", "separator", "colon"} =>
       w.stack # <<>>
  /\ w.expect = "colon" => w.key = Len(w.ref)
  /\ w.expect = "end" => w.stack = <<>>
  /\ w.expect \notin Within => w.escape = <<>>

-----------------------------------------------------------------------------
(* Character c, number n + 1 of the text, takes the writer from w to v.    *)

(* The containers, the key and the tokens stay as they are. *)
Keeps(w, v) == v.stack = w.stack /\ v.key = w.key /\ v.ref = w.ref

Opened(w, n, c, v) ==
  /\ w.expect \in {"value", "item"} /\ c \in {"lbrace", "lbracket"}
  /\ v.ref = Added(w.ref, ParentOf(w), NewToken(TypeOf(c), n, -1))
  /\ v.stack = Append(w.stack, Len(w.ref) + 1) /\ v.key = 0
  /\ v.expect = IF c = "lbrace" THEN "member" ELSE "item"
  /\ v.from = w.from /\ v.escape = w.escape

Closed(w, n, c, v) ==
  /\ w.expect \in {"separator", "item", "member"} /\ c \in {"rbrace", "rbracket"}
  /\ TypeOf(c) = w.ref[TopOf(w)].type
  /\ v.ref = [w.ref EXCEPT ![TopOf(w)].end = n + 1]
  /\ v.stack = SubSeq(w.stack, 1, Len(w.stack) - 1) /\ v.key = 0
  /\ v.expect = After(v.stack)
  /\ v.from = w.from /\ v.escape = w.escape

Separated(w, c, v) ==
  /\ \/ /\ w.expect = "separator" /\ c = "comma" /\ v.key = 0
        /\ v.expect = IF w.ref[TopOf(w)].type = "ARRAY" THEN "value" ELSE "key"
     \/ w.expect = "colon" /\ c = "colon" /\ v.expect = "value" /\ v.key = w.key
     \/ w.expect \in Between /\ c = "blank" /\ v.expect = w.expect /\ v.key = w.key
  /\ v.stack = w.stack /\ v.ref = w.ref /\ v.from = w.from /\ v.escape = w.escape

Quoted(w, n, c, v) ==
  /\ w.expect \in {"value", "item", "member", "key"} /\ c = "quote"
  /\ v.expect = IF w.expect \in {"member", "key"} THEN "keystring" ELSE "string"
  /\ v.from = n + 1 /\ v.escape = w.escape /\ Keeps(w, v)

Spelled(w, c, v) ==
  /\ w.expect \in Within
  /\ \/ w.escape = <<>> /\ c \in {"x", "rbrace"} /\ v.escape = <<>>
     \/ /\ w.escape = <<>> /\ c = "backslash"
        /\ v.escape \in {<<"quote">>, <<"backslash">>, <<"u", "b", "b", "b", "b">>}
     \/ w.escape # <<>> /\ c = Head(w.escape) /\ v.escape = Tail(w.escape)
  /\ v.expect = w.expect /\ v.from = w.from /\ Keeps(w, v)

Unquoted(w, n, c, v) ==
  /\ w.expect \in Within /\ w.escape = <<>> /\ c = "quote"
  /\ v.ref = Added(w.ref, ParentOf(w), NewToken("STRING", w.from, n))
  /\ IF w.expect = "string" THEN v.expect = After(w.stack) /\ v.key = 0
     ELSE v.expect = "colon" /\ v.key = Len(w.ref) + 1
  /\ v.stack = w.stack /\ v.from = w.from /\ v.escape = w.escape

(* in the primitive that began at position first behind s, and behind it *)
Started(s, first, v) ==
  /\ v.expect = "primitive" /\ v.from = first /\ v.escape = s.escape /\ Keeps(s, v)

Ended(s, first, n, v) ==
  /\ v.ref = Added(s.ref, ParentOf(s), NewToken("PRIMITIVE", first, n))
  /\ v.expect = After(s.stack) /\ v.key = 0 /\ v.stack = s.stack
  /\ v.from = first /\ v.escape = s.escape

(* A primitive may end with its character. *)
Primitive(w, n, c, v) ==
  /\ c = "x"
  /\ \/ w.expect \in {"value", "item"} /\ (Started(w, n, v) \/ Ended(w, n, n + 1, v))
     \/ w.expect = "primitive" /\ (Started(w, w.from, v) \/ Ended(w, w.from, n + 1, v))

Damaged(w, c, v) ==
  /\ \/ /\ w.expect \in {"separator", "item", "member", "end"} /\ c \in {"rbrace", "rbracket"}
        /\ w.stack # <<>> => TypeOf(c) # w.ref[TopOf(w)].type
     \/ w.expect \in {"value", "primitive"} /\ c = "ctl"
     \/ w.expect \in Within /\ w.escape # <<>> /\ c = "x"
  /\ v.expect = "damaged" /\ v.escape = <<>> /\ v.from = w.from /\ Keeps(w, v)

Wrote(w, n, c, v) ==
  \/ Opened(w, n, c, v) \/ Closed(w, n, c, v) \/ Separated(w, c, v)
  \/ Quoted(w, n, c, v) \/ Spelled(w, c, v) \/ Unquoted(w, n, c, v)
  \/ Primitive(w, n, c, v) \/ Damaged(w, c, v)

(* h is a history of text that has led to w. *)
Recorded(h, text, w) ==
  /\ h[0].expect = "value" /\ h[0].ref = <<>> /\ h[0].stack = <<>> /\ h[0].key = 0
  /\ h[Len(text)] = w
  /\ \A n \in 0 .. Len(text) - 1 :
       Wrote(h[n], n, text[n + 1], h[n + 1]) /\ h[n].expect # "damaged"
  /\ \A n \in 0 .. Len(text) : Shape(h[n]) /\ Len(h[n].ref) <= Len(w.ref)

-----------------------------------------------------------------------------
(* The tokenizer and the history *)

(* the superior token where the writer is in state w *)
Super(t, w) ==
  CASE w.expect \in {"value", "item", "member", "key"} -> t = ParentOf(w)
    [] w.expect = "colon" -> t = TopOf(w)
    [] w.expect = "separator" ->
         t = TopOf(w) \/ (t \in 1 .. Len(w.ref) /\ w.ref[t].type = "STRING")
    [] OTHER -> t = 0

(* in the string with its quote at position first, behind s *)
Inside(s, first, w) ==
  /\ w.expect = IF s.expect \in {"member", "key"} THEN "keystring" ELSE "string"
  /\ w.from = first + 1 /\ Keeps(s, w)

(* at position p of that string; an escape may be unfinished only at the   *)
(* end of the data                                                         *)
InString(s, first, p, w, len) ==
  /\ first < p /\ s.expect \in {"value", "item", "member", "key"}
  /\ Inside(s, first, w)
  /\ w.escape = <<>> \/ p = len

(* at position p of the primitive with its first character behind s *)
InPrimitive(text, s, first, p, w) ==
  /\ s.expect \in {"value", "item"}
  /\ IF p = first THEN p < Len(text) /\ text[p + 1] \in {"x", "ctl"}
     ELSE Started(s, first, w) \/ Ended(s, first, p, w)

(* where the token under way began, and a call may be resumed *)
Base == IF mode \in {"string", "primitive"} THEN start ELSE pos

Matches(h) ==
  /\ h[Base].expect \in Between
  /\ IF null THEN count = Len(h[Base].ref)
     ELSE tokens = h[Base].ref /\ Super(toksuper, h[Base])
  /\ mode = "string" => InString(h[start], start, pos, h[pos], Len(js))
  /\ mode = "primitive" => InPrimitive(js, h[start], start, pos, h[pos])

(* The tokenizer has to match the text, unless a primitive was cut, or no  *)
(* tokens are kept and the text is damaged or the call is over.            *)
Concerned == ~cut /\ (null => mode # "idle" /\ expect # "damaged")

TInv ==
  /\ \E h : Recorded(h, js, Now) /\ (Concerned => Matches(h))
  /\ TokensMatch
  /\ pc # "parse" => mode = "idle"
  /\ pc = "parse" /\ ~cut => expect # "primitive"
  /\ prog # "dump" /\ pc = "read" => pos = 0
  /\ prog = "dump" \/ pc = "read" => ~null
  /\ null => num = 0

-----------------------------------------------------------------------------
(* Tokens *)

(* A token of a sequence with its size or its end changed is a token. *)
LEMMA TokenFields ==
  ASSUME NEW tok \in Token, NEW m \in Nat
  PROVE  /\ [tok EXCEPT !.size = @ + 1] \in Token
         /\ [tok EXCEPT !.size = @ + 1].end = tok.end
         /\ [tok EXCEPT !.size = @ + 1].type = tok.type
         /\ [tok EXCEPT !.size = @ + 1].size = tok.size + 1
         /\ [tok EXCEPT !.end = m] \in Token
         /\ [tok EXCEPT !.end = m].end = m
         /\ [tok EXCEPT !.end = m].type = tok.type
         /\ [tok EXCEPT !.end = m].size = tok.size
BY DEF Token

(* new is toks with tok behind it, up to the sizes. *)
Longer(new, toks, tok) ==
  /\ new \in Seq(Token) /\ Len(new) = Len(toks) + 1 /\ new[Len(toks) + 1] = tok
  /\ \A i \in 1 .. Len(toks) : new[i].end = toks[i].end /\ new[i].type = toks[i].type

(* The parent counts one token more. *)
Counted(new, toks, parent) ==
  \A i \in 1 .. Len(toks) :
    new[i].size = IF i = parent THEN toks[i].size + 1 ELSE toks[i].size

(* A new token changes the others only in what their parent counts. *)
LEMMA AddedTokens ==
  ASSUME NEW toks \in Seq(Token), NEW parent \in 0 .. Len(toks), NEW tok \in Token,
         NEW new, new = Added(toks, parent, tok)
  PROVE  Longer(new, toks, tok) /\ Counted(new, toks, parent)
<1> DEFINE app == Append(toks, tok)
           one == [toks[parent] EXCEPT !.size = @ + 1]
<1>1. app \in Seq(Token) /\ Len(app) = Len(toks) + 1 /\ app[Len(toks) + 1] = tok
        /\ \A i \in 1 .. Len(toks) : app[i] = toks[i]
  OBVIOUS
<1>2. CASE parent = 0
  BY <1>1, <1>2 DEF Added, Longer, Counted
<1>3. CASE parent # 0
  <2>1. parent \in 1 .. Len(toks) /\ toks[parent] \in Token
    BY <1>3
  <2>2. one \in Token /\ one.end = toks[parent].end /\ one.type = toks[parent].type
          /\ one.size = toks[parent].size + 1
    BY Zenon, <2>1, TokenFields
  <2>3. new = [app EXCEPT ![parent] = one]
    BY <1>1, <1>3, <2>1 DEF Added
  <2> HIDE DEF app, one
  <2>4. new \in Seq(Token) /\ Len(new) = Len(app)
          /\ \A i \in 1 .. Len(app) : new[i] = IF i = parent THEN one ELSE app[i]
    BY <1>1, <2>1, <2>2, <2>3
  <2> QED
    BY <1>1, <2>1, <2>2, <2>4 DEF Longer, Counted
<1> QED
  BY <1>2, <1>3

(* Two token arrays with the same tokens are the same. *)
LEMMA SameTokens ==
  ASSUME NEW s \in Seq(Token), NEW t \in Seq(Token), Len(s) = Len(t),
         \A i \in 1 .. Len(s) : s[i] = t[i]
  PROVE  s = t
OBVIOUS

(* The order in which jsmn_parse counts and appends does not matter. *)
LEMMA CountThenAppend ==
  ASSUME NEW toks \in Seq(Token), NEW p \in 1 .. Len(toks), NEW tok \in Token
  PROVE  Append([toks EXCEPT ![p].size = @ + 1], tok) = Added(toks, p, tok)
<1> DEFINE one == [toks[p] EXCEPT !.size = @ + 1]
           old == [toks EXCEPT ![p] = one]
           app == Append(toks, tok)
           s == Append(old, tok)
           t == [app EXCEPT ![p] = one]
<1>1. one \in Token
  <2>1. toks[p] \in Token
    OBVIOUS
  <2> QED
    BY Zenon, <2>1, TokenFields
<1>2. [toks EXCEPT ![p].size = @ + 1] = old
  OBVIOUS
<1>3. Added(toks, p, tok) = t
  BY DEF Added
<1> HIDE DEF one
<1>4. old \in Seq(Token) /\ Len(old) = Len(toks)
        /\ \A i \in 1 .. Len(toks) : old[i] = IF i = p THEN one ELSE toks[i]
  BY <1>1
<1>5. app \in Seq(Token) /\ Len(app) = Len(toks) + 1 /\ app[Len(toks) + 1] = tok
        /\ \A i \in 1 .. Len(toks) : app[i] = toks[i]
  OBVIOUS
<1> HIDE DEF old, app
<1>6. s \in Seq(Token) /\ Len(s) = Len(toks) + 1 /\ s[Len(toks) + 1] = tok
        /\ \A i \in 1 .. Len(toks) : s[i] = old[i]
  BY <1>4
<1>7. t \in Seq(Token) /\ Len(t) = Len(toks) + 1
        /\ \A i \in 1 .. Len(toks) + 1 : t[i] = IF i = p THEN one ELSE app[i]
  BY <1>1, <1>5
<1> HIDE DEF s, t
<1>8. \A i \in 1 .. Len(s) : s[i] = t[i]
  BY SMTT(30), <1>4, <1>5, <1>6, <1>7
<1>9. s = t
  BY <1>6, <1>7, <1>8, SameTokens
<1> QED
  BY <1>2, <1>3, <1>9 DEF s

-----------------------------------------------------------------------------
(* The open tokens of a writer's state *)

(* An increasing sequence ends with the largest of its elements. *)
LEMMA LargestLast ==
  ASSUME NEW S \in SUBSET Nat, NEW seq \in Seq(Nat),
         \A i \in 1 .. Len(seq) : seq[i] \in S,
         \A i, j \in 1 .. Len(seq) : i < j => seq[i] < seq[j],
         \A t \in S : \E i \in 1 .. Len(seq) : seq[i] = t
  PROVE  /\ S = {} <=> seq = <<>>
         /\ seq # <<>> => Last(S) = seq[Len(seq)] /\ seq[Len(seq)] \in S
<1>1. seq # <<>> => Len(seq) \in 1 .. Len(seq)
  OBVIOUS
<1>2. S = {} <=> seq = <<>>
  <2>1. seq = <<>> => S = {}
    <3>1. seq = <<>> => 1 .. Len(seq) = {}
      OBVIOUS
    <3> QED
      BY Zenon, <3>1
  <2> QED
    BY Zenon, <1>1, <2>1
<1>3. ASSUME seq # <<>> PROVE Last(S) = seq[Len(seq)] /\ seq[Len(seq)] \in S
  <2> DEFINE top == seq[Len(seq)]
  <2>1. top \in S
    BY <1>1, <1>3
  <2>2. ASSUME NEW t \in S PROVE t <= top
    <3>1. PICK i \in 1 .. Len(seq) : seq[i] = t
      OBVIOUS
    <3>2. i < Len(seq) => seq[i] < top
      BY <1>1, <1>3
    <3>3. i = Len(seq) \/ i < Len(seq)
      BY <1>1, <1>3
    <3>4. t \in Nat /\ top \in Nat
      BY <2>1
    <3> QED
      BY <3>1, <3>2, <3>3, <3>4
  <2> HIDE DEF top
  <2>3. ASSUME NEW u \in S, \A t \in S : t <= u PROVE u = top
    BY <2>1, <2>2, <2>3
  <2>4. Last(S) = top
    BY Zenon, <2>1, <2>2, <2>3 DEF Last
  <2> QED
    BY <2>1, <2>4 DEF top
<1> QED
  BY <1>2, <1>3

(* The superior token jsmn_parse looks for is the top of the stack. *)
LEMMA Innermost ==
  ASSUME NEW w, Shape(w)
  PROVE  /\ OpenIn(w.ref) = {} <=> w.stack = <<>>
         /\ w.stack # <<>> => /\ Last(OpenIn(w.ref)) = TopOf(w)
                              /\ TopOf(w) \in OpenIn(w.ref)
                              /\ w.ref[TopOf(w)].type \in {"OBJECT", "ARRAY"}
         /\ Superior(OpenIn(w.ref)) = IF w.stack = <<>> THEN 0 ELSE TopOf(w)
<1> DEFINE S == OpenIn(w.ref)
           stk == w.stack
<1>1. S \in SUBSET Nat
  BY DEF OpenIn
<1>2. stk \in Seq(Nat)
        /\ (\A i \in 1 .. Len(stk) : stk[i] \in S)
        /\ (\A i, j \in 1 .. Len(stk) : i < j => stk[i] < stk[j])
        /\ (\A t \in S : \E i \in 1 .. Len(stk) : stk[i] = t)
  BY Zenon DEF Shape, Stacked
<1>3. S = {} <=> stk = <<>>
  BY Zenon, <1>1, <1>2, LargestLast
<1>4. stk # <<>> => Last(S) = stk[Len(stk)] /\ stk[Len(stk)] \in S
  BY Zenon, <1>1, <1>2, LargestLast
<1>5. stk # <<>> => Len(stk) \in 1 .. Len(stk)
  <2> HIDE DEF stk
  <2> QED
    BY <1>2
<1>6. stk # <<>> => w.ref[TopOf(w)].type \in {"OBJECT", "ARRAY"}
  BY Zenon, <1>5 DEF Shape, Stacked, TopOf
<1> QED
  BY Zenon, <1>3, <1>4, <1>6 DEF Superior, TopOf

(* The parent is a token, or none. *)
LEMMA ParentIn ==
  ASSUME NEW w, Shape(w)
  PROVE  /\ ParentOf(w) \in 0 .. Len(w.ref) /\ Len(w.ref) \in Nat
         /\ ParentOf(w) = 0 <=> w.stack = <<>>
         /\ ParentOf(w) # 0 =>
              ParentOf(w) = TopOf(w) \/ w.ref[ParentOf(w)].type = "STRING"
<1>1. w.key \in 0 .. Len(w.ref) /\ Len(w.ref) \in Nat
        /\ (w.key # 0 => w.ref[w.key].type = "STRING" /\ w.stack # <<>>)
  BY DEF Shape
<1>2. w.stack # <<>> => TopOf(w) \in 1 .. Len(w.ref)
  BY Zenon, Innermost DEF OpenIn
<1> QED
  BY <1>1, <1>2 DEF ParentOf

(* If a container is open, the last open token is the one on top of the    *)
(* stack.                                                                  *)
LEMMA InnermostOpen ==
  ASSUME NEW w, Shape(w), w.stack # <<>>
  PROVE  /\ OpenIn(w.ref) # {} /\ Last(OpenIn(w.ref)) = TopOf(w)
         /\ TopOf(w) \in OpenIn(w.ref) /\ w.ref[TopOf(w)].type \in {"OBJECT", "ARRAY"}
<1>1. TopOf(w) \in OpenIn(w.ref) /\ w.ref[TopOf(w)].type \in {"OBJECT", "ARRAY"}
  BY Zenon, Innermost
<1>2. Last(OpenIn(w.ref)) = TopOf(w)
  BY Zenon, Innermost
<1> QED
  BY <1>1, <1>2

-----------------------------------------------------------------------------
(* The writer's steps *)

(* A stack with something on top, and one without its top *)
LEMMA Pushed ==
  ASSUME NEW stk \in Seq(Nat), NEW t \in Nat
  PROVE  /\ Append(stk, t) \in Seq(Nat) /\ Append(stk, t) # <<>>
         /\ Append(stk, t)[Len(Append(stk, t))] = t
<1>1. Len(Append(stk, t)) = Len(stk) + 1
  OBVIOUS
<1>2. Append(stk, t) # <<>>
  BY <1>1
<1> QED
  BY <1>1, <1>2

(* The first n elements of a stack *)
LEMMA Prefix ==
  ASSUME NEW stk \in Seq(Nat), NEW n \in 0 .. Len(stk)
  PROVE  /\ SubSeq(stk, 1, n) \in Seq(Nat) /\ Len(SubSeq(stk, 1, n)) = n
         /\ \A i \in 1 .. n : SubSeq(stk, 1, n)[i] = stk[i]
OBVIOUS

(* A stack without its top *)
LEMMA Front ==
  ASSUME NEW stk \in Seq(Nat), stk # <<>>
  PROVE  LET rest == SubSeq(stk, 1, Len(stk) - 1) IN
         /\ rest \in Seq(Nat) /\ Len(rest) = Len(stk) - 1
         /\ \A i \in 1 .. Len(rest) : rest[i] = stk[i]
<1>1. Len(stk) - 1 \in 0 .. Len(stk)
  OBVIOUS
<1> QED
  BY Zenon, <1>1, Prefix

(* A closed token more does not change the stack, *)
LEMMA StackKept ==
  ASSUME NEW toks \in Seq(Token), NEW stk \in Seq(Nat), Stacked(toks, stk),
         NEW tok \in Token, tok.end # -1, NEW new, Longer(new, toks, tok)
  PROVE  Stacked(new, stk)
<1>1. OpenIn(new) = OpenIn(toks)
  BY DEF OpenIn, Longer
<1>2. \A t \in OpenIn(toks) : new[t].type = toks[t].type
  BY DEF OpenIn, Longer
<1> QED
  BY Zenon, <1>1, <1>2 DEF Stacked

(* an open one comes on top, *)
LEMMA StackPushed ==
  ASSUME NEW toks \in Seq(Token), NEW stk \in Seq(Nat), Stacked(toks, stk),
         NEW tok \in Token, tok.end = -1, tok.type \in {"OBJECT", "ARRAY"},
         NEW new, Longer(new, toks, tok)
  PROVE  Stacked(new, Append(stk, Len(toks) + 1))
<1> DEFINE n == Len(toks) + 1
           stk2 == Append(stk, n)
<1>1. OpenIn(new) = OpenIn(toks) \cup {n} /\ n \notin OpenIn(toks)
  BY DEF OpenIn, Longer
<1>2. \A t \in OpenIn(toks) : new[t].type = toks[t].type /\ t < n
  BY DEF OpenIn, Longer
<1>3. stk2 \in Seq(Nat) /\ Len(stk2) = Len(stk) + 1 /\ stk2[Len(stk) + 1] = n
        /\ \A i \in 1 .. Len(stk) : stk2[i] = stk[i]
  OBVIOUS
<1>4. 1 .. Len(stk2) = 1 .. Len(stk) \cup {Len(stk) + 1} /\ Len(stk) \in Nat
  BY <1>3
<1>5. \A i \in 1 .. Len(stk) : stk[i] \in OpenIn(toks)
        /\ toks[stk[i]].type \in {"OBJECT", "ARRAY"}
  BY Zenon DEF Stacked
<1> HIDE DEF n, stk2
<1>6. \A i \in 1 .. Len(stk2) : stk2[i] \in OpenIn(new) /\ new[stk2[i]].type \in {"OBJECT", "ARRAY"}
  <2>1. new[n].type \in {"OBJECT", "ARRAY"}
    BY DEF n, Longer
  <2>2. ASSUME NEW i \in 1 .. Len(stk)
        PROVE  stk2[i] \in OpenIn(new) /\ new[stk2[i]].type \in {"OBJECT", "ARRAY"}
    BY Zenon, <1>1, <1>2, <1>3, <1>5
  <2>3. stk2[Len(stk) + 1] \in OpenIn(new)
          /\ new[stk2[Len(stk) + 1]].type \in {"OBJECT", "ARRAY"}
    BY Zenon, <1>1, <1>3, <2>1
  <2> QED
    BY Zenon, <1>4, <2>2, <2>3
<1>7. ASSUME NEW i \in 1 .. Len(stk2), NEW j \in 1 .. Len(stk2), i < j
      PROVE  stk2[i] < stk2[j]
  <2>1. i \in 1 .. Len(stk)
    <3>1. i \in 1 .. Len(stk) + 1 /\ j \in 1 .. Len(stk) + 1
      BY Zenon, <1>3
    <3> QED
      BY <1>4, <1>7, <3>1
  <2>2. CASE j \in 1 .. Len(stk)
    BY Zenon, <1>3, <1>7, <2>1, <2>2 DEF Stacked
  <2>3. CASE j = Len(stk) + 1
    BY Zenon, <1>2, <1>3, <1>5, <2>1, <2>3
  <2> QED
    BY Zenon, <1>4, <2>2, <2>3
<1>8. ASSUME NEW t \in OpenIn(new) PROVE \E i \in 1 .. Len(stk2) : stk2[i] = t
  <2>1. CASE t = n
    BY Zenon, <1>3, <1>4, <2>1
  <2>2. CASE t \in OpenIn(toks)
    <3>1. PICK i \in 1 .. Len(stk) : stk[i] = t
      BY Zenon, <2>2 DEF Stacked
    <3> QED
      BY Zenon, <1>3, <1>4, <3>1
  <2> QED
    BY Zenon, <1>1, <2>1, <2>2
<1> QED
  BY Zenon, <1>6, <1>7, <1>8 DEF Stacked, stk2, n

(* and closing the top one takes it away. *)
Shorter(new, rest, toks, stk) ==
  /\ new \in Seq(Token) /\ Len(new) = Len(toks)
  /\ \A i \in 1 .. Len(toks) : new[i].type = toks[i].type /\ new[i].size = toks[i].size
  /\ rest \in Seq(Nat) /\ Stacked(new, rest)
  /\ OpenIn(new) = OpenIn(toks) \ {stk[Len(stk)]}

(* A closed container is taken off the stack. *)
LEMMA StackPopped ==
  ASSUME NEW toks \in Seq(Token), NEW stk \in Seq(Nat), Stacked(toks, stk), stk # <<>>,
         NEW m \in Nat
  PROVE  Shorter([toks EXCEPT ![stk[Len(stk)]].end = m], SubSeq(stk, 1, Len(stk) - 1), toks, stk)
<1> DEFINE t == stk[Len(stk)]
           one == [toks[t] EXCEPT !.end = m]
           new == [toks EXCEPT ![t].end = m]
           rest == SubSeq(stk, 1, Len(stk) - 1)
<1>1. Len(stk) \in 1 .. Len(stk) /\ Len(stk) \in Nat
  OBVIOUS
<1>2. t \in OpenIn(toks)
  BY Zenon, <1>1 DEF Stacked
<1>3. t \in 1 .. Len(toks) /\ toks[t] \in Token
  BY <1>2 DEF OpenIn
<1>4. one \in Token /\ one.end = m /\ one.type = toks[t].type /\ one.size = toks[t].size
  BY Zenon, <1>3, TokenFields
<1>5. new = [toks EXCEPT ![t] = one]
  BY <1>3
<1>6. rest \in Seq(Nat) /\ Len(rest) = Len(stk) - 1 /\ \A i \in 1 .. Len(rest) : rest[i] = stk[i]
  BY Zenon, Front
<1>7. 1 .. Len(stk) = 1 .. Len(rest) \cup {Len(stk)} /\ \A i \in 1 .. Len(rest) : i < Len(stk)
  BY <1>1, <1>6
<1> HIDE DEF t, one, new, rest
<1>8. new \in Seq(Token) /\ Len(new) = Len(toks)
        /\ \A i \in 1 .. Len(toks) : new[i] = IF i = t THEN one ELSE toks[i]
  BY <1>3, <1>4, <1>5
<1>9. \A i \in 1 .. Len(toks) : new[i].type = toks[i].type /\ new[i].size = toks[i].size
  BY Zenon, <1>4, <1>8
<1>10. OpenIn(new) = OpenIn(toks) \ {t}
  BY <1>3, <1>4, <1>8 DEF OpenIn
<1>11. ASSUME NEW i \in 1 .. Len(rest)
       PROVE  rest[i] \in OpenIn(new) /\ new[rest[i]].type \in {"OBJECT", "ARRAY"}
  <2>1. i \in 1 .. Len(stk) /\ rest[i] = stk[i] /\ i < Len(stk)
    BY Zenon, <1>6, <1>7
  <2>2. stk[i] \in OpenIn(toks) /\ toks[stk[i]].type \in {"OBJECT", "ARRAY"} /\ stk[i] < t
    BY Zenon, <1>1, <2>1 DEF Stacked, t
  <2>3. stk[i] # t /\ stk[i] \in 1 .. Len(toks)
    BY <1>3, <2>1, <2>2 DEF OpenIn
  <2> QED
    BY Zenon, <1>9, <1>10, <2>1, <2>2, <2>3
<1>12. \A i, j \in 1 .. Len(rest) : i < j => rest[i] < rest[j]
  BY Zenon, <1>6, <1>7 DEF Stacked
<1>13. ASSUME NEW u \in OpenIn(new) PROVE \E i \in 1 .. Len(rest) : rest[i] = u
  <2>1. u \in OpenIn(toks) /\ u # t
    BY Zenon, <1>10
  <2>2. PICK i \in 1 .. Len(stk) : stk[i] = u
    BY Zenon, <2>1 DEF Stacked
  <2>3. i \in 1 .. Len(rest)
    BY Zenon, <1>7, <2>1, <2>2 DEF t
  <2> QED
    BY Zenon, <1>6, <2>2, <2>3
<1>14. Stacked(new, rest)
  BY Zenon, <1>11, <1>12, <1>13 DEF Stacked
<1> QED
  BY Zenon, <1>6, <1>8, <1>9, <1>10, <1>14 DEF Shorter, t, new, rest

(* the types of the tokens that are added when they are complete *)
LeafTypes == {"STRING", "PRIMITIVE"}

(* Such a token is the only difference between v.ref and w.ref. *)
AddsLeaf(w, type, first, n, v) ==
  /\ Shape(w) /\ type \in LeafTypes /\ first \in Nat /\ n \in Nat
  /\ v.stack = w.stack /\ v.ref = Added(w.ref, ParentOf(w), NewToken(type, first, n))

(* They are the ones of strings and primitives. *)
LEMMA LeafTypesHave ==
  "STRING" \in LeafTypes /\ "PRIMITIVE" \in LeafTypes /\ LeafTypes \subseteq Types
BY DEF LeafTypes, Types

(* A successor is a natural number. *)
LEMMA Successor ==
  ASSUME NEW m, NEW n \in 0 .. m
  PROVE  n \in Nat /\ n + 1 \in Nat
OBVIOUS

(* So is that of a natural number. *)
LEMMA NextNat ==
  ASSUME NEW n \in Nat
  PROVE  n + 1 \in Nat /\ n + 1 # 0
OBVIOUS

(* The indices and the tokens of an empty text *)
LEMMA SmallRanges ==
  0 .. 0 = {0} /\ 0 .. 0 - 1 = {} /\ Len(<<>>) <= Len(<<>>)
OBVIOUS

(* The number of items of a token is a number. *)
LEMMA ItemsNat ==
  ASSUME NEW tok \in Token
  PROVE  Items(tok) \in Nat
BY DEF Token, Items

(* A child more is e items more. *)
LEMMA ChildItems ==
  ASSUME NEW tok, NEW new, new.type = tok.type, tok.size \in Nat, new.size = tok.size + 1,
         NEW e \in {0, 1, 2},
         tok.type = (CASE e = 0 -> "STRING" [] e = 1 -> "ARRAY" [] OTHER -> "OBJECT")
  PROVE  Items(new) = Items(tok) + e
BY DEF Items

(* What the writer's steps leave of w's tokens and stack *)
LEMMA LeafAdded ==
  ASSUME NEW w, NEW v, NEW type, NEW first, NEW n, AddsLeaf(w, type, first, n, v)
  PROVE  /\ v.ref \in Seq(Token) /\ Len(v.ref) = Len(w.ref) + 1 /\ Len(w.ref) \in Nat
         /\ Stacked(v.ref, v.stack)
         /\ v.ref[Len(w.ref) + 1].type = type
<1> DEFINE toks == w.ref
           new == v.ref
           tok == NewToken(type, first, n)
<1>0. /\ Shape(w) /\ type \in LeafTypes /\ first \in Nat /\ n \in Nat
      /\ v.stack = w.stack /\ v.ref = Added(w.ref, ParentOf(w), tok)
  BY Zenon DEF AddsLeaf
<1>1. tok \in Token /\ tok.end = n /\ tok.type = type
  BY <1>0, LeafTypesHave DEF NewToken, Token
<1>2. n # -1
  BY <1>0
<1>3. toks \in Seq(Token) /\ w.stack \in Seq(Nat) /\ Stacked(toks, w.stack)
  BY Zenon, <1>0 DEF Shape
<1>4. ParentOf(w) \in 0 .. Len(toks) /\ Len(toks) \in Nat
  BY Zenon, <1>0, ParentIn
<1>5. Longer(new, toks, tok)
  BY Zenon, <1>0, <1>1, <1>3, <1>4, AddedTokens
<1>6. Stacked(new, w.stack)
  BY Zenon, <1>1, <1>2, <1>3, <1>5, StackKept
<1> QED
  BY Zenon, <1>0, <1>1, <1>4, <1>5, <1>6 DEF Longer

(* A new object or array becomes the innermost open one. *)
LEMMA ContainerAdded ==
  ASSUME NEW w, Shape(w), NEW v, NEW type \in {"OBJECT", "ARRAY"}, NEW n \in Nat,
         v.stack = Append(w.stack, Len(w.ref) + 1),
         v.ref = Added(w.ref, ParentOf(w), NewToken(type, n, -1))
  PROVE  /\ v.ref \in Seq(Token) /\ Len(v.ref) = Len(w.ref) + 1 /\ Len(w.ref) \in Nat
         /\ Stacked(v.ref, v.stack) /\ v.stack \in Seq(Nat) /\ v.stack # <<>>
         /\ TopOf(v) = Len(w.ref) + 1
<1> DEFINE toks == w.ref
           new == v.ref
           stk == w.stack
           tok == NewToken(type, n, -1)
<1>1. tok \in Token /\ tok.end = -1 /\ tok.type = type
  BY DEF NewToken, Token, Types
<1>3. toks \in Seq(Token) /\ stk \in Seq(Nat) /\ Stacked(toks, stk)
  BY Zenon DEF Shape
<1>4. ParentOf(w) \in 0 .. Len(toks) /\ Len(toks) \in Nat
  BY Zenon, ParentIn
<1>5. Longer(new, toks, tok)
  BY Zenon, <1>1, <1>3, <1>4, AddedTokens DEF tok
<1>6. Stacked(new, Append(stk, Len(toks) + 1))
  BY Zenon, <1>1, <1>3, <1>5, StackPushed
<1>7. Len(toks) + 1 \in Nat
  BY <1>4
<1>8. Append(stk, Len(toks) + 1) \in Seq(Nat) /\ Append(stk, Len(toks) + 1) # <<>>
        /\ Append(stk, Len(toks) + 1)[Len(Append(stk, Len(toks) + 1))] = Len(toks) + 1
  BY Zenon, <1>3, <1>7, Pushed
<1> QED
  BY Zenon, <1>4, <1>5, <1>6, <1>8 DEF TopOf, Longer

(* The innermost container is closed, and the one around it becomes        *)
(* innermost.                                                              *)
LEMMA ContainerClosed ==
  ASSUME NEW w, Shape(w), w.stack # <<>>, NEW v, NEW n \in Nat,
         v.stack = SubSeq(w.stack, 1, Len(w.stack) - 1),
         v.ref = [w.ref EXCEPT ![TopOf(w)].end = n]
  PROVE  /\ v.ref \in Seq(Token) /\ Len(v.ref) = Len(w.ref) /\ Len(w.ref) \in Nat
         /\ Stacked(v.ref, v.stack) /\ v.stack \in Seq(Nat)
         /\ OpenIn(v.ref) = OpenIn(w.ref) \ {TopOf(w)}
<1>1. w.ref \in Seq(Token) /\ w.stack \in Seq(Nat) /\ Stacked(w.ref, w.stack)
  BY Zenon DEF Shape
<1>2. Len(w.ref) \in Nat
  BY <1>1
<1>3. Shorter([w.ref EXCEPT ![w.stack[Len(w.stack)]].end = n],
              SubSeq(w.stack, 1, Len(w.stack) - 1), w.ref, w.stack)
  BY Zenon, <1>1, StackPopped
<1>4. v.ref = [w.ref EXCEPT ![w.stack[Len(w.stack)]].end = n]
  BY Zenon DEF TopOf
<1>5. Shorter(v.ref, v.stack, w.ref, w.stack)
  BY Zenon, <1>3, <1>4
<1> QED
  BY Zenon, <1>2, <1>5 DEF Shorter, TopOf

(* Every step of the writer keeps the shape, and no token is lost. *)
LEMMA WroteShape ==
  ASSUME NEW w, Shape(w), NEW n \in Nat, NEW c, NEW v, Wrote(w, n, c, v)
  PROVE  Shape(v) /\ Len(w.ref) <= Len(v.ref)
<1>0. Len(w.ref) \in Nat /\ w.from \in Nat /\ w.key \in 0 .. Len(w.ref)
        /\ n + 1 \in Nat /\ Len(w.ref) <= Len(w.ref)
  BY DEF Shape
<1>1. CASE Opened(w, n, c, v)
  <2>1. TypeOf(c) \in {"OBJECT", "ARRAY"}
    BY Zenon DEF TypeOf
  <2>2. /\ v.ref \in Seq(Token) /\ Len(v.ref) = Len(w.ref) + 1
        /\ Stacked(v.ref, v.stack) /\ v.stack \in Seq(Nat) /\ v.stack # <<>>
    BY Zenon, <1>1, <2>1, ContainerAdded DEF Opened
  <2>3. v.expect \in {"member", "item"} /\ v.key = 0 /\ v.from = w.from /\ v.escape = <<>>
    BY <1>1 DEF Opened, Shape, Within
  <2> QED
    BY <1>0, <2>2, <2>3 DEF Shape, Between, Within
<1>2. CASE Closed(w, n, c, v)
  <2>1. w.stack # <<>>
    BY <1>2 DEF Closed, Shape
  <2>2. /\ v.ref \in Seq(Token) /\ Len(v.ref) = Len(w.ref)
        /\ Stacked(v.ref, v.stack) /\ v.stack \in Seq(Nat)
    BY ZenonT(30), <1>0, <1>2, <2>1, ContainerClosed DEF Closed
  <2>3. v.expect = After(v.stack) /\ v.key = 0 /\ v.from = w.from /\ v.escape = <<>>
    BY <1>2 DEF Closed, Shape, Within
  <2> QED
    BY <1>0, <2>2, <2>3 DEF Shape, After, Between, Within
<1>3. CASE Separated(w, c, v)
  BY <1>0, <1>3 DEF Separated, Shape, Between, Within
<1>4. CASE Quoted(w, n, c, v)
  BY <1>0, <1>4 DEF Quoted, Keeps, Shape, Between, Within
<1>5. CASE Spelled(w, c, v)
  BY <1>0, <1>5 DEF Spelled, Keeps, Shape, Between, Within
<1>6. CASE Unquoted(w, n, c, v)
  <2>1. /\ v.ref \in Seq(Token) /\ Len(v.ref) = Len(w.ref) + 1
        /\ Stacked(v.ref, v.stack) /\ v.ref[Len(w.ref) + 1].type = "STRING"
    <3>1. AddsLeaf(w, "STRING", w.from, n, v)
      BY Zenon, <1>0, <1>6, LeafTypesHave DEF AddsLeaf, Unquoted, Shape
    <3> QED
      BY Zenon, <3>1, LeafAdded
  <2> QED
    BY <1>0, <1>6, <2>1 DEF Unquoted, Shape, After, Between, Within
<1>7. CASE Primitive(w, n, c, v)
  <2>1. CASE \E first \in Nat : Started(w, first, v) /\ w.expect \notin Within
    BY SMTT(30), <1>0, <1>7, <2>1 DEF Primitive, Started, Keeps, Shape, Between, Within
  <2>2. ASSUME NEW first \in Nat, Ended(w, first, n + 1, v)
        PROVE  Shape(v) /\ Len(w.ref) <= Len(v.ref)
    <3>1. /\ v.ref \in Seq(Token) /\ Len(v.ref) = Len(w.ref) + 1
          /\ Stacked(v.ref, v.stack)
      <4>1. AddsLeaf(w, "PRIMITIVE", first, n + 1, v)
        BY Zenon, <1>0, <2>2, LeafTypesHave DEF AddsLeaf, Ended
      <4> QED
        BY Zenon, <4>1, LeafAdded
    <3> QED
      BY <1>0, <1>7, <2>2, <3>1 DEF Primitive, Ended, Shape, After, Between, Within
  <2> QED
    BY <1>0, <1>7, <2>1, <2>2 DEF Primitive, Within
<1>8. CASE Damaged(w, c, v)
  BY <1>0, <1>8 DEF Damaged, Keeps, Shape, Between, Within
<1> QED
  BY <1>1, <1>2, <1>3, <1>4, <1>5, <1>6, <1>7, <1>8 DEF Wrote

(* The writer's actions are the steps of Wrote, and the end of a primitive. *)
LEMMA WriteStep ==
  ASSUME Shape(Now), Write
  PROVE  /\ pc = "read" /\ UNCHANGED <<jsmn, reader>> /\ expect # "damaged"
         /\ \/ \E c : js' = Append(js, c) /\ Wrote(Now, Len(js), c, Now')
            \/ js' = js /\ expect = "primitive" /\ Ended(Now, from, Len(js), Now')
<1>0. pc = "read" /\ UNCHANGED <<jsmn, reader>> /\ expect # "damaged"
  <2>1. CASE \E c : Put(c)
    BY <2>1 DEF Write, Put
  <2> QED
    BY Zenon, <2>1 DEF Write, WriteOpen, WriteClose, WriteComma, WriteColon, WriteBlank,
         WriteString, WritePrimitive, Damage
<1>1. /\ Now.expect = expect /\ Now.stack = stack /\ Now.key = key /\ Now.from = from
      /\ Now.escape = escape /\ Now.ref = ref
  BY DEF Now
<1>2. /\ (Now').expect = expect' /\ (Now').stack = stack' /\ (Now').key = key'
      /\ (Now').from = from' /\ (Now').escape = escape' /\ (Now').ref = ref'
  BY DEF Now
<1>3. TopOf(Now) = Top /\ ParentOf(Now) = Parent
  BY Zenon, <1>1 DEF TopOf, Top, ParentOf, Parent
<1>4. \A type, first, end : Child(type, first, end) = Added(ref, Parent, NewToken(type, first, end))
  BY Zenon DEF Child, Added
<1>5. expect \in Between \cup Within \cup {"primitive", "damaged"}
        /\ (expect \notin Within => escape = <<>>)
  BY Zenon, <1>1 DEF Shape
<1> DEFINE Goal == \/ \E c : js' = Append(js, c) /\ Wrote(Now, Len(js), c, Now')
                   \/ js' = js /\ expect = "primitive" /\ Ended(Now, from, Len(js), Now')
<1> SUFFICES Goal
  BY Zenon, <1>0
<1>6. ASSUME NEW c \in {"lbrace", "lbracket"}, WriteOpen(c) PROVE Goal
  <2>2. Opened(Now, Len(js), c, Now') /\ js' = Append(js, c)
    BY Zenon, <1>1, <1>2, <1>3, <1>4, <1>6 DEF WriteOpen, Put, Opened
  <2> QED
    BY Zenon, <2>2 DEF Wrote
<1>7. ASSUME NEW c \in {"rbrace", "rbracket"}, WriteClose(c) PROVE Goal
  <2>2. Closed(Now, Len(js), c, Now') /\ js' = Append(js, c)
    BY Zenon, <1>1, <1>2, <1>3, <1>7 DEF WriteClose, Put, Closed
  <2> QED
    BY Zenon, <2>2 DEF Wrote
<1>8. CASE WriteComma
  <2>2. Separated(Now, "comma", Now') /\ js' = Append(js, "comma")
    BY Zenon, <1>1, <1>2, <1>3, <1>8 DEF WriteComma, Put, Separated
  <2> QED
    BY Zenon, <2>2 DEF Wrote
<1>9. CASE WriteColon
  <2>2. Separated(Now, "colon", Now') /\ js' = Append(js, "colon")
    BY Zenon, <1>1, <1>2, <1>9 DEF WriteColon, Put, Separated
  <2> QED
    BY Zenon, <2>2 DEF Wrote
<1>10. CASE WriteBlank
  <2>2. expect \in Between
    BY <1>5, <1>10 DEF WriteBlank, Between, Within
  <2>3. Separated(Now, "blank", Now') /\ js' = Append(js, "blank")
    BY Zenon, <1>1, <1>2, <1>10, <2>2 DEF WriteBlank, Put, Separated
  <2> QED
    BY Zenon, <2>3 DEF Wrote
<1>11. CASE WriteString
  <2>2. CASE /\ expect \in {"value", "item", "member", "key"}
             /\ Put("quote")
             /\ expect' = IF expect \in {"member", "key"} THEN "keystring" ELSE "string"
             /\ from' = Len(js) + 1 /\ UNCHANGED <<stack, key, escape, ref>>
    <3>1. Quoted(Now, Len(js), "quote", Now') /\ js' = Append(js, "quote")
      BY Zenon, <1>1, <1>2, <2>2 DEF Put, Quoted, Keeps
    <3> QED
      BY Zenon, <3>1 DEF Wrote
  <2>3. ASSUME NEW c \in {"x", "rbrace", "backslash"},
               expect \in {"string", "keystring"}, escape = <<>>, Put(c),
               escape' \in IF c # "backslash" THEN {<<>>}
                           ELSE {<<"quote">>, <<"backslash">>, <<"u", "b", "b", "b", "b">>},
               UNCHANGED <<expect, stack, key, from, ref>>
        PROVE  Goal
    <3>1. \/ c \in {"x", "rbrace"} /\ escape' = <<>>
          \/ /\ c = "backslash"
             /\ escape' \in {<<"quote">>, <<"backslash">>, <<"u", "b", "b", "b", "b">>}
      BY Zenon, <2>3
    <3>2. Spelled(Now, c, Now') /\ js' = Append(js, c)
      BY Zenon, <1>1, <1>2, <2>3, <3>1 DEF Put, Spelled, Keeps, Within
    <3> QED
      BY Zenon, <3>2 DEF Wrote
  <2>4. CASE /\ escape # <<>>
             /\ Put(Head(escape)) /\ escape' = Tail(escape)
             /\ UNCHANGED <<expect, stack, key, from, ref>>
    <3>1. Spelled(Now, Head(escape), Now') /\ js' = Append(js, Head(escape))
      BY Zenon, <1>1, <1>2, <1>5, <2>4 DEF Put, Spelled, Keeps
    <3> QED
      BY Zenon, <3>1 DEF Wrote
  <2>5. CASE /\ expect \in {"string", "keystring"} /\ escape = <<>>
             /\ Put("quote")
             /\ ref' = Child("STRING", from, Len(js))
             /\ IF expect = "string" THEN expect' = After(stack) /\ key' = 0
                ELSE expect' = "colon" /\ key' = Len(ref) + 1
             /\ UNCHANGED <<stack, from, escape>>
    <3>1. Unquoted(Now, Len(js), "quote", Now') /\ js' = Append(js, "quote")
      BY Zenon, <1>1, <1>2, <1>3, <1>4, <2>5 DEF Put, Unquoted, Within
    <3> QED
      BY Zenon, <3>1 DEF Wrote
  <2> QED
    BY Zenon, <1>11, <2>2, <2>3, <2>4, <2>5 DEF WriteString
<1>12. CASE WritePrimitive
  <2>2. CASE /\ expect \in {"value", "item"} /\ Put("x")
             /\ expect' = "primitive" /\ from' = Len(js)
             /\ UNCHANGED <<stack, key, escape, ref>>
    <3>1. Primitive(Now, Len(js), "x", Now') /\ js' = Append(js, "x")
      BY Zenon, <1>1, <1>2, <2>2 DEF Put, Primitive, Started, Keeps
    <3> QED
      BY Zenon, <3>1 DEF Wrote
  <2>3. CASE /\ expect = "primitive"
             /\ Put("x")
             /\ UNCHANGED <<expect, stack, key, from, escape, ref>>
    <3>1. Primitive(Now, Len(js), "x", Now') /\ js' = Append(js, "x")
      BY Zenon, <1>1, <1>2, <2>3 DEF Put, Primitive, Started, Keeps
    <3> QED
      BY Zenon, <3>1 DEF Wrote
  <2>4. CASE /\ expect = "primitive"
             /\ ref' = Child("PRIMITIVE", from, Len(js))
             /\ expect' = After(stack) /\ key' = 0
             /\ UNCHANGED <<js, stack, from, escape>>
    BY Zenon, <1>1, <1>2, <1>3, <1>4, <2>4 DEF Ended
  <2> QED
    BY Zenon, <1>12, <2>2, <2>3, <2>4 DEF WritePrimitive
<1>13. CASE Damage
  <2>2. PICK c \in {"rbrace", "rbracket", "ctl", "x"} :
          /\ Put(c)
          /\ \/ /\ expect \in {"separator", "item", "member", "end"} /\ c \in {"rbrace", "rbracket"}
                /\ stack # <<>> => TypeOf(c) # ref[Top].type
             \/ expect \in {"value", "primitive"} /\ c = "ctl"
             \/ escape # <<>> /\ c = "x"
    BY <1>13 DEF Damage
  <2>3. Damaged(Now, c, Now') /\ js' = Append(js, c)
    BY Zenon, <1>1, <1>2, <1>3, <1>5, <1>13, <2>2 DEF Put, Damage, Damaged, Keeps
  <2> QED
    BY Zenon, <2>3 DEF Wrote
<1> QED
  BY Zenon, <1>6, <1>7, <1>8, <1>9, <1>10, <1>11, <1>12, <1>13 DEF Write

-----------------------------------------------------------------------------
(* The history *)

(* h, up to state last, is also the beginning of a history of text. *)
Continued(h, last, text, w) ==
  \E g : Recorded(g, text, w) /\ \A n \in 0 .. last : g[n] = h[n]

(* A text with one more character *)
LEMMA LongerText ==
  ASSUME NEW text \in Seq(Chars), NEW c
  PROVE  Len(Append(text, c)) = Len(text) + 1 /\ Append(text, c)[Len(text) + 1] = c
           /\ \A i \in 1 .. Len(text) : Append(text, c)[i] = text[i]
OBVIOUS

(* A new character extends the history, *)
LEMMA HistoryGrows ==
  ASSUME NEW text \in Seq(Chars), NEW w, NEW h, Recorded(h, text, w), w.expect # "damaged",
         NEW c, NEW v, Wrote(w, Len(text), c, v)
  PROVE  Continued(h, Len(text), Append(text, c), v)
<1> DEFINE len == Len(text)
           new == Append(text, c)
           g == [n \in 0 .. len + 1 |-> IF n = len + 1 THEN v ELSE h[n]]
<1>1. len \in Nat /\ Len(new) = len + 1 /\ new[len + 1] = c
        /\ \A i \in 1 .. len : new[i] = text[i]
  BY LongerText
<1> HIDE DEF len, new
<1>2. g[len + 1] = v /\ \A n \in 0 .. len : g[n] = h[n]
  BY <1>1
<1>3. h[len] = w /\ Shape(w) /\ Len(w.ref) \in Nat
  <2>1. h[len] = w /\ (len \in 0 .. len => Shape(h[len]))
    BY Zenon DEF Recorded, len
  <2>2. len \in 0 .. len
    BY <1>1
  <2>3. w.ref \in Seq(Token)
    BY Zenon, <2>1, <2>2 DEF Shape
  <2>4. Len(w.ref) \in Nat
    BY <2>3
  <2> QED
    BY Zenon, <2>1, <2>2, <2>4
<1>4. Shape(v) /\ Len(w.ref) <= Len(v.ref)
  BY Zenon, <1>1, <1>3, WroteShape DEF len
<1>5. Len(v.ref) \in Nat
  BY <1>4 DEF Shape
<1> HIDE DEF g
<1>6. ASSUME NEW n \in 0 .. Len(new) - 1
      PROVE  Wrote(g[n], n, new[n + 1], g[n + 1]) /\ g[n].expect # "damaged"
  <2>1. CASE n = len
    <3>1. g[n] = w /\ g[n + 1] = v /\ new[n + 1] = c
      BY <1>1, <1>2, <1>3, <2>1
    <3> QED
      BY Zenon, <2>1, <3>1 DEF len
  <2>2. CASE n # len
    <3>1. n \in 0 .. Len(text) - 1 /\ n \in 0 .. len /\ n + 1 \in 0 .. len /\ n + 1 \in 1 .. len
      BY <1>1, <2>2 DEF len
    <3>2. g[n] = h[n] /\ g[n + 1] = h[n + 1] /\ new[n + 1] = text[n + 1]
      BY Zenon, <1>1, <1>2, <3>1
    <3> QED
      BY Zenon, <3>1, <3>2 DEF Recorded
  <2> QED
    BY <2>1, <2>2
<1>7. ASSUME NEW n \in 0 .. Len(new)
      PROVE  Shape(g[n]) /\ Len(g[n].ref) <= Len(v.ref)
  <2>1. CASE n = len + 1
    <3>1. g[n] = v /\ Len(v.ref) <= Len(v.ref)
      BY <1>2, <1>5, <2>1
    <3> QED
      BY Zenon, <1>4, <3>1
  <2>2. CASE n \in 0 .. len
    <3>1. g[n] = h[n] /\ Shape(h[n]) /\ Len(h[n].ref) <= Len(w.ref)
      BY Zenon, <1>2, <2>2 DEF Recorded, len
    <3>2. Len(h[n].ref) \in Nat
      BY <3>1 DEF Shape
    <3>3. Len(h[n].ref) <= Len(v.ref)
      BY <1>3, <1>4, <1>5, <3>1, <3>2
    <3> QED
      BY Zenon, <3>1, <3>3
  <2> QED
    BY <1>1, <2>1, <2>2
<1>8. g[0] = h[0] /\ g[Len(new)] = v
  BY <1>1, <1>2
<1>9. Recorded(g, new, v)
  BY Zenon, <1>6, <1>7, <1>8 DEF Recorded
<1> QED
  BY Zenon, <1>2, <1>9 DEF new, len, Continued

(* and the end of a primitive replaces its last state. *)
LEMMA HistoryEnds ==
  ASSUME NEW text \in Seq(Chars), NEW w, NEW h, Recorded(h, text, w), w.expect = "primitive",
         NEW v, Ended(w, w.from, Len(text), v)
  PROVE  Continued(h, Len(text) - 1, text, v)
<1> DEFINE len == Len(text)
           g == [n \in 0 .. len |-> IF n = len THEN v ELSE h[n]]
<1>1. len \in Nat
  OBVIOUS
<1> HIDE DEF len
<1>2. g[len] = v /\ \A n \in 0 .. len - 1 : g[n] = h[n]
  BY <1>1
<1>3. h[len] = w /\ h[0].expect = "value"
  BY Zenon DEF Recorded, len
<1>4. len > 0
  BY <1>1, <1>3
<1>5. len - 1 \in 0 .. len - 1 /\ len - 1 \in Nat /\ (len - 1) + 1 = len
  BY <1>1, <1>4
<1>6. Shape(h[len - 1]) /\ Wrote(h[len - 1], len - 1, text[len], w)
  <2>1. Wrote(h[len - 1], len - 1, text[(len - 1) + 1], h[(len - 1) + 1])
    BY Zenon, <1>5 DEF Recorded, len
  <2>2. len - 1 \in 0 .. len
    BY <1>5
  <2> QED
    BY Zenon, <1>3, <1>5, <2>1, <2>2 DEF Recorded, len
<1>7. Wrote(h[len - 1], len - 1, text[len], v)
  <2> DEFINE s == h[len - 1]
  <2> HIDE DEF s
  <2>1. Wrote(s, len - 1, text[len], w) /\ Shape(s)
    BY Zenon, <1>6 DEF s
  <2>2. Primitive(s, len - 1, text[len], w)
    <3>1. Separated(s, text[len], w) => FALSE
      BY DEF Separated, Between
    <3>2. Spelled(s, text[len], w) => FALSE
      BY DEF Spelled, Within
    <3>3. w.expect # After(w.stack) /\ w.expect # After(s.stack)
      BY DEF After
    <3>4. ~Opened(s, len - 1, text[len], w) /\ ~Quoted(s, len - 1, text[len], w)
      BY DEF Opened, Quoted
    <3>5. ~Closed(s, len - 1, text[len], w) /\ ~Unquoted(s, len - 1, text[len], w)
      BY <3>3 DEF Closed, Unquoted
    <3>6. ~Damaged(s, text[len], w)
      BY DEF Damaged
    <3> QED
      BY Zenon, <2>1, <3>1, <3>2, <3>4, <3>5, <3>6 DEF Wrote
  <2>3. \A first, n : Started(s, first, w) => ~Ended(s, first, n, w)
    BY DEF Started, Ended, After
  <2>4. ASSUME NEW first, Started(s, first, w) PROVE Ended(s, first, len, v)
    <3>1. /\ w.from = first /\ w.stack = s.stack /\ w.key = s.key
          /\ w.ref = s.ref /\ w.escape = s.escape
      BY Zenon, <2>4 DEF Started, Keeps
    <3>2. ParentOf(w) = ParentOf(s)
      BY Zenon, <3>1 DEF ParentOf, TopOf
    <3> QED
      BY Zenon, <3>1, <3>2 DEF Ended, len
  <2>5. \A first, n : ~Ended(s, first, n, w)
    BY DEF Ended, After
  <2>6. Primitive(s, len - 1, text[len], v)
    BY Zenon, <1>5, <2>2, <2>4, <2>5 DEF Primitive
  <2> QED
    BY Zenon, <2>6 DEF Wrote, s
<1>8. Shape(v) /\ Len(h[len - 1].ref) <= Len(v.ref)
  BY Zenon, <1>5, <1>6, <1>7, WroteShape
<1>9. Len(w.ref) <= Len(v.ref) /\ Len(w.ref) \in Nat /\ Len(v.ref) \in Nat
  <2>1. len \in 0 .. len
    BY <1>1
  <2>2. Shape(w)
    BY Zenon, <1>3, <2>1 DEF Recorded, len
  <2>3. w.from \in Nat
    BY Zenon, <2>2 DEF Shape
  <2>4. Len(v.ref) = Len(w.ref) + 1 /\ Len(w.ref) \in Nat
    <3>1. AddsLeaf(w, "PRIMITIVE", w.from, len, v)
      BY Zenon, <1>1, <2>2, <2>3, LeafTypesHave DEF AddsLeaf, Ended, len
    <3> QED
      BY Zenon, <3>1, LeafAdded
  <2> QED
    BY <2>4
<1> HIDE DEF g
<1>10. ASSUME NEW n \in 0 .. len - 1
      PROVE  Wrote(g[n], n, text[n + 1], g[n + 1]) /\ g[n].expect # "damaged"
  <2>1. g[n] = h[n] /\ Wrote(h[n], n, text[n + 1], h[n + 1]) /\ h[n].expect # "damaged"
    BY Zenon, <1>2 DEF Recorded, len
  <2>2. CASE n = len - 1
    BY Zenon, <1>2, <1>5, <1>7, <2>1, <2>2
  <2>3. CASE n # len - 1
    <3>1. n + 1 \in 0 .. len - 1
      BY <1>1, <2>3
    <3> QED
      BY Zenon, <1>2, <2>1, <3>1
  <2> QED
    BY <2>2, <2>3
<1>11. ASSUME NEW n \in 0 .. len
      PROVE  Shape(g[n]) /\ Len(g[n].ref) <= Len(v.ref)
  <2>1. CASE n = len
    <3>1. Len(v.ref) <= Len(v.ref)
      BY <1>9
    <3> QED
      BY Zenon, <1>2, <1>8, <2>1, <3>1
  <2>2. CASE n \in 0 .. len - 1
    <3>1. g[n] = h[n] /\ Shape(h[n]) /\ Len(h[n].ref) <= Len(w.ref)
      BY Zenon, <1>2, <2>2 DEF Recorded, len
    <3>2. Len(h[n].ref) \in Nat
      BY <3>1 DEF Shape
    <3>3. Len(h[n].ref) <= Len(v.ref)
      BY <1>9, <3>1, <3>2
    <3> QED
      BY Zenon, <3>1, <3>3
  <2> QED
    BY <1>1, <2>1, <2>2
<1>12. g[0] = h[0] /\ g[len] = v
  BY <1>1, <1>2, <1>4
<1>13. Recorded(g, text, v)
  BY Zenon, <1>10, <1>11, <1>12 DEF Recorded, len
<1> QED
  BY Zenon, <1>2, <1>13 DEF len, Continued

-----------------------------------------------------------------------------
(* What the next character says about the state it was written in *)

(* between two tokens, *)
LEMMA CharBetween ==
  ASSUME NEW w, NEW n, NEW c, NEW v, Wrote(w, n, c, v), w.expect \in Between
  PROVE  /\ c \in {"lbrace", "lbracket"} => Opened(w, n, c, v)
         /\ c \in {"rbrace", "rbracket"} => Closed(w, n, c, v) \/ Damaged(w, c, v)
         /\ c \in {"comma", "colon", "blank"} => Separated(w, c, v)
         /\ c = "quote" => Quoted(w, n, c, v)
         /\ c \in {"x", "b", "u", "backslash", "ctl"} =>
              \/ c = "x" /\ w.expect \in {"value", "item"} /\ Primitive(w, n, c, v)
              \/ c = "ctl" /\ w.expect = "value" /\ Damaged(w, c, v)
<1>1. w.expect \notin Within /\ w.expect # "primitive"
  BY DEF Between, Within
<1>2. ~Spelled(w, c, v) /\ ~Unquoted(w, n, c, v)
  BY Zenon, <1>1 DEF Spelled, Unquoted
<1>3. Opened(w, n, c, v) => c \in {"lbrace", "lbracket"}
  BY Zenon DEF Opened
<1>4. Closed(w, n, c, v) => c \in {"rbrace", "rbracket"}
  BY Zenon DEF Closed
<1>5. Separated(w, c, v) => c \in {"comma", "colon", "blank"}
  BY Zenon DEF Separated
<1>6. Quoted(w, n, c, v) => c = "quote"
  BY Zenon DEF Quoted
<1>7. Primitive(w, n, c, v) => c = "x" /\ w.expect \in {"value", "item"}
  BY Zenon, <1>1 DEF Primitive
<1>8. Damaged(w, c, v) =>
        \/ c \in {"rbrace", "rbracket"} /\ w.expect # "value"
        \/ c = "ctl" /\ w.expect = "value"
  BY <1>1 DEF Damaged
<1> QED
  BY <1>2, <1>3, <1>4, <1>5, <1>6, <1>7, <1>8 DEF Wrote

(* in a string, *)
LEMMA CharWithin ==
  ASSUME NEW w, NEW n, NEW c, NEW v, Wrote(w, n, c, v), w.expect \in Within
  PROVE  \/ Spelled(w, c, v)
         \/ Unquoted(w, n, c, v)
         \/ Damaged(w, c, v) /\ w.escape # <<>> /\ c = "x"
<1>1. w.expect \in {"string", "keystring"}
  BY DEF Within
<1>2. ~Opened(w, n, c, v) /\ ~Closed(w, n, c, v) /\ ~Quoted(w, n, c, v) /\ ~Primitive(w, n, c, v)
  BY <1>1 DEF Opened, Closed, Quoted, Primitive
<1>3. ~Separated(w, c, v)
  BY <1>1 DEF Separated, Between
<1>4. Damaged(w, c, v) => w.escape # <<>> /\ c = "x"
  BY <1>1 DEF Damaged
<1> QED
  BY Zenon, <1>2, <1>3, <1>4 DEF Wrote

(* and in a primitive or behind one. *)
LEMMA CharPrimitive ==
  ASSUME NEW w, NEW n, NEW c, NEW v, Wrote(w, n, c, v)
  PROVE  /\ w.expect = "primitive" =>
              \/ c = "x" /\ Primitive(w, n, c, v)
              \/ c = "ctl" /\ Damaged(w, c, v)
         /\ w.expect \in {"separator", "end"} => c \in Delimiters
<1>1. ASSUME w.expect = "primitive"
      PROVE  (c = "x" /\ Primitive(w, n, c, v)) \/ (c = "ctl" /\ Damaged(w, c, v))
  <2>1. ~Opened(w, n, c, v) /\ ~Closed(w, n, c, v) /\ ~Quoted(w, n, c, v)
    BY <1>1 DEF Opened, Closed, Quoted
  <2>2. ~Separated(w, c, v) /\ ~Spelled(w, c, v) /\ ~Unquoted(w, n, c, v)
    BY <1>1 DEF Separated, Spelled, Unquoted, Between, Within
  <2>3. Damaged(w, c, v) => c = "ctl"
    BY <1>1 DEF Damaged, Within
  <2>4. Primitive(w, n, c, v) => c = "x"
    BY Zenon DEF Primitive
  <2> QED
    BY Zenon, <2>1, <2>2, <2>3, <2>4 DEF Wrote
<1>2. ASSUME w.expect \in {"separator", "end"} PROVE c \in Delimiters
  <2>1. w.expect \in Between
    BY <1>2 DEF Between
  <2>2. ~Opened(w, n, c, v) /\ ~Quoted(w, n, c, v) /\ ~Primitive(w, n, c, v)
    BY <1>2 DEF Opened, Quoted, Primitive
  <2>3. ~Spelled(w, c, v) /\ ~Unquoted(w, n, c, v)
    BY <1>2 DEF Spelled, Unquoted, Within
  <2>4. Closed(w, n, c, v) \/ Separated(w, c, v) \/ Damaged(w, c, v)
    BY Zenon, <2>2, <2>3 DEF Wrote
  <2> QED
    BY <1>2, <2>4 DEF Closed, Separated, Damaged, Delimiters, Within
<1> QED
  BY <1>1, <1>2

(* The states around a character, and the state at the end *)
LEMMA Around ==
  ASSUME js \in Seq(Chars), NEW h, Recorded(h, js, Now), NEW p \in 0 .. Len(js) - 1
  PROVE  /\ Shape(h[p]) /\ Shape(h[p + 1]) /\ Wrote(h[p], p, js[p + 1], h[p + 1])
         /\ Len(h[p + 1].ref) <= Len(ref) /\ Len(ref) \in Nat /\ p \in Nat
         /\ h[p + 1].expect = "damaged" =>
              expect = "damaged" /\ h[p + 1].ref = ref /\ p + 1 = Len(js)
<1>1. p \in 0 .. Len(js) /\ p + 1 \in 0 .. Len(js) /\ p \in Nat
  OBVIOUS
<1>2. Now.expect = expect /\ Now.ref = ref
  BY DEF Now
<1>3. Shape(h[p]) /\ Shape(h[p + 1]) /\ Wrote(h[p], p, js[p + 1], h[p + 1])
        /\ Len(h[p + 1].ref) <= Len(ref)
  BY Zenon, <1>1, <1>2 DEF Recorded
<1>4. ASSUME h[p + 1].expect = "damaged" PROVE p + 1 = Len(js)
  <2>1. p + 1 \in 0 .. Len(js) - 1 => h[p + 1].expect # "damaged"
    BY Zenon DEF Recorded
  <2> QED
    BY <1>1, <1>4, <2>1
<1>5. h[Len(js)] = Now
  BY Zenon DEF Recorded
<1>6. Len(ref) \in Nat
  <2>1. Len(js) \in 0 .. Len(js)
    OBVIOUS
  <2>2. ref \in Seq(Token)
    BY Zenon, <1>2, <1>5, <2>1 DEF Recorded, Shape
  <2> QED
    BY <2>2
<1> QED
  BY Zenon, <1>1, <1>2, <1>3, <1>4, <1>5, <1>6

(* The state of the history at the end of the text is the one of the       *)
(* writer.                                                                 *)
LEMMA Behind ==
  ASSUME InBounds, NEW h, Recorded(h, js, Now), pos >= Len(js)
  PROVE  h[pos].expect = expect /\ h[pos].ref = ref /\ h[pos].stack = stack /\ Shape(h[pos])
<1>1. pos = Len(js) /\ Len(js) \in 0 .. Len(js)
  BY DEF InBounds, JsmnTypeOK
<1>2. h[Len(js)] = Now /\ Shape(h[Len(js)])
  BY Zenon, <1>1 DEF Recorded
<1> QED
  BY <1>1, <1>2 DEF Now

-----------------------------------------------------------------------------
(* The steps of jsmn_parse *)

Follows(h) ==
  /\ InBounds /\ Recorded(h, js, Now) /\ Matches(h)
  /\ Concerned /\ pc = "parse" /\ expect # "primitive"
  /\ null => num = 0

Synced(h) == (Concerned => Matches(h)) /\ TokensMatch

writer == <<expect, stack, key, from, escape, ref>>

(* On to the next token *)
LEMMA Advance ==
  ASSUME NEW h, mode' = "main", UNCHANGED null, h[pos'].expect \in Between,
         null => count' = Len(h[pos'].ref),
         ~null => tokens' = h[pos'].ref /\ Super(toksuper', h[pos'])
  PROVE  Synced(h)'
<1>1. Base' = pos'
  BY DEF Base
<1>2. Matches(h)'
  BY <1>1 DEF Matches
<1> QED
  BY <1>2 DEF Synced, TokensMatch

(* An error: the call may be resumed where the token began. *)
LEMMA Stop ==
  ASSUME NEW h, Matches(h), NEW error, Fail(error, Base), UNCHANGED <<writer, cut>>,
         null => (expect = "end" => error = Len(ref)),
         ~null => /\ error # NOMEM => tokens = ref
                  /\ error = NOMEM => Len(tokens) = num /\ Len(ref) > num
                  /\ error = INVAL => expect = "damaged"
                  /\ error = PART => expect # "end"
  PROVE  Synced(h)'
<1>1. /\ mode' = "idle"
      /\ r' = error
      /\ pos' = Base
      /\ UNCHANGED <<tokens, toksuper, num, null>>
  BY Zenon DEF Fail, args
<1>2. Base' = Base
  BY <1>1 DEF Base
<1>3. ~null => Matches(h)'
  BY <1>1, <1>2 DEF Matches
<1>4. TokensMatch'
  BY <1>1 DEF TokensMatch, writer
<1> QED
  BY <1>1, <1>3, <1>4 DEF Synced, Concerned

(* JSMN_ERROR_NOMEM: the text has more tokens than fit into the array. *)
LEMMA NoRoom ==
  ASSUME NEW h, Follows(h), Fail(NOMEM, Base), UNCHANGED <<writer, cut>>, ~null,
         Len(tokens) >= num, Len(tokens) < Len(ref)
  PROVE  Synced(h)'
<1>1. Len(tokens) = num /\ Len(ref) > num
  BY DEF Follows, InBounds, JsmnTypeOK
<1>2. NOMEM # INVAL /\ NOMEM # PART
  BY DEF NOMEM, INVAL, PART
<1> QED
  BY Zenon, <1>1, <1>2, Stop DEF Follows

(* What there is to know before a character between two tokens *)
AtToken(h, w, v) ==
  /\ pos \in Nat /\ tokens \in Seq(Token) /\ toksuper \in 0 .. Len(tokens)
  /\ Shape(w) /\ Shape(v) /\ Wrote(w, pos, Char, v)
  /\ Len(v.ref) <= Len(ref) /\ Len(ref) \in Nat
  /\ v.expect = "damaged" => expect = "damaged" /\ v.ref = ref
  /\ w.expect \in Between
  /\ null => count = Len(w.ref) /\ expect # "damaged"
  /\ ~null => tokens = w.ref /\ Super(toksuper, w)

(* Follows says it of a character that is not in a string or primitive. *)
LEMMA BeforeToken ==
  ASSUME NEW h, Follows(h), mode = "main", pos < Len(js)
  PROVE  AtToken(h, h[pos], h[pos + 1]) /\ Base = pos
<1>1. Base = pos
  BY DEF Base
<1>2. js \in Seq(Chars) /\ pos \in 0 .. Len(js) - 1 /\ pos \in Nat /\ tokens \in Seq(Token)
        /\ toksuper \in 0 .. Len(tokens)
  BY DEF Follows, InBounds, JsmnTypeOK
<1>3. /\ Shape(h[pos]) /\ Shape(h[pos + 1]) /\ Wrote(h[pos], pos, Char, h[pos + 1])
      /\ Len(h[pos + 1].ref) <= Len(ref) /\ Len(ref) \in Nat
      /\ h[pos + 1].expect = "damaged" => expect = "damaged" /\ h[pos + 1].ref = ref
  BY Zenon, <1>2, Around DEF Follows, Char
<1>4. h[pos].expect \in Between
        /\ (null => count = Len(h[pos].ref) /\ expect # "damaged")
        /\ (~null => tokens = h[pos].ref /\ Super(toksuper, h[pos]))
  BY Zenon, <1>1 DEF Follows, Matches, Concerned
<1> QED
  BY Zenon, <1>1, <1>2, <1>3, <1>4 DEF AtToken

(* { and [ : a new token for the container the writer opened *)
LEMMA BeginMatches ==
  ASSUME NEW h, Follows(h), Begin, UNCHANGED <<writer, reader>>
  PROVE  Synced(h)'
<1> DEFINE w == h[pos]
           v == h[pos + 1]
           tok == NewToken(TypeOf(Char), pos, -1)
<1>1. mode = "main" /\ pos < Len(js) /\ Char \in {"lbrace", "lbracket"} /\ Base = pos
  BY DEF Begin, At, Base
<1>2. AtToken(h, w, v)
  BY Zenon, <1>1, BeforeToken
<1>3. /\ pos \in Nat /\ tokens \in Seq(Token) /\ toksuper \in 0 .. Len(tokens)
      /\ Shape(w) /\ Wrote(w, pos, Char, v) /\ Len(v.ref) <= Len(ref) /\ Len(ref) \in Nat
  BY Zenon, <1>2 DEF AtToken
<1>4. w.expect \in Between
        /\ (null => count = Len(w.ref))
        /\ (~null => tokens = w.ref /\ Super(toksuper, w))
  BY Zenon, <1>2 DEF AtToken
<1> HIDE DEF w, v
<1>5. Opened(w, pos, Char, v)
  BY Zenon, <1>1, <1>3, <1>4, CharBetween
<1>6. v.expect \in {"member", "item"} /\ v.expect \in Between /\ v.key = 0
        /\ v.ref = Added(w.ref, ParentOf(w), tok)
  BY <1>5 DEF Opened, Between
<1>7. TypeOf(Char) \in {"OBJECT", "ARRAY"}
  BY Zenon DEF TypeOf
<1>8. /\ Len(v.ref) = Len(w.ref) + 1 /\ Len(w.ref) \in Nat /\ v.stack # <<>>
      /\ TopOf(v) = Len(w.ref) + 1
  BY Zenon, <1>3, <1>5, <1>7, ContainerAdded DEF Opened
<1>9. UNCHANGED <<writer, cut>>
  BY DEF reader
<1>10. CASE ~null /\ Len(tokens) >= num
  <2>1. Fail(NOMEM, Base)
    BY <1>1, <1>10 DEF Begin
  <2>2. Len(tokens) < Len(ref)
    BY <1>3, <1>4, <1>8, <1>10
  <2> QED
    BY Zenon, <1>9, <1>10, <2>1, <2>2, NoRoom
<1>11. CASE null
  <2>1. pos' = pos + 1 /\ mode' = "main" /\ count' = count + 1 /\ UNCHANGED null
    BY <1>11 DEF Begin, Go, args
  <2>2. count' = Len(v.ref)
    BY <1>4, <1>8, <1>11, <2>1
  <2> QED
    BY Zenon, <1>6, <1>11, <2>1, <2>2, Advance DEF v
<1>12. CASE ~null /\ ~(Len(tokens) >= num)
  <2>1. pos' = pos + 1 /\ mode' = "main" /\ UNCHANGED null /\ toksuper' = Len(tokens) + 1
          /\ tokens' = Append(Count(tokens), tok)
    BY <1>12 DEF Begin, Go, args
  <2>2. toksuper = ParentOf(w)
    BY <1>4, <1>5, <1>12 DEF Super, Opened
  <2>3. tok \in Token
    BY <1>3, <1>7 DEF NewToken, Token, Types
  <2> HIDE DEF tok
  <2>4. tokens' = Added(tokens, toksuper, tok)
    <3>1. CASE toksuper = 0
      BY Zenon, <2>1, <3>1 DEF Count, Added
    <3>2. CASE toksuper # 0
      <4>1. toksuper \in 1 .. Len(tokens)
        BY <1>3, <3>2
      <4> QED
        BY Zenon, <1>3, <2>1, <2>3, <3>2, <4>1, CountThenAppend DEF Count
    <3> QED
      BY <3>1, <3>2
  <2>5. tokens' = v.ref
    BY Zenon, <1>4, <1>6, <1>12, <2>2, <2>4 DEF tok
  <2>6. ParentOf(v) = TopOf(v)
    BY Zenon, <1>6, <1>8 DEF ParentOf
  <2>7. Super(toksuper', v)
    BY <1>4, <1>6, <1>8, <1>12, <2>1, <2>6 DEF Super
  <2> QED
    BY Zenon, <1>6, <1>12, <2>1, <2>5, <2>7, Advance DEF v
<1> QED
  BY Zenon, <1>10, <1>11, <1>12

(* } and ] : the token that is closed is the container the writer closed,  *)
(* or the bracket is the damage.                                           *)
LEMMA EndMatches ==
  ASSUME NEW h, Follows(h), End, UNCHANGED <<writer, reader>>
  PROVE  Synced(h)'
<1> DEFINE w == h[pos]
           v == h[pos + 1]
<1>1. mode = "main" /\ pos < Len(js) /\ Char \in {"rbrace", "rbracket"}
  BY DEF End, At
<1>2. AtToken(h, w, v) /\ Base = pos
  BY Zenon, <1>1, BeforeToken
<1> HIDE DEF w, v
<1>3. /\ pos \in Nat /\ Shape(w) /\ Shape(v) /\ Wrote(w, pos, Char, v)
      /\ v.expect = "damaged" => expect = "damaged" /\ v.ref = ref
      /\ w.expect \in Between
      /\ null => count = Len(w.ref) /\ expect # "damaged"
      /\ ~null => tokens = w.ref
  BY Zenon, <1>2 DEF AtToken
<1>4. Closed(w, pos, Char, v) \/ Damaged(w, Char, v)
  BY Zenon, <1>1, <1>3, CharBetween
<1>5. UNCHANGED <<writer, cut>>
  BY DEF reader
<1>6. ~null => Open = OpenIn(w.ref)
  BY Zenon, <1>3 DEF Open, OpenIn
<1>7. CASE Damaged(w, Char, v)
  <2>1. v.expect = "damaged" /\ v.ref = w.ref
          /\ (w.stack # <<>> => TypeOf(Char) # w.ref[TopOf(w)].type)
    BY <1>1, <1>7 DEF Damaged, Keeps
  <2>2. ~null /\ expect = "damaged" /\ tokens = ref
    BY Zenon, <1>3, <2>1
  <2>3. Open = {} \/ tokens[Last(Open)].type # TypeOf(Char)
    BY Zenon, <1>3, <1>6, <2>1, <2>2, Innermost
  <2>4. Fail(INVAL, Base)
    BY Zenon, <1>2, <2>2, <2>3 DEF End
  <2>5. INVAL # NOMEM /\ INVAL # PART
    BY DEF NOMEM, INVAL, PART
  <2> QED
    BY Zenon, <1>5, <2>2, <2>4, <2>5, Stop DEF Follows
<1>8. CASE Closed(w, pos, Char, v)
  <2>1. w.stack # <<>> /\ TypeOf(Char) = w.ref[TopOf(w)].type
          /\ v.expect = After(v.stack) /\ v.expect \in Between /\ v.key = 0
          /\ v.ref = [w.ref EXCEPT ![TopOf(w)].end = pos + 1]
    BY <1>3, <1>8 DEF Closed, Shape, After, Between
  <2>2. Len(v.ref) = Len(w.ref) /\ OpenIn(v.ref) = OpenIn(w.ref) \ {TopOf(w)}
    <3>1. pos + 1 \in Nat
      BY <1>3
    <3> QED
      BY Zenon, <1>3, <1>8, <2>1, <3>1, ContainerClosed DEF Closed
  <2>3. CASE null
    <3>1. pos' = pos + 1 /\ mode' = "main" /\ UNCHANGED <<count, null>>
      BY <2>3 DEF End, Go, args
    <3> QED
      BY Zenon, <1>3, <2>1, <2>2, <2>3, <3>1, Advance DEF v
  <2>4. CASE ~null
    <3>1. Open # {} /\ Last(Open) = TopOf(w)
      <4>1. OpenIn(w.ref) # {} /\ Last(OpenIn(w.ref)) = TopOf(w)
        BY Zenon, <1>3, <2>1, InnermostOpen
      <4> QED
        BY Zenon, <1>6, <2>4, <4>1
    <3>2. ~(Open = {} \/ tokens[Last(Open)].type # TypeOf(Char))
      BY Zenon, <1>3, <2>1, <2>4, <3>1
    <3>3. pos' = pos + 1 /\ mode' = "main" /\ UNCHANGED null
            /\ tokens' = [tokens EXCEPT ![Last(Open)].end = pos + 1]
            /\ toksuper' = Superior(Open \ {Last(Open)})
      BY <2>4, <3>2 DEF End, Go, args
    <3>4. tokens' = v.ref
      BY Zenon, <1>3, <2>1, <2>4, <3>1, <3>3
    <3>5. toksuper' = IF v.stack = <<>> THEN 0 ELSE TopOf(v)
      BY Zenon, <1>3, <1>6, <2>2, <2>4, <3>1, <3>3, Innermost
    <3>6. Super(toksuper', v)
      BY <2>1, <3>5 DEF Super, After
    <3> QED
      BY Zenon, <2>1, <2>4, <3>3, <3>4, <3>6, Advance DEF v
  <2> QED
    BY <2>3, <2>4
<1> QED
  BY <1>4, <1>7, <1>8

(* Blanks, colons and commas change only the superior token. *)
LEMMA SeparatorMatches ==
  ASSUME NEW h, Follows(h), Blank \/ Colon \/ Comma, UNCHANGED <<writer, reader>>
  PROVE  Synced(h)'
<1> DEFINE w == h[pos]
           v == h[pos + 1]
<1>1. mode = "main" /\ pos < Len(js) /\ Char \in {"comma", "colon", "blank"}
  BY DEF Blank, Colon, Comma, At
<1>2. AtToken(h, w, v)
  BY Zenon, <1>1, BeforeToken
<1> HIDE DEF w, v
<1>3. /\ tokens \in Seq(Token) /\ Shape(w) /\ Wrote(w, pos, Char, v) /\ w.expect \in Between
      /\ null => count = Len(w.ref)
      /\ ~null => tokens = w.ref /\ Super(toksuper, w)
  BY Zenon, <1>2 DEF AtToken
<1>4. Separated(w, Char, v)
  BY Zenon, <1>1, <1>3, CharBetween
<1>5. v.expect \in Between /\ v.ref = w.ref /\ v.stack = w.stack
  BY <1>4 DEF Separated, Between
<1>6. pos' = pos + 1 /\ mode' = "main" /\ UNCHANGED <<null, count, tokens>>
  BY DEF Blank, Colon, Comma, Go, args
<1>7. ASSUME ~null PROVE Super(toksuper', v)
  <2>1. TopOf(v) = TopOf(w)
    BY Zenon, <1>5 DEF TopOf
  <2>2. CASE Blank
    <3>1. v.expect = w.expect /\ v.key = w.key /\ toksuper' = toksuper
      BY <1>4, <2>2 DEF Separated, Blank, At
    <3>2. ParentOf(v) = ParentOf(w)
      BY Zenon, <1>5, <2>1, <3>1 DEF ParentOf
    <3> QED
      BY Zenon, <1>3, <1>5, <1>7, <2>1, <3>1, <3>2 DEF Super
  <2>3. CASE Colon
    <3>1. w.expect = "colon" /\ v.expect = "value" /\ v.key = w.key /\ toksuper' = Len(tokens)
      BY <1>4, <2>3 DEF Separated, Colon, At
    <3>2. w.key = Len(w.ref) /\ w.stack # <<>> /\ w.ref \in Seq(Token)
      BY <1>3, <3>1 DEF Shape
    <3>3. toksuper' = v.key
      BY Zenon, <1>3, <1>7, <3>1, <3>2
    <3>4. Len(w.ref) # 0
      <4>1. TopOf(w) \in OpenIn(w.ref)
        BY Zenon, <1>3, <3>2, InnermostOpen
      <4> QED
        BY <3>2, <4>1 DEF OpenIn
    <3>5. ParentOf(v) = toksuper'
      BY Zenon, <3>1, <3>2, <3>3, <3>4 DEF ParentOf
    <3> QED
      BY <3>1, <3>5 DEF Super
  <2>4. CASE Comma
    <3>1. w.expect = "separator" /\ v.expect \in {"value", "key"} /\ v.key = 0
      BY <1>4, <2>4 DEF Separated, Comma, At
    <3>2. w.stack # <<>>
      BY <1>3, <3>1 DEF Shape
    <3>3. Open = OpenIn(w.ref)
      BY Zenon, <1>3, <1>7 DEF Open, OpenIn
    <3>4. /\ TopOf(w) \in OpenIn(w.ref) /\ w.ref[TopOf(w)].type \in {"OBJECT", "ARRAY"}
          /\ Superior(Open) = TopOf(w) /\ Open # {}
      <4>1. /\ TopOf(w) \in OpenIn(w.ref) /\ w.ref[TopOf(w)].type \in {"OBJECT", "ARRAY"}
            /\ Last(OpenIn(w.ref)) = TopOf(w) /\ OpenIn(w.ref) # {}
        BY Zenon, <1>3, <3>2, InnermostOpen
      <4> QED
        BY Zenon, <3>3, <4>1 DEF Superior
    <3>5. toksuper = TopOf(w) \/ (toksuper \in 1 .. Len(w.ref) /\ w.ref[toksuper].type = "STRING")
      BY <1>3, <1>7, <3>1 DEF Super
    <3>6. toksuper # 0
      BY <3>4, <3>5 DEF OpenIn
    <3>7. toksuper' = IF tokens[toksuper].type \in {"ARRAY", "OBJECT"} \/ Open = {}
                      THEN toksuper ELSE Superior(Open)
      BY <1>7, <2>4, <3>6 DEF Comma
    <3>8. toksuper' = TopOf(w)
      BY Zenon, <1>3, <1>7, <3>4, <3>5, <3>7
    <3>9. ParentOf(v) = toksuper'
      BY Zenon, <1>5, <2>1, <3>1, <3>2, <3>8 DEF ParentOf
    <3> QED
      BY <3>1, <3>9 DEF Super
  <2> QED
    BY <2>2, <2>3, <2>4
<1> QED
  BY Zenon, <1>3, <1>5, <1>6, <1>7, Advance DEF v

(* The data ends behind a token. *)
LEMMA ReturnMatches ==
  ASSUME NEW h, Follows(h), Return, UNCHANGED <<writer, reader>>
  PROVE  Synced(h)'
<1>1. mode = "main" /\ pos >= Len(js) /\ mode' = "idle"
        /\ UNCHANGED <<pos, tokens, toksuper, args>>
        /\ r' = (IF Open # {} THEN PART ELSE count)
  BY DEF Return, parser
<1>2. Base = pos /\ Base' = pos
  BY <1>1 DEF Base
<1>3. h[pos].ref = ref
  BY Zenon, <1>1, Behind DEF Follows
<1>4. (null => count = Len(ref)) /\ (~null => tokens = ref)
  BY Zenon, <1>2, <1>3 DEF Follows, Matches
<1>5. UNCHANGED <<null, num, ref, expect>>
  BY <1>1 DEF args, writer
<1>6. count \in Nat /\ tokens \in Seq(Token) /\ Len(tokens) <= num
  BY DEF Follows, InBounds, JsmnTypeOK
<1>7. null => Open = {}
  <2> SUFFICES ASSUME null PROVE Open = {}
    OBVIOUS
  <2>1. Len(tokens) = 0
    BY <1>6 DEF Follows
  <2> QED
    BY <2>1 DEF Open
<1>8. r' # NOMEM /\ r' # INVAL
  BY <1>1, <1>6 DEF NOMEM, INVAL, PART
<1>9. ~null /\ r' = PART => expect # "end"
  <2> SUFFICES ASSUME ~null, r' = PART, expect = "end" PROVE FALSE
    OBVIOUS
  <2>1. Shape(h[pos]) /\ h[pos].expect = expect
    BY Zenon, <1>1, Behind DEF Follows
  <2>2. h[pos].stack = <<>>
    BY Zenon, <2>1 DEF Shape
  <2>3. OpenIn(h[pos].ref) = {}
    BY Zenon, <2>1, <2>2, Innermost
  <2>4. Open = {}
    BY Zenon, <1>3, <1>4, <2>3 DEF Open, OpenIn
  <2> QED
    BY <1>1, <1>6, <2>4 DEF PART
<1>10. TokensMatch'
  BY <1>1, <1>4, <1>5, <1>7, <1>8, <1>9 DEF TokensMatch
<1>11. ~null => Matches(h)'
  BY <1>1, <1>2, <1>5 DEF Follows, Matches
<1> QED
  BY <1>1, <1>5, <1>10, <1>11 DEF Synced, Concerned

(* In a string or a primitive *)
LEMMA StayInString ==
  ASSUME NEW h, mode' = "string", UNCHANGED null, h[start'].expect \in Between,
         null => count' = Len(h[start'].ref),
         ~null => tokens' = h[start'].ref /\ Super(toksuper', h[start']),
         InString(h[start'], start', pos', h[pos'], Len(js'))
  PROVE  Synced(h)'
<1>1. Base' = start' /\ mode' # "idle" /\ mode' # "primitive"
  BY DEF Base
<1>2. Matches(h)'
  BY Zenon, <1>1 DEF Matches
<1>3. TokensMatch'
  BY <1>1 DEF TokensMatch
<1> QED
  BY <1>2, <1>3 DEF Synced

(* The same in a primitive *)
LEMMA StayInPrimitive ==
  ASSUME NEW h, mode' = "primitive", UNCHANGED null, h[start'].expect \in Between,
         null => count' = Len(h[start'].ref),
         ~null => tokens' = h[start'].ref /\ Super(toksuper', h[start']),
         InPrimitive(js', h[start'], start', pos', h[pos'])
  PROVE  Synced(h)'
<1>1. Base' = start' /\ mode' # "idle" /\ mode' # "string"
  BY DEF Base
<1>2. Matches(h)'
  BY Zenon, <1>1 DEF Matches
<1>3. TokensMatch'
  BY <1>1 DEF TokensMatch
<1> QED
  BY <1>2, <1>3 DEF Synced

(* A string or primitive begins where the writer began one. *)
LEMMA LeafBeginMatches ==
  ASSUME NEW h, Follows(h), LeafBegin, UNCHANGED <<writer, reader>>
  PROVE  Synced(h)'
<1> DEFINE w == h[pos]
           v == h[pos + 1]
<1>1. mode = "main" /\ pos < Len(js)
  BY DEF LeafBegin, At
<1>2. AtToken(h, w, v)
  BY Zenon, <1>1, BeforeToken
<1> HIDE DEF w, v
<1>3. /\ pos \in Nat /\ Shape(w) /\ Wrote(w, pos, Char, v) /\ w.expect \in Between
      /\ null => count = Len(w.ref)
      /\ ~null => tokens = w.ref /\ Super(toksuper, w)
  BY Zenon, <1>2 DEF AtToken
<1>4. start' = pos /\ js' = js /\ null' = null /\ count' = count /\ tokens' = tokens
        /\ toksuper' = toksuper
  BY DEF LeafBegin, Go, args
<1>5. /\ h[start'].expect \in Between
      /\ null => count' = Len(h[start'].ref)
      /\ ~null => tokens' = h[start'].ref /\ Super(toksuper', h[start'])
      /\ h[start'] = w
  BY Zenon, <1>3, <1>4 DEF w
<1>6. CASE At("main", {"quote"}) /\ Go(pos + 1, "string")
  <2>1. mode' = "string" /\ pos' = pos + 1 /\ Char = "quote"
    BY <1>6 DEF At, Go
  <2>2. Quoted(w, pos, Char, v)
    BY Zenon, <1>3, <2>1, CharBetween
  <2>3. w.escape = <<>>
    BY Zenon, <1>3, <2>2 DEF Shape, Quoted, Within
  <2>4. Inside(w, pos, v) /\ w.expect \in {"value", "item", "member", "key"} /\ v.escape = <<>>
    BY Zenon, <2>2, <2>3 DEF Quoted, Inside
  <2>5. pos < pos + 1
    BY <1>3
  <2>6. InString(w, pos, pos + 1, v, Len(js'))
    BY Zenon, <2>4, <2>5 DEF InString
  <2>7. InString(h[start'], start', pos', h[pos'], Len(js'))
    BY Zenon, <1>4, <1>5, <2>1, <2>6 DEF v
  <2> QED
    BY Zenon, <1>4, <1>5, <2>1, <2>7, StayInString
<1>7. CASE At("main", {"x", "b", "u", "backslash", "ctl"}) /\ Go(pos, "primitive")
  <2>1. mode' = "primitive" /\ pos' = pos /\ Char \in {"x", "b", "u", "backslash", "ctl"}
    BY <1>7 DEF At, Go
  <2>2. Char \in {"x", "ctl"} /\ w.expect \in {"value", "item"}
    BY Zenon, <1>3, <2>1, CharBetween
  <2>3. pos' = start' /\ pos' < Len(js') /\ js'[pos' + 1] \in {"x", "ctl"}
          /\ h[start'].expect \in {"value", "item"}
    BY Zenon, <1>1, <1>4, <1>5, <2>1, <2>2 DEF Char
  <2>4. InPrimitive(js', h[start'], start', pos', h[pos'])
    BY Zenon, <2>3 DEF InPrimitive
  <2> QED
    BY Zenon, <1>4, <1>5, <2>1, <2>4, StayInPrimitive
<1> QED
  BY <1>6, <1>7 DEF LeafBegin

(* Behind the string or primitive that began behind s *)
Complete(s, type, first, n, v) ==
  /\ v.ref = Added(s.ref, ParentOf(s), NewToken(type, first, n)) /\ v.stack = s.stack
  /\ s.expect \in {"value", "item", "member", "key"}
  /\ IF s.expect \in {"member", "key"} THEN v.expect = "colon"
     ELSE v.expect = After(s.stack)

(* The token for a complete string or primitive is the one the writer      *)
(* added.                                                                  *)
LEMMA LeafMatches ==
  ASSUME NEW h, Follows(h), mode \in {"string", "primitive"}, UNCHANGED <<writer, reader>>,
         NEW type \in LeafTypes, NEW first \in Nat, NEW next \in 0 .. Len(js),
         Leaf(type, first, next), Complete(h[start], type, first, pos, h[next])
  PROVE  Synced(h)'
<1> DEFINE s == h[start]
           v == h[next]
           tok == NewToken(type, first, pos)
<1>1. Base = start
  BY DEF Base
<1>2. js \in Seq(Chars) /\ pos \in Nat /\ start \in 0 .. Len(js) /\ tokens \in Seq(Token)
  BY DEF Follows, InBounds, JsmnTypeOK
<1>3. Shape(s) /\ Len(v.ref) <= Len(ref) /\ Len(ref) \in Nat
  <2>1. Shape(s) /\ Len(v.ref) <= Len(Now.ref)
    BY Zenon, <1>2 DEF Follows, Recorded
  <2>2. Len(js) \in 0 .. Len(js)
    BY <1>2
  <2>3. Shape(Now)
    BY Zenon, <2>2 DEF Follows, Recorded
  <2>4. Now.ref = ref
    BY DEF Now
  <2>5. ref \in Seq(Token)
    BY Zenon, <2>3, <2>4 DEF Shape
  <2> QED
    BY <2>1, <2>4, <2>5
<1>4. (null => count = Len(s.ref)) /\ (~null => tokens = s.ref /\ Super(toksuper, s))
  BY Zenon, <1>1 DEF Follows, Matches
<1> HIDE DEF s, v
<1>5. /\ v.ref = Added(s.ref, ParentOf(s), tok) /\ v.stack = s.stack
      /\ s.expect \in {"value", "item", "member", "key"}
      /\ IF s.expect \in {"member", "key"} THEN v.expect = "colon"
         ELSE v.expect = After(s.stack)
  BY Zenon DEF s, v, Complete
<1>6. Len(v.ref) = Len(s.ref) + 1 /\ Len(s.ref) \in Nat
  <2>1. AddsLeaf(s, type, first, pos, v)
    BY Zenon, <1>2, <1>3, <1>5 DEF AddsLeaf
  <2> QED
    BY Zenon, <2>1, LeafAdded
<1>7. v.expect \in Between
  BY Zenon, <1>5 DEF Between, After
<1>8. UNCHANGED <<writer, cut>>
  BY DEF reader
<1>9. CASE ~null /\ Len(tokens) >= num
  <2>1. Fail(NOMEM, Base)
    BY Zenon, <1>1, <1>9 DEF Leaf
  <2>2. Len(tokens) < Len(ref)
    BY <1>3, <1>4, <1>6, <1>9
  <2> QED
    BY Zenon, <1>8, <1>9, <2>1, <2>2, NoRoom
<1>10. CASE null
  <2>1. pos' = next /\ mode' = "main" /\ count' = count + 1 /\ UNCHANGED null
    BY <1>10 DEF Leaf, Go, args
  <2>2. count' = Len(v.ref)
    BY <1>4, <1>6, <1>10, <2>1
  <2> QED
    BY Zenon, <1>7, <1>10, <2>1, <2>2, Advance DEF v
<1>11. CASE ~null /\ ~(Len(tokens) >= num)
  <2>1. pos' = next /\ mode' = "main" /\ UNCHANGED <<null, toksuper>>
          /\ tokens' = Count(Append(tokens, tok))
    BY <1>11 DEF Leaf, Go, args
  <2>2. toksuper = ParentOf(s)
    BY <1>4, <1>5, <1>11 DEF Super
  <2>3. tokens' = v.ref
    BY Zenon, <1>4, <1>5, <1>11, <2>1, <2>2 DEF Count, Added
  <2>4. Super(toksuper', v)
    <3>1. ParentOf(s) \in 0 .. Len(s.ref) /\ (ParentOf(s) = 0 <=> s.stack = <<>>)
            /\ (ParentOf(s) # 0 => ParentOf(s) = TopOf(s) \/ s.ref[ParentOf(s)].type = "STRING")
      BY Zenon, <1>3, ParentIn
    <3>2. TopOf(v) = TopOf(s)
      BY Zenon, <1>5 DEF TopOf
    <3>3. CASE v.expect = "colon"
      <4>1. s.key = 0 /\ s.stack # <<>>
        BY Zenon, <1>3, <1>5, <3>3 DEF Shape, After
      <4>2. toksuper' = TopOf(v)
        BY <2>1, <2>2, <3>2, <4>1 DEF ParentOf
      <4> QED
        BY <3>3, <4>2 DEF Super
    <3>4. CASE v.expect = "separator"
      <4>1. ParentOf(s) # 0
        BY Zenon, <1>5, <3>1, <3>4 DEF After
      <4>2. ASSUME s.ref[ParentOf(s)].type = "STRING" PROVE v.ref[ParentOf(s)].type = "STRING"
        <5>1. tok \in Token
          BY <1>2, LeafTypesHave DEF NewToken, Token
        <5>2. s.ref \in Seq(Token)
          BY Zenon, <1>3 DEF Shape
        <5>3. Longer(v.ref, s.ref, tok)
          BY Zenon, <1>5, <3>1, <5>1, <5>2, AddedTokens
        <5>4. ParentOf(s) \in 1 .. Len(s.ref)
          BY <1>6, <3>1, <4>1
        <5> QED
          BY Zenon, <4>2, <5>3, <5>4 DEF Longer
      <4>3. ParentOf(s) \in 1 .. Len(v.ref)
        BY <1>6, <3>1, <4>1
      <4> QED
        BY <2>1, <2>2, <3>1, <3>2, <3>4, <4>1, <4>2, <4>3 DEF Super
    <3>5. CASE v.expect = "end"
      <4>1. s.stack = <<>>
        BY Zenon, <1>5, <3>5 DEF After
      <4> QED
        BY <2>1, <2>2, <3>1, <3>5, <4>1 DEF Super
    <3> QED
      BY Zenon, <1>5, <3>3, <3>4, <3>5 DEF After
  <2> QED
    BY Zenon, <1>7, <1>11, <2>1, <2>3, <2>4, Advance DEF v
<1> QED
  BY Zenon, <1>9, <1>10, <1>11

-----------------------------------------------------------------------------
(* Strings *)

(* What there is to know in a string, at position n *)
AtString(h, n) ==
  /\ js \in Seq(Chars) /\ start \in Nat /\ pos \in start + 1 .. Len(js) /\ n \in Nat
  /\ h[start].expect \in {"value", "item", "member", "key"}
  /\ Inside(h[start], start, h[n])
  /\ h[start].expect \in Between
  /\ null => count = Len(h[start].ref)
  /\ ~null => tokens = h[start].ref /\ Super(toksuper, h[start])

(* Follows says it of a character in a string. *)
LEMMA BeforeChar ==
  ASSUME NEW h, Follows(h), mode = "string"
  PROVE  AtString(h, pos) /\ (h[pos].escape = <<>> \/ pos = Len(js)) /\ Base = start
<1>1. Base = start
  BY DEF Base
<1>2. js \in Seq(Chars) /\ start \in Nat /\ pos \in start .. Len(js) /\ pos \in Nat
  BY DEF Follows, InBounds, JsmnTypeOK
<1>3. InString(h[start], start, pos, h[pos], Len(js))
  BY Zenon DEF Follows, Matches
<1>4. start < pos /\ h[start].expect \in {"value", "item", "member", "key"}
        /\ Inside(h[start], start, h[pos]) /\ (h[pos].escape = <<>> \/ pos = Len(js))
  BY Zenon, <1>3 DEF InString
<1>5. pos \in start + 1 .. Len(js)
  BY <1>2, <1>4
<1>6. h[start].expect \in Between
        /\ (null => count = Len(h[start].ref))
        /\ (~null => tokens = h[start].ref /\ Super(toksuper, h[start]))
  BY Zenon, <1>1 DEF Follows, Matches
<1> QED
  BY Zenon, <1>1, <1>2, <1>4, <1>5, <1>6 DEF AtString

(* A character in a string that is not within an escape, *)
LEMMA PlainChar ==
  ASSUME NEW h, Follows(h), NEW n \in 0 .. Len(js) - 1, AtString(h, n), h[n].escape = <<>>
  PROVE  LET c == js[n + 1]
         IN \/ c = "quote" /\ Complete(h[start], "STRING", start + 1, n, h[n + 1])
            \/ c \in {"x", "rbrace"} /\ AtString(h, n + 1) /\ h[n + 1].escape = <<>>
            \/ /\ c = "backslash" /\ AtString(h, n + 1)
               /\ h[n + 1].escape \in {<<"quote">>, <<"backslash">>, <<"u", "b", "b", "b", "b">>}
<1> DEFINE s == h[start]
           w == h[n]
           v == h[n + 1]
           c == js[n + 1]
<1>1. js \in Seq(Chars) /\ Inside(s, start, w) /\ s.expect \in {"value", "item", "member", "key"}
  BY Zenon DEF AtString
<1>2. Wrote(w, n, c, v)
  BY Zenon, <1>1, Around DEF Follows
<1>3. n + 1 \in Nat
  BY Zenon, Successor
<1> HIDE DEF s, w, v, c
<1>4. w.expect \in Within /\ w.escape = <<>>
  BY <1>1 DEF Inside, Within, w
<1>5. Spelled(w, c, v) \/ Unquoted(w, n, c, v)
  BY Zenon, <1>2, <1>4, CharWithin
<1>6. CASE Spelled(w, c, v)
  <2>1. Inside(s, start, v)
    BY Zenon, <1>1, <1>6 DEF Spelled, Inside, Keeps
  <2>2. AtString(h, n + 1)
    BY Zenon, <1>3, <2>1 DEF AtString, s, v
  <2>3. \/ c \in {"x", "rbrace"} /\ v.escape = <<>>
        \/ /\ c = "backslash"
           /\ v.escape \in {<<"quote">>, <<"backslash">>, <<"u", "b", "b", "b", "b">>}
    BY Zenon, <1>4, <1>6 DEF Spelled
  <2> QED
    BY Zenon, <2>2, <2>3 DEF c, v
<1>7. CASE Unquoted(w, n, c, v)
  <2>1. v.ref = Added(w.ref, ParentOf(w), NewToken("STRING", w.from, n)) /\ v.stack = w.stack
          /\ c = "quote"
    BY Zenon, <1>7 DEF Unquoted
  <2>2. w.ref = s.ref /\ w.stack = s.stack /\ w.key = s.key /\ w.from = start + 1
    BY Zenon, <1>1 DEF Inside, Keeps
  <2>3. ParentOf(w) = ParentOf(s)
    BY Zenon, <2>2 DEF ParentOf, TopOf
  <2>4. v.ref = Added(s.ref, ParentOf(s), NewToken("STRING", start + 1, n)) /\ v.stack = s.stack
    BY Zenon, <2>1, <2>2, <2>3
  <2>5. IF s.expect \in {"member", "key"} THEN v.expect = "colon" ELSE v.expect = After(s.stack)
    BY Zenon, <1>1, <1>7, <2>2 DEF Unquoted, Inside
  <2>6. Complete(s, "STRING", start + 1, n, v)
    BY Zenon, <1>1, <2>4, <2>5 DEF Complete
  <2> QED
    BY Zenon, <2>1, <2>6 DEF c, s, v
<1> QED
  BY Zenon, <1>5, <1>6, <1>7

(* and one of an escape *)
LEMMA EscapedChar ==
  ASSUME NEW h, Follows(h), NEW n \in 0 .. Len(js) - 1, AtString(h, n), h[n].escape # <<>>
  PROVE  \/ /\ js[n + 1] = Head(h[n].escape) /\ h[n + 1].escape = Tail(h[n].escape)
            /\ AtString(h, n + 1)
         \/ js[n + 1] = "x" /\ expect = "damaged" /\ ref = h[start].ref
<1> DEFINE s == h[start]
           w == h[n]
           v == h[n + 1]
           c == js[n + 1]
<1>1. js \in Seq(Chars) /\ Inside(s, start, w)
  BY Zenon DEF AtString
<1>2. /\ Wrote(w, n, c, v)
      /\ v.expect = "damaged" => expect = "damaged" /\ v.ref = ref
  BY Zenon, <1>1, Around DEF Follows
<1>3. n + 1 \in Nat
  BY Zenon, Successor
<1>4. w.escape # <<>>
  OBVIOUS
<1> HIDE DEF s, w, v, c
<1>5. w.expect \in Within
  BY <1>1 DEF Inside, Within
<1>6. Spelled(w, c, v) \/ Damaged(w, c, v)
  BY Zenon, <1>2, <1>4, <1>5, CharWithin DEF Unquoted
<1>7. CASE Spelled(w, c, v)
  <2>1. Inside(s, start, v)
    BY Zenon, <1>1, <1>7 DEF Spelled, Inside, Keeps
  <2>2. AtString(h, n + 1)
    BY Zenon, <1>3, <2>1 DEF AtString, s, v
  <2>3. c = Head(w.escape) /\ v.escape = Tail(w.escape)
    BY Zenon, <1>4, <1>7 DEF Spelled
  <2> QED
    BY Zenon, <2>2, <2>3 DEF c, v, w
<1>8. CASE Damaged(w, c, v)
  <2>1. c = "x"
    BY <1>5, <1>8 DEF Damaged, Within
  <2>2. expect = "damaged" /\ ref = s.ref
    BY Zenon, <1>1, <1>2, <1>8 DEF Damaged, Keeps, Inside
  <2> QED
    BY Zenon, <2>1, <2>2 DEF c, s
<1> QED
  BY Zenon, <1>6, <1>7, <1>8

(* The quote that ends a string *)
LEMMA StringQuoteMatches ==
  ASSUME NEW h, Follows(h), StringQuote, UNCHANGED <<writer, reader>>
  PROVE  Synced(h)'
<1>1. mode = "string" /\ pos < Len(js) /\ Char = "quote" /\ Leaf("STRING", start + 1, pos + 1)
  BY DEF StringQuote, At
<1>2. AtString(h, pos) /\ (h[pos].escape = <<>> \/ pos = Len(js))
  BY Zenon, <1>1, BeforeChar
<1>3. pos \in 0 .. Len(js) - 1 /\ start + 1 \in Nat /\ pos + 1 \in 0 .. Len(js)
        /\ h[pos].escape = <<>>
  BY <1>1, <1>2 DEF AtString
<1>4. js[pos + 1] = "quote"
  BY Zenon, <1>1 DEF Char
<1>5. "quote" # "x" /\ "quote" # "rbrace" /\ "quote" # "backslash"
  OBVIOUS
<1>6. Complete(h[start], "STRING", start + 1, pos, h[pos + 1])
  BY Zenon, <1>2, <1>3, <1>4, <1>5, PlainChar
<1>7. mode \in {"string", "primitive"} /\ "STRING" \in LeafTypes
  BY <1>1, LeafTypesHave
<1> QED
  BY Zenon, <1>1, <1>3, <1>6, <1>7, LeafMatches

(* The loop goes on in the string at position p. *)
LEMMA StringGoesOn ==
  ASSUME NEW h, NEW p, AtString(h, p), p > start, h[p].escape = <<>> \/ p = Len(js),
         Go(p, "string"), UNCHANGED <<toksuper, tokens, start, count>>
  PROVE  Synced(h)'
<1>1. mode' = "string" /\ pos' = p /\ js' = js /\ null' = null /\ start' = start
        /\ tokens' = tokens /\ toksuper' = toksuper /\ count' = count
  BY DEF Go, args
<1>2. start < p
  BY DEF AtString
<1>3. InString(h[start], start, p, h[p], Len(js))
  BY Zenon, <1>2 DEF InString, AtString
<1>4. InString(h[start'], start', pos', h[pos'], Len(js'))
  BY Zenon, <1>1, <1>3
<1>5. /\ h[start'].expect \in Between
      /\ null => count' = Len(h[start'].ref)
      /\ ~null => tokens' = h[start'].ref /\ Super(toksuper', h[start'])
  BY Zenon, <1>1 DEF AtString
<1> QED
  BY Zenon, <1>1, <1>4, <1>5, StayInString

(* Another character of a string that begins no complete escape *)
LEMMA StringCharMatches ==
  ASSUME NEW h, Follows(h), StringChar, UNCHANGED <<writer, reader>>
  PROVE  Synced(h)'
<1>1. /\ mode = "string" /\ pos < Len(js) /\ Char # "quote" /\ ~Escaped
      /\ Go(pos + 1, "string") /\ UNCHANGED <<toksuper, tokens, start, count>>
  BY DEF StringChar, At
<1>2. AtString(h, pos) /\ (h[pos].escape = <<>> \/ pos = Len(js))
  BY Zenon, <1>1, BeforeChar
<1>3. pos \in 0 .. Len(js) - 1 /\ pos + 1 > start /\ h[pos].escape = <<>>
  <2>1. js \in Seq(Chars) /\ start \in Nat /\ pos \in start + 1 .. Len(js)
    BY Zenon, <1>2 DEF AtString
  <2> QED
    BY <1>1, <1>2, <2>1
<1>4. js[pos + 1] # "quote"
  BY Zenon, <1>1 DEF Char
<1>5. AtString(h, pos + 1) /\ (h[pos + 1].escape = <<>> \/ js[pos + 1] = "backslash")
  BY Zenon, <1>2, <1>3, <1>4, PlainChar
<1>6. js[pos + 1] = "backslash" => pos + 1 = Len(js)
  BY <1>1, <1>3 DEF Escaped, Char
<1> QED
  BY Zenon, <1>1, <1>3, <1>5, <1>6, StringGoesOn

(* JSMN_ERROR_PART in a string: the writer is in that string, too. *)
LEMMA StringPartMatches ==
  ASSUME NEW h, Follows(h), StringPart, UNCHANGED <<writer, reader>>
  PROVE  Synced(h)'
<1>1. mode = "string" /\ pos >= Len(js) /\ Fail(PART, start)
  BY DEF StringPart
<1>2. AtString(h, pos) /\ Base = start
  BY Zenon, <1>1, BeforeChar
<1>3. h[pos].expect = expect /\ h[pos].ref = ref
  BY Zenon, <1>1, Behind DEF Follows
<1>4. expect # "end"
  BY <1>2, <1>3 DEF AtString, Inside
<1>5. ~null => tokens = ref
  BY Zenon, <1>2, <1>3 DEF AtString, Inside, Keeps
<1>6. PART # NOMEM /\ PART # INVAL
  BY DEF PART, NOMEM, INVAL
<1>7. UNCHANGED <<writer, cut>>
  BY DEF reader
<1> QED
  BY Zenon, <1>1, <1>2, <1>4, <1>5, <1>6, <1>7, Stop DEF Follows

(* JSMN_ERROR_INVAL in a damaged string or primitive *)
LEMMA Broken ==
  ASSUME NEW h, Follows(h), mode \in {"string", "primitive"}, Fail(INVAL, start),
         UNCHANGED <<writer, reader>>, expect = "damaged", ref = h[start].ref
  PROVE  Synced(h)'
<1>1. Base = start
  BY DEF Base
<1>2. ~null => tokens = ref
  BY Zenon, <1>1 DEF Follows, Matches
<1>3. INVAL # NOMEM /\ INVAL # PART /\ expect # "end"
  BY DEF NOMEM, INVAL, PART
<1>4. UNCHANGED <<writer, cut>>
  BY DEF reader
<1> QED
  BY Zenon, <1>1, <1>2, <1>3, <1>4, Stop DEF Follows

(* One hex digit of an escape: it is there, or the text is damaged. *)
LEMMA HexDigit ==
  ASSUME NEW h, Follows(h), NEW n \in 0 .. Len(js) - 1, AtString(h, n), NEW more \in Seq({"b"}),
         h[n].escape = <<"b">> \o more
  PROVE  \/ js[n + 1] = "b" /\ AtString(h, n + 1) /\ h[n + 1].escape = more
         \/ js[n + 1] # "b" /\ expect = "damaged" /\ ref = h[start].ref
<1>1. <<"b">> \o more # <<>> /\ Head(<<"b">> \o more) = "b" /\ Tail(<<"b">> \o more) = more
  OBVIOUS
<1>2. h[n].escape # <<>> /\ Head(h[n].escape) = "b" /\ Tail(h[n].escape) = more
  BY Zenon, <1>1
<1>3. "x" # "b"
  OBVIOUS
<1> QED
  BY Zenon, <1>2, <1>3, EscapedChar

(* The digits of an escape, as far as the data goes *)
LEMMA HexDigits ==
  ASSUME NEW h, Follows(h), NEW n \in 0 .. Len(js), AtString(h, n),
         h[n].escape = <<"b", "b", "b", "b">>,
         NEW last, last = IF n + 4 < Len(js) THEN n + 4 ELSE Len(js)
  PROVE  /\ (\A d \in n + 1 .. last : js[d] = "b") =>
              AtString(h, last) /\ (h[last].escape = <<>> \/ last = Len(js))
         /\ (\E d \in n + 1 .. last : js[d] # "b") => expect = "damaged" /\ ref = h[start].ref
<1> DEFINE Bad == expect = "damaged" /\ ref = h[start].ref
           Good(p, more) == AtString(h, p) /\ h[p].escape = more
<1>1. js \in Seq(Chars) /\ Len(js) \in Nat /\ n \in Nat
  BY DEF AtString
<1>2. /\ <<"b", "b", "b", "b">> = <<"b">> \o <<"b", "b", "b">>
      /\ <<"b", "b", "b">> = <<"b">> \o <<"b", "b">>
      /\ <<"b", "b">> = <<"b">> \o <<"b">> /\ <<"b">> = <<"b">> \o <<>>
      /\ <<"b", "b", "b">> \in Seq({"b"}) /\ <<"b", "b">> \in Seq({"b"}) /\ <<"b">> \in Seq({"b"})
      /\ <<>> \in Seq({"b"})
  OBVIOUS
<1>3. ASSUME NEW p \in Nat, NEW more \in Seq({"b"}), p < Len(js), Good(p, <<"b">> \o more)
      PROVE  (js[p + 1] = "b" /\ Good(p + 1, more)) \/ (js[p + 1] # "b" /\ Bad)
  <2>1. p \in 0 .. Len(js) - 1
    BY <1>1, <1>3
  <2> QED
    BY Zenon, <1>3, <2>1, HexDigit
<1>4. Good(n, <<"b">> \o <<"b", "b", "b">>)
  BY Zenon, <1>2
<1> HIDE DEF Good, Bad
<1>5. /\ n + 1 \in Nat /\ n + 2 \in Nat /\ n + 3 \in Nat
      /\ n + 1 + 1 = n + 2 /\ n + 2 + 1 = n + 3 /\ n + 3 + 1 = n + 4
  BY <1>1
<1>6. n < Len(js) =>
        (js[n + 1] = "b" /\ Good(n + 1, <<"b", "b", "b">>)) \/ (js[n + 1] # "b" /\ Bad)
  BY Zenon, <1>1, <1>2, <1>3, <1>4
<1>7. n + 1 < Len(js) /\ Good(n + 1, <<"b", "b", "b">>) =>
        (js[n + 2] = "b" /\ Good(n + 2, <<"b", "b">>)) \/ (js[n + 2] # "b" /\ Bad)
  <2>1. Good(n + 1, <<"b", "b", "b">>) => Good(n + 1, <<"b">> \o <<"b", "b">>)
    BY Zenon, <1>2
  <2> QED
    BY Zenon, <1>2, <1>3, <1>5, <2>1
<1>8. n + 2 < Len(js) /\ Good(n + 2, <<"b", "b">>) =>
        (js[n + 3] = "b" /\ Good(n + 3, <<"b">>)) \/ (js[n + 3] # "b" /\ Bad)
  <2>1. Good(n + 2, <<"b", "b">>) => Good(n + 2, <<"b">> \o <<"b">>)
    BY Zenon, <1>2
  <2> QED
    BY Zenon, <1>2, <1>3, <1>5, <2>1
<1>9. n + 3 < Len(js) /\ Good(n + 3, <<"b">>) =>
        (js[n + 4] = "b" /\ Good(n + 4, <<>>)) \/ (js[n + 4] # "b" /\ Bad)
  <2>1. Good(n + 3, <<"b">>) => Good(n + 3, <<"b">> \o <<>>)
    BY Zenon, <1>2
  <2> QED
    BY Zenon, <1>2, <1>3, <1>5, <2>1
<1>10. last \in n .. n + 4 /\ last <= Len(js) /\ (last # n + 4 => last = Len(js))
  BY <1>1
<1>11. ASSUME \A d \in n + 1 .. last : js[d] = "b"
       PROVE  \E more : Good(last, more) /\ (last = n + 4 => more = <<>>)
  <2>1. last >= n + 1 => Good(n + 1, <<"b", "b", "b">>)
    BY <1>1, <1>6, <1>10, <1>11
  <2>2. last >= n + 2 => Good(n + 2, <<"b", "b">>)
    BY <1>1, <1>7, <1>10, <1>11, <2>1
  <2>3. last >= n + 3 => Good(n + 3, <<"b">>)
    BY <1>1, <1>8, <1>10, <1>11, <2>2
  <2>4. last >= n + 4 => Good(n + 4, <<>>)
    BY <1>1, <1>9, <1>10, <1>11, <2>3
  <2>5. last \in {n, n + 1, n + 2, n + 3, n + 4}
    BY <1>1, <1>10
  <2> QED
    BY <1>1, <1>4, <2>1, <2>2, <2>3, <2>4, <2>5
<1>12. ASSUME NEW d \in n + 1 .. last, js[d] # "b" PROVE Bad
  <2>1. d \in {n + 1, n + 2, n + 3, n + 4} /\ d <= Len(js)
    BY <1>1, <1>10
  <2> QED
    BY <1>1, <1>6, <1>7, <1>8, <1>9, <1>12, <2>1
<1>13. ASSUME \A d \in n + 1 .. last : js[d] = "b"
       PROVE  AtString(h, last) /\ (h[last].escape = <<>> \/ last = Len(js))
  <2>1. PICK more : Good(last, more) /\ (last = n + 4 => more = <<>>)
    BY Zenon, <1>11, <1>13
  <2> QED
    BY Zenon, <1>10, <2>1 DEF Good
<1> QED
  BY Zenon, <1>12, <1>13 DEF Bad

(* An escape is skipped as a whole, or it is the damage. *)
LEMMA StringEscapeMatches ==
  ASSUME NEW h, Follows(h), StringEscape, UNCHANGED <<writer, reader>>
  PROVE  Synced(h)'
<1>1. mode = "string" /\ pos + 1 < Len(js) /\ Char = "backslash"
  BY DEF StringEscape, Escaped, At
<1>2. AtString(h, pos) /\ (h[pos].escape = <<>> \/ pos = Len(js))
  BY Zenon, <1>1, BeforeChar
<1>3. /\ pos \in 0 .. Len(js) - 1 /\ pos + 1 \in 0 .. Len(js) - 1 /\ pos + 2 \in 0 .. Len(js)
      /\ pos + 2 > start /\ pos + 1 + 1 = pos + 2 /\ h[pos].escape = <<>>
  BY <1>1, <1>2 DEF AtString
<1>4. js[pos + 1] = "backslash"
  BY Zenon, <1>1 DEF Char
<1>5. "backslash" # "x" /\ "backslash" # "rbrace" /\ "backslash" # "quote"
  OBVIOUS
<1> DEFINE esc == h[pos + 1].escape
           c == js[pos + 2]
<1>6. AtString(h, pos + 1)
        /\ esc \in {<<"quote">>, <<"backslash">>, <<"u", "b", "b", "b", "b">>}
  BY Zenon, <1>2, <1>3, <1>4, <1>5, PlainChar
<1>7. esc # <<>>
  BY <1>6
<1>8. \/ c = Head(esc) /\ h[pos + 2].escape = Tail(esc) /\ AtString(h, pos + 2)
      \/ c = "x" /\ expect = "damaged" /\ ref = h[start].ref
  BY Zenon, <1>3, <1>6, <1>7, EscapedChar
<1> HIDE DEF esc
<1>9. \/ Head(esc) \in {"quote", "backslash"} /\ Tail(esc) = <<>>
      \/ Head(esc) = "u" /\ Tail(esc) = <<"b", "b", "b", "b">>
  <2>1. CASE esc = <<"quote">>
    BY <2>1
  <2>2. CASE esc = <<"backslash">>
    BY <2>2
  <2>3. CASE esc = <<"u", "b", "b", "b", "b">>
    BY <2>3
  <2> QED
    BY Zenon, <1>6, <2>1, <2>2, <2>3
<1>10. mode \in {"string", "primitive"}
  BY <1>1
<1>11. CASE /\ c \in {"quote", "backslash", "b"}
            /\ Go(pos + 2, "string") /\ UNCHANGED <<toksuper, tokens, start, count>>
  <2>1. h[pos + 2].escape = <<>> /\ AtString(h, pos + 2)
    BY Zenon, <1>8, <1>9, <1>11
  <2> QED
    BY Zenon, <1>3, <1>11, <2>1, StringGoesOn
<1>12. ASSUME c = "u"
       PROVE  AtString(h, pos + 2) /\ h[pos + 2].escape = <<"b", "b", "b", "b">>
  BY Zenon, <1>8, <1>9, <1>12
<1>13. ASSUME c = "u"
       PROVE  /\ (\A d \in pos + 3 .. DigitsEnd : js[d] = "b") =>
                   /\ AtString(h, DigitsEnd)
                   /\ h[DigitsEnd].escape = <<>> \/ DigitsEnd = Len(js)
              /\ (\E d \in pos + 3 .. DigitsEnd : js[d] # "b") =>
                   expect = "damaged" /\ ref = h[start].ref
  <2>1. DigitsEnd = (IF pos + 2 + 4 < Len(js) THEN pos + 2 + 4 ELSE Len(js))
          /\ pos + 2 + 1 = pos + 3
    BY <1>3 DEF DigitsEnd
  <2> HIDE DEF c
  <2> QED
    BY Zenon, <1>3, <1>12, <1>13, <2>1, HexDigits
<1>14. CASE /\ c = "u" /\ \A d \in pos + 3 .. DigitsEnd : js[d] = "b"
            /\ Go(DigitsEnd, "string") /\ UNCHANGED <<toksuper, tokens, start, count>>
  <2>1. AtString(h, DigitsEnd) /\ (h[DigitsEnd].escape = <<>> \/ DigitsEnd = Len(js))
    BY Zenon, <1>13, <1>14
  <2>2. DigitsEnd > start
    BY <1>2, <1>3 DEF DigitsEnd, AtString
  <2> QED
    BY Zenon, <1>14, <2>1, <2>2, StringGoesOn
<1>15. CASE c = "u" /\ (\E d \in pos + 3 .. DigitsEnd : js[d] # "b") /\ Fail(INVAL, start)
  <2>1. expect = "damaged" /\ ref = h[start].ref
    BY Zenon, <1>13, <1>15
  <2> QED
    BY Zenon, <1>10, <1>15, <2>1, Broken
<1>16. CASE c \notin {"quote", "backslash", "b", "u"} /\ Fail(INVAL, start)
  <2>1. expect = "damaged" /\ ref = h[start].ref
    BY <1>8, <1>9, <1>16
  <2> QED
    BY Zenon, <1>10, <1>16, <2>1, Broken
<1> QED
  BY Zenon, <1>11, <1>14, <1>15, <1>16 DEF StringEscape

-----------------------------------------------------------------------------
(* Primitives *)

(* The next character of the primitive that began behind s *)
LEMMA PrimitiveNext ==
  ASSUME NEW s, NEW w, NEW v, NEW first, NEW n, NEW c, Wrote(w, n, c, v),
         s.expect \in {"value", "item"},
         (n = first /\ w = s) \/ Started(s, first, w) \/ Ended(s, first, n, w)
  PROVE  \/ c = "x" /\ (Started(s, first, v) \/ Ended(s, first, n + 1, v))
         \/ c = "ctl" /\ v.expect = "damaged" /\ v.ref = s.ref
         \/ n = first /\ w = s /\ c \notin {"x", "ctl"}
         \/ Ended(s, first, n, w) /\ c \in Delimiters
<1>1. CASE n = first /\ w = s
  <2>1. w.expect \in Between /\ w.expect # "primitive"
    BY <1>1 DEF Between
  <2>2. \/ c \notin {"x", "ctl"}
        \/ c = "x" /\ Primitive(w, n, c, v)
        \/ c = "ctl" /\ Damaged(w, c, v)
    BY Zenon, <2>1, CharBetween
  <2>3. Primitive(w, n, c, v) => Started(s, first, v) \/ Ended(s, first, n + 1, v)
    BY Zenon, <1>1, <2>1 DEF Primitive
  <2>4. Damaged(w, c, v) => v.expect = "damaged" /\ v.ref = s.ref
    BY Zenon, <1>1 DEF Damaged, Keeps
  <2> QED
    BY Zenon, <1>1, <2>2, <2>3, <2>4
<1>2. CASE Started(s, first, w)
  <2>1. w.expect = "primitive" /\ w.from = first /\ w.escape = s.escape /\ w.stack = s.stack
          /\ w.key = s.key /\ w.ref = s.ref
    BY Zenon, <1>2 DEF Started, Keeps
  <2>2. w.expect \notin {"value", "item"}
    BY <2>1
  <2>3. ParentOf(w) = ParentOf(s)
    BY Zenon, <2>1 DEF ParentOf, TopOf
  <2>4. (c = "x" /\ Primitive(w, n, c, v)) \/ (c = "ctl" /\ Damaged(w, c, v))
    BY Zenon, <2>1, CharPrimitive
  <2>5. Primitive(w, n, c, v) => Started(w, first, v) \/ Ended(w, first, n + 1, v)
    BY Zenon, <2>1, <2>2 DEF Primitive
  <2>6. Started(w, first, v) => Started(s, first, v)
    BY Zenon, <2>1 DEF Started, Keeps
  <2>7. Ended(w, first, n + 1, v) => Ended(s, first, n + 1, v)
    BY Zenon, <2>1, <2>3 DEF Ended
  <2>8. Damaged(w, c, v) => v.expect = "damaged" /\ v.ref = s.ref
    BY Zenon, <2>1 DEF Damaged, Keeps
  <2> QED
    BY Zenon, <2>4, <2>5, <2>6, <2>7, <2>8
<1>3. CASE Ended(s, first, n, w)
  <2>1. w.expect \in {"separator", "end"}
    BY Zenon, <1>3 DEF Ended, After
  <2> QED
    BY Zenon, <1>3, <2>1, CharPrimitive
<1> QED
  BY <1>1, <1>2, <1>3

(* What there is to know in a primitive *)
AtPrimitive(h) ==
  /\ js \in Seq(Chars) /\ start \in Nat /\ pos \in Nat /\ pos \in 0 .. Len(js)
  /\ h[start].expect \in {"value", "item"} /\ h[start].expect \in Between
  /\ \/ pos = start /\ pos < Len(js) /\ js[pos + 1] \in {"x", "ctl"}
     \/ Started(h[start], start, h[pos]) \/ Ended(h[start], start, pos, h[pos])
  /\ null => count = Len(h[start].ref)
  /\ ~null => tokens = h[start].ref /\ Super(toksuper, h[start])

(* Follows says it of a position in a primitive. *)
LEMMA InsidePrimitive ==
  ASSUME NEW h, Follows(h), mode = "primitive"
  PROVE  AtPrimitive(h)
<1>1. Base = start
  BY DEF Base
<1>2. js \in Seq(Chars) /\ start \in Nat /\ pos \in 0 .. Len(js) /\ pos \in Nat
  BY DEF Follows, InBounds, JsmnTypeOK
<1>3. InPrimitive(js, h[start], start, pos, h[pos])
  BY Zenon DEF Follows, Matches
<1>4. h[start].expect \in Between
        /\ (null => count = Len(h[start].ref))
        /\ (~null => tokens = h[start].ref /\ Super(toksuper, h[start]))
  BY Zenon, <1>1 DEF Follows, Matches
<1> QED
  BY Zenon, <1>2, <1>3, <1>4 DEF AtPrimitive, InPrimitive

(* A character in a primitive, or behind it *)
LEMMA PrimitiveAt ==
  ASSUME NEW h, Follows(h), AtPrimitive(h), pos < Len(js)
  PROVE  \/ Char = "x" /\ (Started(h[start], start, h[pos + 1])
                             \/ Ended(h[start], start, pos + 1, h[pos + 1]))
         \/ Char = "ctl" /\ expect = "damaged" /\ ref = h[start].ref
         \/ Char \in Delimiters /\ Ended(h[start], start, pos, h[pos])
<1> DEFINE s == h[start]
           w == h[pos]
           v == h[pos + 1]
<1>1. js \in Seq(Chars) /\ pos \in 0 .. Len(js) - 1
  <2>1. js \in Seq(Chars) /\ pos \in Nat
    BY Zenon DEF AtPrimitive
  <2> QED
    BY <2>1
<1>2. /\ Wrote(w, pos, Char, v)
      /\ v.expect = "damaged" => expect = "damaged" /\ v.ref = ref
  BY Zenon, <1>1, Around DEF Follows, Char
<1>3. s.expect \in {"value", "item"}
        /\ \/ pos = start /\ w = s /\ Char \in {"x", "ctl"}
           \/ Started(s, start, w) \/ Ended(s, start, pos, w)
  BY Zenon DEF AtPrimitive, Char
<1> HIDE DEF s, w, v
<1>4. \/ Char = "x" /\ (Started(s, start, v) \/ Ended(s, start, pos + 1, v))
      \/ Char = "ctl" /\ v.expect = "damaged" /\ v.ref = s.ref
      \/ pos = start /\ w = s /\ Char \notin {"x", "ctl"}
      \/ Ended(s, start, pos, w) /\ Char \in Delimiters
  BY Zenon, <1>2, <1>3, PrimitiveNext
<1>5. CASE pos = start /\ w = s /\ Char \notin {"x", "ctl"}
  <2>1. ~(Char \in {"x", "ctl"})
    BY <1>5
  <2>2. Started(s, start, w) \/ Ended(s, start, pos, w)
    BY Zenon, <1>3, <2>1
  <2>3. w.expect \in {"primitive", "separator", "end"}
    BY Zenon, <2>2 DEF Started, Ended, After
  <2> QED
    BY <1>3, <1>5, <2>3
<1> QED
  BY Zenon, <1>2, <1>4, <1>5 DEF s, v, w

(* Another character of a primitive, or one that no primitive has: the     *)
(* damage                                                                  *)
LEMMA PrimitiveCharMatches ==
  ASSUME NEW h, Follows(h), PrimitiveChar, UNCHANGED <<writer, reader>>
  PROVE  Synced(h)'
<1>1. mode = "primitive" /\ pos < Len(js) /\ Char \notin Delimiters
  BY DEF PrimitiveChar, At
<1>2. AtPrimitive(h)
  BY Zenon, <1>1, InsidePrimitive
<1>3. \/ Char = "x" /\ (Started(h[start], start, h[pos + 1])
                          \/ Ended(h[start], start, pos + 1, h[pos + 1]))
      \/ Char = "ctl" /\ expect = "damaged" /\ ref = h[start].ref
  BY Zenon, <1>1, <1>2, PrimitiveAt
<1>4. CASE Char = "ctl"
  <2>1. expect = "damaged" /\ ref = h[start].ref
    BY <1>3, <1>4
  <2>2. Fail(INVAL, start) /\ mode \in {"string", "primitive"}
    BY <1>1, <1>4 DEF PrimitiveChar
  <2> QED
    BY Zenon, <2>1, <2>2, Broken
<1>5. CASE Char = "x"
  <2>1. mode' = "primitive" /\ pos' = pos + 1 /\ js' = js /\ null' = null /\ start' = start
          /\ tokens' = tokens /\ toksuper' = toksuper /\ count' = count
    BY <1>5 DEF PrimitiveChar, Go, args
  <2>2. Started(h[start], start, h[pos + 1]) \/ Ended(h[start], start, pos + 1, h[pos + 1])
    BY <1>3, <1>5
  <2>3. pos + 1 # start
    BY DEF Follows, InBounds, JsmnTypeOK
  <2>4. InPrimitive(js, h[start], start, pos + 1, h[pos + 1])
    BY Zenon, <1>2, <2>2, <2>3 DEF InPrimitive, AtPrimitive
  <2>5. InPrimitive(js', h[start'], start', pos', h[pos'])
    BY Zenon, <2>1, <2>4
  <2>6. /\ h[start'].expect \in Between
        /\ null => count' = Len(h[start'].ref)
        /\ ~null => tokens' = h[start'].ref /\ Super(toksuper', h[start'])
    BY Zenon, <1>2, <2>1 DEF AtPrimitive
  <2> QED
    BY Zenon, <2>1, <2>5, <2>6, StayInPrimitive
<1> QED
  BY <1>3, <1>4, <1>5

(* A primitive ends at a delimiter or at the end of the text. *)
LEMMA PrimitiveEndMatches ==
  ASSUME NEW h, Follows(h), PrimitiveEnd, UNCHANGED <<writer, reader>>
  PROVE  Synced(h)'
<1>1. mode = "primitive" /\ mode \in {"string", "primitive"} /\ Leaf("PRIMITIVE", start, pos)
        /\ ((pos < Len(js) /\ Char \in Delimiters) \/ pos >= Len(js))
  BY DEF PrimitiveEnd, At
<1>2. AtPrimitive(h)
  BY Zenon, <1>1, InsidePrimitive
<1>3. Ended(h[start], start, pos, h[pos])
  <2>1. CASE pos < Len(js) /\ Char \in Delimiters
    <3>1. Char # "x" /\ Char # "ctl"
      BY <2>1 DEF Delimiters
    <3> QED
      BY Zenon, <1>2, <2>1, <3>1, PrimitiveAt
  <2>2. CASE pos >= Len(js)
    <3>1. h[pos].expect = expect
      BY Zenon, <2>2, Behind DEF Follows
    <3>2. ~Started(h[start], start, h[pos])
      BY Zenon, <3>1 DEF Started, Follows
    <3>3. ~(pos < Len(js))
      BY <1>2, <2>2 DEF AtPrimitive
    <3> QED
      BY Zenon, <1>2, <3>2, <3>3 DEF AtPrimitive
  <2> QED
    BY <1>1, <2>1, <2>2
<1>4. h[start].expect \in {"value", "item"}
  BY Zenon, <1>2 DEF AtPrimitive
<1>5. Complete(h[start], "PRIMITIVE", start, pos, h[pos])
  BY Zenon, <1>3, <1>4 DEF Complete, Ended
<1>6. start \in Nat /\ pos \in 0 .. Len(js) /\ "PRIMITIVE" \in LeafTypes
  BY Zenon, <1>2, LeafTypesHave DEF AtPrimitive
<1> QED
  BY Zenon, <1>1, <1>5, <1>6, LeafMatches

-----------------------------------------------------------------------------
(* The writer, the programs, and the theorem *)

(* A step of jsmn_parse leaves the text and the arguments alone. *)
LEMMA ParseFrame ==
  ASSUME Parse
  PROVE  js' = js /\ num' = num /\ null' = null /\ mode # "idle"
<1>1. CASE Begin \/ End \/ Blank \/ Colon \/ Comma
  BY <1>1 DEF Begin, End, Blank, Colon, Comma, At, Go, Fail, args
<1>2. CASE LeafBegin \/ StringQuote \/ StringChar \/ StringEscape \/ StringPart
  BY <1>2 DEF LeafBegin, StringQuote, StringChar, StringEscape, StringPart, Leaf, At, Go,
              Fail, args
<1>3. CASE PrimitiveChar \/ PrimitiveEnd \/ Return
  BY <1>3 DEF PrimitiveChar, PrimitiveEnd, Return, Leaf, At, Go, Fail, args
<1> QED
  BY Zenon, <1>1, <1>2, <1>3 DEF Parse

(* Every step of jsmn_parse keeps the tokenizer in agreement with the      *)
(* history.                                                                *)
LEMMA ParseMatches ==
  ASSUME NEW h, Follows(h), Parse, UNCHANGED <<writer, reader>>
  PROVE  Synced(h)'
BY Zenon, BeginMatches, EndMatches, SeparatorMatches, LeafBeginMatches, StringQuoteMatches,
   StringCharMatches, StringEscapeMatches, StringPartMatches, PrimitiveCharMatches,
   PrimitiveEndMatches, ReturnMatches DEF Parse

(* The same, as a step of a program *)
LEMMA ParsingMatches ==
  ASSUME InBounds, TInv, Parsing
  PROVE  TInv'
<1>1. PICK h : Recorded(h, js, Now) /\ (Concerned => Matches(h))
  BY Zenon DEF TInv
<1>2. pc = "parse" /\ Parse /\ UNCHANGED <<writer, reader>>
  BY DEF Parsing, writer
<1>3. js' = js /\ num' = num /\ null' = null /\ mode # "idle"
  BY Zenon, <1>2, ParseFrame
<1>4. Now' = Now /\ expect' = expect /\ pc' = pc /\ prog' = prog /\ cut' = cut
  BY <1>2 DEF Now, writer, reader
<1>5. Recorded(h, js', Now')
  BY Zenon, <1>1, <1>3, <1>4
<1>6. Synced(h)'
  <2>1. CASE Concerned
    <3>1. Follows(h)
      BY Zenon, <1>1, <1>2, <2>1 DEF Follows, TInv, Concerned
    <3> QED
      BY Zenon, <1>2, <3>1, ParseMatches
  <2>2. CASE cut
    BY <1>4, <2>2 DEF Synced, Concerned, TokensMatch
  <2>3. CASE null /\ expect = "damaged"
    BY <1>3, <1>4, <2>3 DEF Synced, Concerned, TokensMatch
  <2> QED
    BY <1>3, <2>1, <2>2, <2>3 DEF Concerned
<1>7. \E g : Recorded(g, js', Now') /\ (Concerned' => Matches(g)')
  BY Zenon, <1>5, <1>6 DEF Synced
<1>8. TokensMatch'
  BY Zenon, <1>6 DEF Synced
<1>9. (pc # "parse" => mode = "idle")'
  BY <1>2, <1>4
<1>10. (/\ pc = "parse" /\ ~cut => expect # "primitive"
        /\ prog # "dump" /\ pc = "read" => pos = 0
        /\ prog = "dump" \/ pc = "read" => ~null
        /\ null => num = 0)'
  BY <1>2, <1>3, <1>4 DEF TInv
<1> QED
  BY Zenon, <1>7, <1>8, <1>9, <1>10 DEF TInv

(* The writer extends the history; the tokenizer, between two calls,       *)
(* agrees with an earlier state of it.                                     *)
LEMMA WriteMatches ==
  ASSUME InBounds, TInv, Write
  PROVE  TInv'
<1>1. PICK h : Recorded(h, js, Now) /\ (Concerned => Matches(h))
  BY Zenon DEF TInv
<1>2. js \in Seq(Chars) /\ Len(js) \in 0 .. Len(js) /\ pos \in 0 .. Len(js)
  BY DEF InBounds, JsmnTypeOK
<1>3. Shape(Now) /\ h[Len(js)] = Now
  BY Zenon, <1>1, <1>2 DEF Recorded
<1>4. /\ pc = "read" /\ UNCHANGED <<jsmn, reader>> /\ expect # "damaged"
      /\ \/ \E c : js' = Append(js, c) /\ Wrote(Now, Len(js), c, Now')
         \/ js' = js /\ expect = "primitive" /\ Ended(Now, from, Len(js), Now')
  BY Zenon, <1>3, WriteStep
<1>5. /\ pos' = pos /\ toksuper' = toksuper /\ tokens' = tokens /\ null' = null /\ num' = num
      /\ count' = count /\ mode' = mode
      /\ prog' = prog /\ pc' = pc /\ cut' = cut
  BY <1>4 DEF jsmn, parser, args, reader
<1>6. mode = "idle" /\ ~null
  BY <1>4 DEF TInv
<1>7. Base = pos /\ Base' = pos
  BY <1>5, <1>6 DEF Base
<1>8. Now.expect = expect /\ Now.from = from
  BY DEF Now
<1>9. ASSUME NEW g, Concerned => g[pos] = h[pos]
      PROVE  Concerned' => Matches(g)'
  <2> SUFFICES ASSUME Concerned' PROVE Matches(g)'
    OBVIOUS
  <2>1. Concerned
    BY <1>5, <1>6 DEF Concerned
  <2>2. h[pos].expect \in Between /\ tokens = h[pos].ref /\ Super(toksuper, h[pos])
    BY Zenon, <1>1, <1>6, <1>7, <2>1 DEF Matches
  <2>3. g[Base'].expect \in Between /\ tokens' = g[Base'].ref /\ Super(toksuper', g[Base'])
    BY Zenon, <1>5, <1>7, <1>9, <2>1, <2>2
  <2>4. ~null' /\ mode' # "string" /\ mode' # "primitive"
    BY <1>5, <1>6
  <2> QED
    BY Zenon, <2>3, <2>4 DEF Matches
<1>10. \E g : Recorded(g, js', Now') /\ (Concerned => g[pos] = h[pos])
  <2>1. ASSUME NEW c, js' = Append(js, c), Wrote(Now, Len(js), c, Now')
        PROVE  \E g : Recorded(g, js', Now') /\ (Concerned => g[pos] = h[pos])
    <3>1. Now.expect # "damaged"
      BY <1>4, <1>8
    <3>2. Continued(h, Len(js), Append(js, c), Now')
      BY Zenon, <1>1, <1>2, <2>1, <3>1, HistoryGrows
    <3>3. PICK g : Recorded(g, Append(js, c), Now') /\ \A n \in 0 .. Len(js) : g[n] = h[n]
      BY Zenon, <3>2 DEF Continued
    <3> QED
      BY Zenon, <1>2, <2>1, <3>3
  <2>2. CASE js' = js /\ expect = "primitive" /\ Ended(Now, from, Len(js), Now')
    <3>0. Now.expect = "primitive" /\ Ended(Now, Now.from, Len(js), Now')
      BY Zenon, <1>8, <2>2
    <3>1. Continued(h, Len(js) - 1, js, Now')
      BY Zenon, <1>1, <1>2, <3>0, HistoryEnds
    <3>3. PICK g : Recorded(g, js, Now') /\ \A n \in 0 .. Len(js) - 1 : g[n] = h[n]
      BY Zenon, <3>1 DEF Continued
    <3>2. ASSUME Concerned PROVE pos \in 0 .. Len(js) - 1
      <4>1. h[pos].expect \in Between
        BY Zenon, <1>1, <1>7, <3>2 DEF Matches
      <4>2. pos # Len(js)
        BY <1>3, <1>8, <2>2, <4>1 DEF Between
      <4> QED
        BY <1>2, <4>2
    <3> QED
      BY Zenon, <2>2, <3>2, <3>3
  <2> QED
    BY Zenon, <1>4, <2>1, <2>2
<1>11. \E g : Recorded(g, js', Now') /\ (Concerned' => Matches(g)')
  BY Zenon, <1>9, <1>10
<1>12. TokensMatch'
  BY <1>4, <1>5 DEF TokensMatch
<1>13. (/\ pc # "parse" => mode = "idle"
        /\ pc = "parse" /\ ~cut => expect # "primitive"
        /\ prog # "dump" /\ pc = "read" => pos = 0
        /\ prog = "dump" \/ pc = "read" => ~null
        /\ null => num = 0)'
  BY <1>4, <1>5 DEF TInv
<1> QED
  BY Zenon, <1>11, <1>12, <1>13 DEF TInv

(* A call begins, or is repeated. *)
LEMMA CallMatches ==
  ASSUME TInv, UNCHANGED doc, mode = "idle", pc' = "parse", prog' = prog,
         NEW n, NEW isNull \in BOOLEAN, jsmn_parse(n, isNull),
         ~cut' => ~cut /\ expect # "primitive", ~null,
         isNull => pos = 0 /\ n = 0 /\ prog # "dump"
  PROVE  TInv'
<1>1. PICK h : Recorded(h, js, Now) /\ (Concerned => Matches(h))
  BY Zenon DEF TInv
<1>2. js' = js /\ Now' = Now /\ expect' = expect
  BY DEF doc, Now
<1>3. mode' = "main" /\ null' = isNull /\ num' = n /\ count' = 0 /\ pos' = pos
        /\ tokens' = tokens /\ toksuper' = toksuper
  BY DEF jsmn_parse, parser
<1>4. Base = pos /\ Base' = pos
  BY <1>3 DEF Base
<1>5. ASSUME Concerned' PROVE Matches(h)'
  <2>1. Concerned
    BY <1>5 DEF Concerned
  <2>2. h[pos].expect \in Between /\ tokens = h[pos].ref /\ Super(toksuper, h[pos])
    BY Zenon, <1>1, <1>4, <2>1 DEF Matches
  <2>3. mode' # "string" /\ mode' # "primitive"
    BY <1>3
  <2>4. CASE isNull
    <3>1. h[pos].ref = <<>>
      BY Zenon, <1>1, <2>4 DEF Recorded
    <3>2. count' = Len(h[pos].ref)
      BY <1>3, <3>1
    <3> QED
      BY Zenon, <1>3, <1>4, <2>2, <2>3, <2>4, <3>2 DEF Matches
  <2>5. CASE ~isNull
    BY Zenon, <1>3, <1>4, <2>2, <2>3, <2>5 DEF Matches
  <2> QED
    BY <2>4, <2>5
<1>6. \E g : Recorded(g, js', Now') /\ (Concerned' => Matches(g)')
  BY Zenon, <1>1, <1>2, <1>5
<1>7. TokensMatch'
  BY <1>3 DEF TokensMatch
<1>8. (/\ pc # "parse" => mode = "idle"
       /\ pc = "parse" /\ ~cut => expect # "primitive"
       /\ prog # "dump" /\ pc = "read" => pos = 0
       /\ prog = "dump" \/ pc = "read" => ~null
       /\ null => num = 0)'
  BY <1>2, <1>3 DEF TInv
<1> QED
  BY Zenon, <1>6, <1>7, <1>8 DEF TInv

(* A call is over. *)
LEMMA OverMatches ==
  ASSUME TInv, UNCHANGED <<doc, jsmn, prog, cut>>, mode = "idle", pc' # "parse",
         pc' = "read" => prog = "dump"
  PROVE  TInv'
<1>1. PICK h : Recorded(h, js, Now) /\ (Concerned => Matches(h))
  BY Zenon DEF TInv
<1>2. js' = js /\ Now' = Now /\ expect' = expect /\ prog' = prog /\ cut' = cut
  BY DEF doc, Now
<1>3. mode' = mode /\ null' = null /\ num' = num /\ count' = count /\ pos' = pos /\ start' = start
        /\ tokens' = tokens /\ toksuper' = toksuper
  BY DEF jsmn, args, parser
<1>4. Concerned' => Matches(h)'
  BY <1>1, <1>2, <1>3 DEF Concerned, Matches, Base
<1>5. \E g : Recorded(g, js', Now') /\ (Concerned' => Matches(g)')
  BY Zenon, <1>1, <1>2, <1>4
<1>6. TokensMatch'
  BY DEF TokensMatch
<1>7. (/\ pc # "parse" => mode = "idle"
       /\ pc = "parse" /\ ~cut => expect # "primitive"
       /\ prog # "dump" /\ pc = "read" => pos = 0
       /\ prog = "dump" \/ pc = "read" => ~null
       /\ null => num = 0)'
  BY <1>2, <1>3 DEF TInv
<1> QED
  BY Zenon, <1>5, <1>6, <1>7 DEF TInv

(* The steps of the programs *)
LEMMA ReadMatches ==
  ASSUME InBounds, TInv, Read
  PROVE  TInv'
<1>1. CASE ReadChunk
  <2>1. mode = "idle" /\ pc' = "parse" /\ prog' = prog /\ UNCHANGED doc
          /\ (~cut' => ~cut /\ expect # "primitive") /\ FALSE \in BOOLEAN
          /\ jsmn_parse(IF got = 0 THEN 2 ELSE num, FALSE)
    BY Zenon, <1>1 DEF ReadChunk, jsmn_parse
  <2>2. ~null
    BY <1>1 DEF ReadChunk, TInv
  <2> QED
    BY Zenon, <2>1, <2>2, CallMatches
<1>2. CASE Dump
  <2>1. CASE r = NOMEM /\ jsmn_parse(Grown(num), FALSE) /\ UNCHANGED <<doc, reader>>
    <3>1. mode = "idle" /\ pc' = "parse" /\ prog' = prog /\ UNCHANGED doc
            /\ jsmn_parse(Grown(num), FALSE) /\ cut' = cut /\ FALSE \in BOOLEAN
      BY Zenon, <1>2, <2>1 DEF Dump, reader
    <3>2. ~null /\ (~cut => expect # "primitive")
      BY <1>2 DEF Dump, TInv
    <3> QED
      BY Zenon, <3>1, <3>2, CallMatches
  <2>2. CASE UNCHANGED <<doc, jsmn, prog, cut>> /\ pc' = "read"
    <3>1. mode = "idle" /\ pc' # "parse" /\ prog = "dump"
      BY <1>2, <2>2 DEF Dump
    <3> QED
      BY Zenon, <2>2, <3>1, OverMatches
  <2> QED
    BY Zenon, <1>2, <2>1, <2>2 DEF Dump
<1>3. CASE Exit
  <2>1. UNCHANGED <<doc, jsmn, prog, cut>> /\ pc' # "parse" /\ pc' # "read"
    BY <1>3 DEF Exit
  <2>2. mode = "idle"
    BY <1>3 DEF Exit, TInv
  <2> QED
    BY Zenon, <2>1, <2>2, OverMatches
<1>4. CASE CallOnce
  <2>1. /\ pc' = "parse" /\ prog' = prog /\ UNCHANGED doc /\ cut' = cut /\ expect # "primitive"
        /\ TRUE \in BOOLEAN /\ FALSE \in BOOLEAN
    BY <1>4 DEF CallOnce
  <2>2. ~null /\ mode = "idle" /\ (prog # "dump" => pos = 0)
    BY <1>4 DEF CallOnce, TInv
  <2>3. CASE prog = "stats" /\ \E n \in StatsTokens : jsmn_parse(n, FALSE)
    BY Zenon, <2>1, <2>2, <2>3, CallMatches
  <2>4. CASE prog = "count" /\ jsmn_parse(0, TRUE)
    <3>1. prog # "dump"
      BY <2>4
    <3> QED
      BY Zenon, <2>1, <2>2, <2>4, <3>1, CallMatches
  <2> QED
    BY Zenon, <1>4, <2>3, <2>4 DEF CallOnce
<1>5. CASE PrintStats \/ Estimate
  <2>1. UNCHANGED <<doc, jsmn, prog, cut>> /\ pc' # "parse" /\ pc' # "read" /\ mode = "idle"
    BY <1>5 DEF PrintStats, Estimate
  <2> QED
    BY Zenon, <2>1, OverMatches
<1>6. CASE Parsing
  BY Zenon, <1>6, ParsingMatches
<1> QED
  BY <1>1, <1>2, <1>3, <1>4, <1>5, <1>6 DEF Read

(* Before the first character the history is the first state of the        *)
(* writer.                                                                 *)
LEMMA InitMatches ==
  ASSUME Init
  PROVE  TInv
<1>1. /\ js = <<>> /\ expect = "value" /\ stack = <<>> /\ key = 0 /\ from = 0 /\ escape = <<>>
      /\ ref = <<>> /\ pos = 0 /\ toksuper = 0 /\ tokens = <<>> /\ mode = "idle" /\ null = FALSE
      /\ pc = "read"
  BY DEF Init, jsmn_init
<1> DEFINE h == [n \in 0 .. 0 |-> Now]
<1>2. h[0] = Now
  OBVIOUS
<1> HIDE DEF h
<1>3. Now.expect = "value" /\ Now.stack = <<>> /\ Now.key = 0 /\ Now.from = 0 /\ Now.escape = <<>>
        /\ Now.ref = <<>>
  BY <1>1 DEF Now
<1>4. OpenIn(<<>>) = {} /\ Stacked(<<>>, <<>>)
  BY DEF OpenIn, Stacked
<1>5. Shape(Now)
  BY <1>3, <1>4 DEF Shape, Between
<1>6. Recorded(h, js, Now)
  <2>1. Len(js) = 0
    BY <1>1
  <2> HIDE DEF Now
  <2>2. \A n \in 0 .. 0 : h[n] = Now
    <3>1. 0 .. 0 = {0}
      BY Zenon, SmallRanges
    <3> QED
      BY Zenon, <1>2, <3>1
  <2>3. Len(Now.ref) <= Len(Now.ref)
    BY Zenon, <1>3, SmallRanges
  <2>4. 0 .. 0 - 1 = {}
    BY Zenon, SmallRanges
  <2> QED
    BY Zenon, <1>2, <1>3, <1>5, <2>1, <2>2, <2>3, <2>4 DEF Recorded
<1>7. Matches(h)
  <2>1. Base = 0
    BY <1>1 DEF Base
  <2>2. ParentOf(Now) = 0
    BY Zenon, <1>3 DEF ParentOf
  <2>3. Super(0, Now)
    BY <1>3, <2>2 DEF Super
  <2>4. Now.expect \in Between
    BY <1>3 DEF Between
  <2> QED
    BY Zenon, <1>1, <1>2, <1>3, <2>1, <2>3, <2>4 DEF Matches
<1>8. TokensMatch
  BY <1>1 DEF TokensMatch
<1>9. \E g : Recorded(g, js, Now) /\ (Concerned => Matches(g))
  BY Zenon, <1>6, <1>7
<1> QED
  BY <1>1, <1>8, <1>9 DEF TInv

(* There is always such a history, and the tokenizer agrees with it. *)
LEMMA Traced == Spec => []TInv
<1>1. Init => TInv
  BY InitMatches
<1>2. InBounds /\ TInv /\ [Next]_vars => TInv'
  <2> SUFFICES ASSUME InBounds, TInv, [Next]_vars PROVE TInv'
    OBVIOUS
  <2>1. CASE Done \/ UNCHANGED vars
    <3>1. UNCHANGED <<doc, jsmn, reader>>
      BY <2>1 DEF Done, vars
    <3> QED
      BY Zenon, <3>1 DEF doc, jsmn, parser, args, reader, TInv, Now, Concerned, Matches, Base,
                  TokensMatch
  <2> QED
    BY Zenon, <2>1, WriteMatches, ReadMatches DEF Next
<1> QED
  BY <1>1, <1>2, StaysInBounds, PTL DEF Spec

(* For every text, every way to cut it into chunks outside of primitives   *)
(* and every size of the arrays, a call that does not run out of tokens    *)
(* has found the tokens of the text, JSMN_ERROR_INVAL means a damaged      *)
(* text, JSMN_ERROR_PART an incomplete one, and the number returned        *)
(* without an array is the number of tokens.                               *)
THEOREM FindsTokens == Spec => []TokensMatch
<1>1. TInv => TokensMatch
  BY DEF TInv
<1> QED
  BY <1>1, Traced, PTL

-----------------------------------------------------------------------------
(* The tree the tokens describe *)

(* P[t] is the number of visits dump() still has to make behind token t,   *)
(* and m what is left behind the last one.                                 *)
Balance(toks, P, m) ==
  /\ P \in [0 .. Len(toks) -> Nat] /\ P[0] = 1 /\ P[Len(toks)] = m
  /\ \A t \in 1 .. Len(toks) : P[t] = P[t - 1] + Items(toks[t]) - 1
  /\ \A t \in 0 .. Len(toks) - 1 : P[t] >= 1

Balanced(toks, m) == \E P : Balance(toks, P, m)

(* A value is still missing: the document, or the one of a key. *)
Pending(w) == IF w.ref = <<>> \/ w.key # 0 THEN 1 ELSE 0

(* Keys are written in objects, and values without a key in arrays. *)
Placed(w) ==
  /\ w.stack # <<>> /\ w.expect \in {"member", "key", "keystring", "colon"} =>
       w.ref[TopOf(w)].type = "OBJECT"
  /\ w.stack # <<>> /\ w.expect \in {"value", "item", "string", "primitive"} =>
       w.ref[TopOf(w)].type = IF w.key = 0 THEN "ARRAY" ELSE "OBJECT"
  /\ w.stack = <<>> /\ w.expect \in {"value", "item", "string", "primitive"} => w.ref = <<>>

Tree(w) == Placed(w) /\ Balanced(w.ref, Pending(w))

MoreItems(new, toks, p, e) ==
  \A i \in 1 .. Len(toks) :
    Items(new[i]) = IF i = p THEN Items(toks[i]) + e ELSE Items(toks[i])

(* A token more: its parent has e items more. *)
LEMMA BalanceGrows ==
  ASSUME NEW toks \in Seq(Token), NEW m \in Nat, Balanced(toks, m), NEW tok \in Token,
         tok.size = 0, NEW new, Longer(new, toks, tok), NEW p \in 0 .. Len(toks), NEW e \in Nat,
         m + e >= 1, p = 0 => e = 0, MoreItems(new, toks, p, e)
  PROVE  Balanced(new, m + e - 1)
<1>1. PICK P : Balance(toks, P, m)
  BY Zenon DEF Balanced
<1> DEFINE len == Len(toks)
           Q == [t \in 0 .. len + 1 |-> IF t = len + 1 THEN m + e - 1
                                        ELSE IF p <= t THEN P[t] + e ELSE P[t]]
<1>2. len \in Nat /\ Len(new) = len + 1 /\ new[len + 1] = tok
  BY DEF Longer
<1>3. P \in [0 .. len -> Nat] /\ P[0] = 1 /\ P[len] = m
        /\ (\A t \in 1 .. len : P[t] = P[t - 1] + Items(toks[t]) - 1)
        /\ \A t \in 0 .. len - 1 : P[t] >= 1
  BY <1>1 DEF Balance
<1>4. Items(tok) = 0
  <2>1. tok.size = 0 /\ 2 * tok.size = 0
    OBVIOUS
  <2> QED
    BY Zenon, <2>1 DEF Items
<1>5. \A i \in 1 .. len : Items(new[i]) = IF i = p THEN Items(toks[i]) + e ELSE Items(toks[i])
  BY Zenon DEF MoreItems
<1>6. \A t \in 1 .. len : Items(toks[t]) \in Nat
  <2>1. \A t \in 1 .. len : toks[t] \in Token
    OBVIOUS
  <2> QED
    BY Zenon, <2>1, ItemsNat
<1>7. p \in 0 .. len /\ (p = 0 => e = 0) /\ m + e >= 1
  OBVIOUS
<1> HIDE DEF len
<1>8. Q \in [0 .. len + 1 -> Nat]
  <2>1. m + e - 1 \in Nat
    BY <1>7
  <2>2. \A t \in 0 .. len : P[t] \in Nat /\ P[t] + e \in Nat
    BY <1>3
  <2> QED
    BY <1>2, <2>1, <2>2
<1>9. Q[len + 1] = m + e - 1 /\ \A t \in 0 .. len : Q[t] = IF p <= t THEN P[t] + e ELSE P[t]
  BY <1>2
<1> HIDE DEF Q
<1>10. Q[0] = 1
  <2>1. 0 \in 0 .. len
    BY <1>2
  <2>2. Q[0] = IF p <= 0 THEN P[0] + e ELSE P[0]
    BY Zenon, <1>9, <2>1
  <2>3. p <= 0 => e = 0
    BY <1>7
  <2> QED
    BY SMTT(30), <1>3, <2>2, <2>3
<1>11. ASSUME NEW t \in 1 .. len + 1 PROVE Q[t] = Q[t - 1] + Items(new[t]) - 1
  <2>1. CASE t = len + 1
    <3>1. Q[len] = m + e
      BY <1>2, <1>3, <1>7, <1>9
    <3>2. t - 1 = len /\ Items(new[t]) = 0
      BY <1>2, <1>4, <2>1
    <3> QED
      BY SMTT(30), <1>2, <1>9, <2>1, <3>1, <3>2
  <2>2. CASE t \in 1 .. len
    <3>0. t \in 0 .. len /\ t - 1 \in 0 .. len
      BY <1>2, <2>2
    <3>1. /\ t \in 0 .. len /\ t - 1 \in 0 .. len /\ P[t] \in Nat /\ P[t - 1] \in Nat
          /\ P[t] = P[t - 1] + Items(toks[t]) - 1 /\ Items(toks[t]) \in Nat
      BY Zenon, <1>3, <1>6, <2>2, <3>0
    <3>2. Q[t] = (IF p <= t THEN P[t] + e ELSE P[t])
            /\ Q[t - 1] = (IF p <= t - 1 THEN P[t - 1] + e ELSE P[t - 1])
      BY Zenon, <1>9, <3>1
    <3>3. Items(new[t]) = IF t = p THEN Items(toks[t]) + e ELSE Items(toks[t])
      BY Zenon, <1>5, <2>2
    <3>4. CASE p <= t - 1
      <4>1. Q[t] = P[t] + e /\ Q[t - 1] = P[t - 1] + e /\ Items(new[t]) = Items(toks[t])
        BY SMTT(30), <1>7, <2>2, <3>2, <3>3, <3>4
      <4> QED
        BY SMTT(30), <3>1, <4>1
    <3>5. CASE p = t
      <4>1. Q[t] = P[t] + e /\ Q[t - 1] = P[t - 1] /\ Items(new[t]) = Items(toks[t]) + e
        BY <1>7, <2>2, <3>2, <3>3, <3>5
      <4> QED
        BY SMTT(30), <3>1, <4>1
    <3>6. CASE p > t
      <4>1. Q[t] = P[t] /\ Q[t - 1] = P[t - 1] /\ Items(new[t]) = Items(toks[t])
        BY SMTT(30), <1>7, <2>2, <3>2, <3>3, <3>6
      <4> QED
        BY SMTT(30), <3>1, <4>1
    <3> QED
      BY SMTT(30), <1>7, <2>2, <3>4, <3>5, <3>6
  <2> QED
    BY SMTT(30), <1>2, <2>1, <2>2
<1>12. ASSUME NEW t \in 0 .. len PROVE Q[t] >= 1
  <2>1. CASE t = len
    BY <1>2, <1>3, <1>7, <1>9, <2>1
  <2>2. CASE t \in 0 .. len - 1
    <3>1. P[t] >= 1 /\ P[t] \in Nat
      BY <1>3, <2>2
    <3>2. Q[t] = P[t] + e \/ Q[t] = P[t]
      BY Zenon, <1>9
    <3> QED
      BY <3>1, <3>2
  <2> QED
    BY SMTT(30), <1>2, <2>1, <2>2
<1>13. Balance(new, Q, m + e - 1)
  <2>1. Len(new) - 1 = len
    BY <1>2
  <2> QED
    BY Zenon, <1>2, <1>8, <1>9, <1>10, <1>11, <1>12, <2>1 DEF Balance
<1> QED
  BY Zenon, <1>13 DEF Balanced

(* What is missing when a token has been added where w is *)
LEMMA TokenPlaced ==
  ASSUME NEW w, Shape(w), Tree(w), NEW tok \in Token, tok.size = 0, NEW new,
         new = Added(w.ref, ParentOf(w), tok)
  PROVE  /\ w.expect \in {"value", "item", "string", "primitive"} => Balanced(new, 0)
         /\ w.expect = "keystring" => Balanced(new, 1)
<1> DEFINE toks == w.ref
           p == ParentOf(w)
<1>1. toks \in Seq(Token) /\ p \in 0 .. Len(toks) /\ (p = 0 <=> w.stack = <<>>)
  BY Zenon, ParentIn DEF Shape
<1>2. Longer(new, toks, tok) /\ Counted(new, toks, p)
  BY Zenon, <1>1, AddedTokens
<1>3. /\ \A i \in 1 .. Len(toks) : new[i].type = toks[i].type
      /\ \A i \in 1 .. Len(toks) : toks[i].size \in Nat
  <2>1. \A i \in 1 .. Len(toks) : toks[i] \in Token
    BY <1>1
  <2>2. \A i \in 1 .. Len(toks) : toks[i].size \in Nat
    BY <2>1 DEF Token
  <2> QED
    BY Zenon, <1>2, <2>2 DEF Longer
<1>4. Balanced(toks, Pending(w)) /\ Placed(w)
  BY Zenon DEF Tree
<1>5. w.key # 0 => p = w.key /\ toks[p].type = "STRING" /\ w.stack # <<>> /\ w.expect # "keystring"
  BY SMTT(30) DEF Shape, ParentOf
<1>6. w.key = 0 /\ w.stack # <<>> => p = TopOf(w)
  BY SMTT(30) DEF ParentOf
<1>7. w.expect = "keystring" => w.stack # <<>>
  BY DEF Shape
<1>8. w.stack # <<>> => toks # <<>>
  <2>1. w.stack # <<>> => TopOf(w) \in OpenIn(toks)
    BY Zenon, InnermostOpen
  <2> QED
    BY <1>1, <2>1 DEF OpenIn
<1>9. w.expect \in {"value", "item", "string", "primitive"} =>
        /\ w.stack = <<>> => toks = <<>>
        /\ w.stack # <<>> /\ w.key = 0 => toks[p].type = "ARRAY"
  BY Zenon, <1>4, <1>6 DEF Placed
<1>10. w.expect = "keystring" => w.key = 0 /\ toks[p].type = "OBJECT"
  <2> SUFFICES ASSUME w.expect = "keystring" PROVE w.key = 0 /\ toks[p].type = "OBJECT"
    OBVIOUS
  <2>1. w.expect \in {"member", "key", "keystring", "colon"}
    BY Zenon
  <2> QED
    BY Zenon, <1>4, <1>5, <1>6, <1>7, <2>1 DEF Placed
<1> HIDE DEF toks, p
<1>11. ASSUME NEW e \in {0, 1, 2}, p = 0 => e = 0,
              p # 0 => toks[p].type = (CASE e = 0 -> "STRING" [] e = 1 -> "ARRAY"
                                         [] OTHER -> "OBJECT")
       PROVE  MoreItems(new, toks, p, e)
  <2> SUFFICES ASSUME NEW i \in 1 .. Len(toks)
               PROVE  Items(new[i]) = IF i = p THEN Items(toks[i]) + e ELSE Items(toks[i])
    BY DEF MoreItems
  <2>1. CASE i # p
    BY <1>2, <1>3, <2>1 DEF Items, Counted
  <2>2. CASE i = p
    <3>1. p # 0 /\ new[i].type = toks[i].type /\ new[i].size = toks[i].size + 1
            /\ toks[i].size \in Nat
      BY SMTT(30), <1>2, <1>3, <2>2 DEF Counted
    <3> QED
      BY Zenon, <1>11, <2>2, <3>1, ChildItems
  <2> QED
    BY <2>1, <2>2
<1>12. ASSUME w.expect \in {"value", "item", "string", "primitive"} PROVE Balanced(new, 0)
  <2>1. CASE w.key # 0 \/ w.stack = <<>>
    <3>1. Pending(w) = 1
      BY Zenon, <1>9, <1>12, <2>1 DEF Pending, toks
    <3>2. p # 0 => toks[p].type = "STRING"
      BY Zenon, <1>1, <1>5, <2>1
    <3>3. MoreItems(new, toks, p, 0)
      BY <1>11, <3>2
    <3>4. 1 \in Nat /\ 0 \in Nat /\ 1 + 0 >= 1 /\ 1 + 0 - 1 = 0
      OBVIOUS
    <3>5. Balanced(toks, 1)
      BY Zenon, <1>4, <3>1
    <3>6. Balanced(new, 1 + 0 - 1)
      BY Zenon, <1>1, <1>2, <3>3, <3>4, <3>5, BalanceGrows
    <3> QED
      BY Zenon, <3>4, <3>6
  <2>2. CASE w.key = 0 /\ w.stack # <<>>
    <3>1. Pending(w) = 0 /\ p # 0 /\ toks[p].type = "ARRAY"
      BY Zenon, <1>1, <1>8, <1>9, <1>12, <2>2 DEF Pending, toks
    <3>2. MoreItems(new, toks, p, 1)
      BY <1>11, <3>1
    <3>3. 1 \in Nat /\ 0 \in Nat /\ 0 + 1 >= 1 /\ 0 + 1 - 1 = 0
      OBVIOUS
    <3>4. Balanced(toks, 0)
      BY Zenon, <1>4, <3>1
    <3>5. Balanced(new, 0 + 1 - 1)
      BY Zenon, <1>1, <1>2, <3>1, <3>2, <3>3, <3>4, BalanceGrows
    <3> QED
      BY Zenon, <3>3, <3>5
  <2> QED
    BY <2>1, <2>2
<1>13. ASSUME w.expect = "keystring" PROVE Balanced(new, 1)
  <2>1. Pending(w) = 0 /\ p # 0 /\ toks[p].type = "OBJECT"
    BY Zenon, <1>1, <1>7, <1>8, <1>10, <1>13 DEF Pending, toks
  <2>2. MoreItems(new, toks, p, 2)
    BY <1>11, <2>1
  <2>3. 2 \in Nat /\ 0 \in Nat /\ 0 + 2 >= 1 /\ 0 + 2 - 1 = 1
    OBVIOUS
  <2>4. Balanced(toks, 0)
    BY Zenon, <1>4, <2>1
  <2>5. Balanced(new, 0 + 2 - 1)
    BY Zenon, <1>1, <1>2, <2>1, <2>2, <2>3, <2>4, BalanceGrows
  <2> QED
    BY Zenon, <2>3, <2>5
<1> QED
  BY <1>12, <1>13

(* A string or primitive has been added, and its place is as it was. *)
LEMMA LeafPlaced ==
  ASSUME NEW w, Shape(w), Tree(w), NEW v, NEW type \in LeafTypes,
         NEW first \in Nat, NEW n \in Nat, v.stack = w.stack,
         v.ref = Added(w.ref, ParentOf(w), NewToken(type, first, n)),
         \/ /\ w.expect \in {"value", "item", "string", "primitive"}
            /\ v.expect = After(w.stack) /\ v.key = 0
         \/ w.expect = "keystring" /\ v.expect = "colon" /\ v.key = Len(w.ref) + 1
  PROVE  Tree(v)
<1> DEFINE tok == NewToken(type, first, n)
<1>1. tok \in Token /\ tok.size = 0
  BY LeafTypesHave DEF NewToken, Token
<1>2. w.ref \in Seq(Token) /\ ParentOf(w) \in 0 .. Len(w.ref) /\ Len(w.ref) \in Nat
  BY Zenon, ParentIn DEF Shape
<1>3. v.ref = Added(w.ref, ParentOf(w), tok)
  OBVIOUS
<1> HIDE DEF tok
<1>4. Longer(v.ref, w.ref, tok)
  BY Zenon, <1>1, <1>2, <1>3, AddedTokens
<1>5. /\ w.expect \in {"value", "item", "string", "primitive"} => Balanced(v.ref, 0)
      /\ w.expect = "keystring" => Balanced(v.ref, 1)
  BY Zenon, <1>1, <1>3, TokenPlaced
<1>6. v.ref # <<>>
  BY <1>2, <1>4 DEF Longer
<1>7. CASE w.expect # "keystring"
  <2>1. w.expect \in {"value", "item", "string", "primitive"} /\ v.expect = After(w.stack)
          /\ v.key = 0
    BY Zenon, <1>7
  <2>2. v.expect \in {"separator", "end"}
    BY Zenon, <2>1 DEF After
  <2>3. Placed(v)
    BY <2>2 DEF Placed
  <2>4. Pending(v) = 0
    BY Zenon, <1>6, <2>1 DEF Pending
  <2> QED
    BY Zenon, <1>5, <2>1, <2>3, <2>4 DEF Tree
<1>8. CASE w.expect = "keystring"
  <2>1. v.expect = "colon" /\ v.key # 0 /\ w.stack # <<>>
    BY Zenon, <1>2, <1>8, NextNat DEF Shape
  <2>2. TopOf(w) \in OpenIn(w.ref) /\ TopOf(v) = TopOf(w)
    BY Zenon, <2>1, InnermostOpen DEF TopOf
  <2>3. w.ref[TopOf(w)].type = "OBJECT"
    <3>1. w.expect \in {"member", "key", "keystring", "colon"}
      BY Zenon, <1>8
    <3> QED
      BY ZenonT(30), <2>1, <3>1 DEF Tree, Placed
  <2>4. v.ref[TopOf(v)].type = "OBJECT"
    <3>1. TopOf(w) \in 1 .. Len(w.ref)
      BY Zenon, <2>2 DEF OpenIn
    <3> QED
      BY Zenon, <1>4, <2>2, <2>3, <3>1 DEF Longer
  <2>5. v.expect \notin {"value", "item", "string", "primitive"}
    BY <2>1
  <2>6. Placed(v)
    BY Zenon, <2>4, <2>5 DEF Placed
  <2>7. Pending(v) = 1
    BY Zenon, <2>1 DEF Pending
  <2> QED
    BY ZenonT(30), <1>5, <1>8, <2>6, <2>7 DEF Tree
<1> QED
  BY SMTT(30), <1>7, <1>8

(* The tokens and the key stay as they are. *)
LEMMA TreeKept ==
  ASSUME NEW w, Tree(w), NEW v, v.ref = w.ref, v.key = w.key, Placed(v)
  PROVE  Tree(v)
<1>1. Pending(v) = Pending(w)
  BY Zenon DEF Pending
<1> QED
  BY Zenon, <1>1 DEF Tree

(* A new container is one item of its parent, and has none yet. *)
LEMMA OpenedTree ==
  ASSUME NEW w, Shape(w), Tree(w), NEW n \in Nat, NEW c, NEW v, Opened(w, n, c, v)
  PROVE  Tree(v)
<1> DEFINE tok == NewToken(TypeOf(c), n, -1)
<1>1. TypeOf(c) = (IF c = "lbrace" THEN "OBJECT" ELSE "ARRAY") /\ TypeOf(c) \in {"OBJECT", "ARRAY"}
  BY DEF TypeOf, Opened
<1>2. tok \in Token /\ tok.size = 0 /\ tok.type = TypeOf(c)
  BY <1>1 DEF NewToken, Token, Types
<1>3. w.ref \in Seq(Token) /\ ParentOf(w) \in 0 .. Len(w.ref) /\ Len(w.ref) \in Nat
  BY Zenon, ParentIn DEF Shape
<1>4. v.ref = Added(w.ref, ParentOf(w), tok) /\ v.key = 0
        /\ w.expect \in {"value", "item"}
        /\ v.expect = IF c = "lbrace" THEN "member" ELSE "item"
  BY Zenon DEF Opened
<1>5. /\ v.stack # <<>> /\ TopOf(v) = Len(w.ref) + 1
  BY Zenon, <1>1, ContainerAdded DEF Opened
<1> HIDE DEF tok
<1>6. Longer(v.ref, w.ref, tok)
  BY Zenon, <1>2, <1>3, <1>4, AddedTokens
<1>7. w.expect \in {"value", "item", "string", "primitive"}
  BY <1>4
<1>8. Balanced(v.ref, 0)
  BY Zenon, <1>2, <1>4, <1>7, TokenPlaced
<1>9. v.ref # <<>> /\ v.ref[TopOf(v)].type = TypeOf(c)
  BY <1>2, <1>3, <1>5, <1>6 DEF Longer
<1>10. Pending(v) = 0
  BY Zenon, <1>4, <1>9 DEF Pending
<1>11. Placed(v)
  BY Zenon, <1>1, <1>4, <1>5, <1>9 DEF Placed
<1> QED
  BY Zenon, <1>8, <1>10, <1>11 DEF Tree

(* Nothing is due in a container that is closed. *)
LEMMA ClosedTree ==
  ASSUME NEW w, Shape(w), Tree(w), NEW n \in Nat, NEW c, NEW v, Closed(w, n, c, v)
  PROVE  Tree(v)
<1> DEFINE toks == w.ref
           top == TopOf(w)
           new == v.ref
<1>1. w.expect \in {"separator", "item", "member"} /\ v.key = 0 /\ v.expect = After(v.stack)
        /\ new = [toks EXCEPT ![top].end = n + 1]
  BY Zenon DEF Closed
<1>2. w.key = 0 /\ w.stack # <<>> /\ toks \in Seq(Token)
  BY <1>1 DEF Shape
<1>3. top \in 1 .. Len(toks)
  BY Zenon, <1>2, InnermostOpen DEF OpenIn
<1> HIDE DEF toks, top, new
<1>4. toks[top] \in Token /\ toks # <<>> /\ n + 1 \in Nat
  BY <1>2, <1>3
<1>5. new = [toks EXCEPT ![top] = [toks[top] EXCEPT !.end = n + 1]]
  BY <1>1
<1>6. Len(new) = Len(toks) /\ new # <<>>
        /\ \A t \in 1 .. Len(toks) : t # top => new[t] = toks[t]
  BY <1>2, <1>3, <1>4, <1>5
<1>7. new[top] = [toks[top] EXCEPT !.end = n + 1]
  BY <1>2, <1>3, <1>5
<1>8. new[top].type = toks[top].type /\ new[top].size = toks[top].size
  <2> DEFINE one == [toks[top] EXCEPT !.end = n + 1]
  <2>1. one.type = toks[top].type /\ one.size = toks[top].size
    BY Zenon, <1>4, TokenFields
  <2> HIDE DEF one
  <2> QED
    BY Zenon, <1>7, <2>1 DEF one
<1>9. \A t \in 1 .. Len(toks) : Items(new[t]) = Items(toks[t])
  BY <1>6, <1>8 DEF Items
<1>10. Balanced(toks, 0)
  BY Zenon, <1>2, <1>4 DEF Tree, Pending, toks
<1>11. Balanced(new, 0)
  BY Zenon, <1>6, <1>9, <1>10 DEF Balanced, Balance
<1>12. Pending(v) = 0
  BY Zenon, <1>1, <1>6 DEF Pending, new
<1>13. Placed(v)
  BY <1>1 DEF Placed, After
<1> QED
  BY Zenon, <1>11, <1>12, <1>13 DEF Tree, new

(* Separators and blanks change no token. *)
LEMMA SeparatedTree ==
  ASSUME NEW w, Shape(w), Tree(w), NEW c, NEW v, Separated(w, c, v)
  PROVE  Tree(v)
<1>1. v.stack = w.stack /\ v.ref = w.ref
  BY Zenon DEF Separated
<1>2. TopOf(v) = TopOf(w)
  BY Zenon, <1>1 DEF TopOf
<1>3. Placed(w)
  BY Zenon DEF Tree
<1>4. CASE w.expect = "separator" /\ c = "comma"
  <2>1. v.key = 0 /\ w.key = 0 /\ w.stack # <<>>
          /\ v.expect = IF w.ref[TopOf(w)].type = "ARRAY" THEN "value" ELSE "key"
    BY <1>4 DEF Separated, Shape
  <2>2. w.ref[TopOf(w)].type \in {"OBJECT", "ARRAY"}
    BY ZenonT(30), <2>1, InnermostOpen
  <2>3. Placed(v)
    BY Zenon, <1>1, <1>2, <2>1, <2>2 DEF Placed
  <2> QED
    BY Zenon, <1>1, <2>1, <2>3, TreeKept
<1>5. CASE w.expect = "colon" /\ c = "colon"
  <2>1. v.expect = "value" /\ v.key = w.key /\ w.stack # <<>> /\ w.key = Len(w.ref)
    BY <1>5 DEF Separated, Shape
  <2>2. w.key # 0
    <3>1. TopOf(w) \in 1 .. Len(w.ref)
      BY Zenon, <2>1, InnermostOpen DEF OpenIn
    <3>2. w.ref \in Seq(Token)
      BY Zenon DEF Shape
    <3> QED
      BY <2>1, <3>1, <3>2
  <2>3. w.ref[TopOf(w)].type = "OBJECT"
    BY SMTT(30), <1>3, <1>5, <2>1 DEF Placed
  <2>4. Placed(v)
    BY <1>1, <1>2, <2>1, <2>2, <2>3 DEF Placed
  <2> QED
    BY Zenon, <1>1, <2>1, <2>4, TreeKept
<1>6. CASE c = "blank"
  <2>1. v.expect = w.expect /\ v.key = w.key
    BY <1>6 DEF Separated
  <2>2. Placed(v)
    BY Zenon, <1>1, <1>2, <1>3, <2>1 DEF Placed
  <2> QED
    BY Zenon, <1>1, <2>1, <2>2, TreeKept
<1> QED
  BY Zenon, <1>4, <1>5, <1>6 DEF Separated

(* Nor do the characters of strings and primitives, or the damage. *)
LEMMA KeptTree ==
  ASSUME NEW w, Shape(w), Tree(w), NEW n, NEW c, NEW v, NEW first,
         Quoted(w, n, c, v) \/ Spelled(w, c, v) \/ Damaged(w, c, v)
           \/ (Started(w, first, v) /\ w.expect \in {"value", "item", "primitive"})
  PROVE  Tree(v)
<1>1. v.stack = w.stack /\ v.ref = w.ref /\ v.key = w.key
  BY Zenon DEF Quoted, Spelled, Damaged, Started, Keeps
<1>2. TopOf(v) = TopOf(w)
  BY Zenon, <1>1 DEF TopOf
<1>3. Placed(w)
  BY Zenon DEF Tree
<1>4. \/ v.expect = w.expect \/ v.expect = "damaged"
      \/ w.expect \in {"member", "key"} /\ v.expect = "keystring"
      \/ w.expect \in {"value", "item", "primitive"} /\ v.expect \in {"string", "primitive"}
  BY Zenon DEF Quoted, Spelled, Damaged, Started
<1>5. Placed(v)
  <2>1. CASE v.expect = w.expect
    BY ZenonT(30), <1>1, <1>2, <1>3, <2>1 DEF Placed
  <2>2. CASE v.expect = "damaged"
    BY Zenon, <2>2 DEF Placed
  <2>3. CASE w.expect \in {"member", "key"} /\ v.expect = "keystring"
    BY ZenonT(30), <1>1, <1>2, <1>3, <2>3 DEF Placed
  <2>4. CASE w.expect \in {"value", "item", "primitive"} /\ v.expect \in {"string", "primitive"}
    BY Zenon, <1>1, <1>2, <1>3, <2>4 DEF Placed
  <2> QED
    BY <1>4, <2>1, <2>2, <2>3, <2>4
<1> QED
  BY Zenon, <1>1, <1>5, TreeKept

(* A primitive that ends is one item. *)
LEMMA EndedTree ==
  ASSUME NEW w, Shape(w), Tree(w), w.expect \in {"value", "item", "primitive"},
         NEW first \in Nat, NEW n \in Nat, NEW v, Ended(w, first, n, v)
  PROVE  Tree(v)
<1>1. w.expect \in {"value", "item", "string", "primitive"} /\ "PRIMITIVE" \in LeafTypes
  BY LeafTypesHave
<1> QED
  BY Zenon, <1>1, LeafPlaced DEF Ended

(* Every character keeps the tokens balanced. *)
LEMMA TreeGrows ==
  ASSUME NEW w, Shape(w), Tree(w), NEW n \in Nat, NEW c, NEW v, Wrote(w, n, c, v)
  PROVE  Tree(v)
<1>1. n + 1 \in Nat /\ w.from \in Nat
  BY Zenon, NextNat DEF Shape
<1>2. CASE Opened(w, n, c, v) \/ Closed(w, n, c, v) \/ Separated(w, c, v)
  BY Zenon, <1>2, OpenedTree, ClosedTree, SeparatedTree
<1>3. CASE Quoted(w, n, c, v) \/ Spelled(w, c, v) \/ Damaged(w, c, v)
  BY Zenon, <1>3, KeptTree
<1>4. CASE Unquoted(w, n, c, v)
  <2>1. /\ v.stack = w.stack /\ "STRING" \in LeafTypes
        /\ v.ref = Added(w.ref, ParentOf(w), NewToken("STRING", w.from, n))
    BY ZenonT(30), <1>4, LeafTypesHave DEF Unquoted
  <2>2. \/ /\ w.expect \in {"value", "item", "string", "primitive"}
           /\ v.expect = After(w.stack) /\ v.key = 0
        \/ w.expect = "keystring" /\ v.expect = "colon" /\ v.key = Len(w.ref) + 1
    BY Zenon, <1>4 DEF Unquoted, Within
  <2> QED
    BY Zenon, <1>1, <2>1, <2>2, LeafPlaced
<1>5. CASE Primitive(w, n, c, v)
  <2>1. w.expect \in {"value", "item", "primitive"}
    BY <1>5 DEF Primitive
  <2>2. \E first \in Nat : Started(w, first, v) \/ Ended(w, first, n + 1, v)
    BY Zenon, <1>1, <1>5 DEF Primitive
  <2> QED
    BY Zenon, <1>1, <2>1, <2>2, KeptTree, EndedTree
<1> QED
  BY Zenon, <1>2, <1>3, <1>4, <1>5 DEF Wrote

-----------------------------------------------------------------------------
(* What dump() prints *)

Row(toks, t, d) == [c \in Int |-> [k \in Nat |-> Visits(toks, t, d, c, k)]]

Rows(toks, d) == d = [t \in Nat \ {0} |-> Row(toks, t, d)]

(* Their value *)
LEMMA RowValue ==
  ASSUME NEW toks, NEW d, Rows(toks, d), NEW t \in Nat \ {0}, NEW c \in Int, NEW k \in Nat
  PROVE  d[t][c][k] = Visits(toks, t, d, c, k)
<1>1. d[t] = Row(toks, t, d)
  BY Zenon DEF Rows
<1>2. Row(toks, t, d)[c] = [n \in Nat |-> Visits(toks, t, d, c, n)]
  BY Zenon DEF Row
<1>3. [n \in Nat |-> Visits(toks, t, d, c, n)][k] = Visits(toks, t, d, c, k)
  BY Zenon
<1> QED
  BY Zenon, <1>1, <1>2, <1>3

(* If the equations of dump() have a solution, its value is taken from     *)
(* one.                                                                    *)
LEMMA DumpRows ==
  ASSUME NEW toks, \E d : Rows(toks, d)
  PROVE  \E d : Rows(toks, d) /\ dump(toks) = d[1][Len(toks)][1]
<1> DEFINE d == CHOOSE d : d = [t \in Nat \ {0} |-> Row(toks, t, d)]
<1>1. dump(toks) = d[1][Len(toks)][1]
  BY Zenon DEF dump, Row
<1>2. Rows(toks, d)
  BY Zenon DEF Rows
<1> QED
  BY Zenon, <1>1, <1>2

(* What is printed from token t on depends only on the tokens behind t, *)
Ready(toks, t, d) ==
  t <= Len(toks) => \A u \in Nat : u > t => \A c \in Int, k \in Nat : d[u][c][k] \in Seq(Nat)

Agrees(toks, t, e, d) == t <= Len(toks) => \A u \in Nat : u > t => e[u] = d[u]

SameVisits(toks, t, e, d, c, k) ==
  /\ Visits(toks, t, d, c, k) \in Seq(Nat)
  /\ Visits(toks, t, e, c, k) = Visits(toks, t, d, c, k)

(* No visit, and one beyond the tokens *)
LEMMA NoRun == <<>> \in Seq(Nat) /\ <<0>> \in Seq(Nat)
OBVIOUS

(* The visits at a token depend only on those at the tokens behind it. *)
LEMMA VisitsTyped ==
  ASSUME NEW toks \in Seq(Token), NEW t \in Nat \ {0}, NEW d, Ready(toks, t, d),
         NEW e, Agrees(toks, t, e, d),
         NEW c \in Int, NEW k \in Nat
  PROVE  SameVisits(toks, t, e, d, c, k)
<1> DEFINE done == k = 0 \/ c = 0
           over == t > Len(toks)
<1>1. CASE done
  <2>1. Visits(toks, t, d, c, k) = <<>> /\ Visits(toks, t, e, c, k) = <<>>
    BY Zenon, <1>1 DEF Visits
  <2> QED
    BY Zenon, <2>1, NoRun DEF SameVisits
<1>2. CASE ~done /\ over
  <2>1. Visits(toks, t, d, c, k) = <<0>> /\ Visits(toks, t, e, c, k) = <<0>>
    BY Zenon, <1>2 DEF Visits
  <2> QED
    BY Zenon, <2>1, NoRun DEF SameVisits
<1>3. CASE ~done /\ ~over
  <2>1. /\ t \in Nat /\ t <= Len(toks) /\ t + 1 \in Nat /\ t + 1 > t /\ k - 1 \in Nat
        /\ toks[t] \in Token
    BY <1>3
  <2>2. Items(toks[t]) \in Nat
    BY Zenon, <2>1, ItemsNat
  <2> DEFINE down == d[t + 1][c][Items(toks[t])]
             first == <<t>> \o down
             next == d[t + Len(first)][c - Len(first)][k - 1]
  <2>3. down \in Seq(Nat)
    BY Zenon, <2>1, <2>2 DEF Ready
  <2> HIDE DEF down
  <2>4. first \in Seq(Nat) /\ t + Len(first) \in Nat /\ t + Len(first) > t /\ c - Len(first) \in Int
    BY <2>1, <2>3
  <2> HIDE DEF first
  <2>5. next \in Seq(Nat)
    BY Zenon, <2>1, <2>4 DEF Ready
  <2>6. Visits(toks, t, d, c, k) = first \o next
    BY Zenon, <1>3 DEF Visits, first, down
  <2>7. e[t + 1] = d[t + 1] /\ e[t + Len(first)] = d[t + Len(first)]
    BY Zenon, <2>1, <2>4 DEF Agrees
  <2>8. Visits(toks, t, e, c, k) = first \o next
    BY Zenon, <1>3, <2>7 DEF Visits, first, down
  <2> HIDE DEF next
  <2>9. first \o next \in Seq(Nat)
    BY <2>4, <2>5
  <2> QED
    BY Zenon, <2>6, <2>8, <2>9 DEF SameVisits
<1> HIDE DEF done, over
<1> QED
  BY Zenon, <1>1, <1>2, <1>3

(* So does the whole row of a token. *)
LEMMA SameRow ==
  ASSUME NEW toks \in Seq(Token), NEW t \in Nat \ {0}, NEW d, Ready(toks, t, d),
         NEW e, Agrees(toks, t, e, d)
  PROVE  Row(toks, t, e) = Row(toks, t, d)
           /\ \A c \in Int, k \in Nat : Row(toks, t, d)[c][k] \in Seq(Nat)
<1>1. \A c \in Int, k \in Nat : SameVisits(toks, t, e, d, c, k)
  BY Zenon, VisitsTyped
<1>2. \A c \in Int : [k \in Nat |-> Visits(toks, t, e, c, k)] = [k \in Nat |-> Visits(toks, t, d, c, k)]
  BY <1>1 DEF SameVisits
<1>3. Row(toks, t, e) = Row(toks, t, d)
  BY <1>2 DEF Row
<1>4. \A c \in Int, k \in Nat : Row(toks, t, d)[c][k] = Visits(toks, t, d, c, k)
  BY DEF Row
<1> QED
  BY Zenon, <1>1, <1>3, <1>4 DEF SameVisits

(* so it can be computed from the last token to the first. *)
Computed(toks, m, d) ==
  /\ d = [t \in Nat \ {0} |-> d[t]]
  /\ \A t \in Nat \ {0} : t >= m =>
       d[t] = Row(toks, t, d) /\ \A c \in Int, k \in Nat : d[t][c][k] \in Seq(Nat)

(* Behind the last token nothing depends on other rows. *)
LEMMA ComputedBehind ==
  ASSUME NEW toks \in Seq(Token)
  PROVE  \E d : Computed(toks, Len(toks) + 1, d)
<1> DEFINE d == [t \in Nat \ {0} |-> Row(toks, t, <<>>)]
<1>1. ASSUME NEW t \in Nat \ {0}, t >= Len(toks) + 1
      PROVE  d[t] = Row(toks, t, d) /\ \A c \in Int, k \in Nat : d[t][c][k] \in Seq(Nat)
  <2>1. ~(t <= Len(toks))
    BY <1>1
  <2>2. d[t] = Row(toks, t, <<>>)
    BY Zenon
  <2>3. Ready(toks, t, <<>>) /\ Agrees(toks, t, d, <<>>)
    BY Zenon, <2>1 DEF Ready, Agrees
  <2> HIDE DEF d
  <2>4. Row(toks, t, d) = Row(toks, t, <<>>)
          /\ \A c \in Int, k \in Nat : Row(toks, t, <<>>)[c][k] \in Seq(Nat)
    BY Zenon, <2>3, SameRow
  <2> QED
    BY Zenon, <2>2, <2>4
<1>2. d = [t \in Nat \ {0} |-> d[t]]
  BY Zenon
<1> HIDE DEF d
<1>3. Computed(toks, Len(toks) + 1, d)
  BY Zenon, <1>1, <1>2 DEF Computed
<1> QED
  BY Zenon, <1>3

(* The row of one token more can be computed from the rows behind it. *)
LEMMA ComputedNext ==
  ASSUME NEW toks \in Seq(Token), NEW m \in 1 .. Len(toks), NEW d, Computed(toks, m + 1, d)
  PROVE  \E e : Computed(toks, m, e)
<1> DEFINE e == [d EXCEPT ![m] = Row(toks, m, d)]
<1>1. d = [t \in Nat \ {0} |-> d[t]]
  BY Zenon DEF Computed
<1>2. e[m] = Row(toks, m, d) /\ (\A t \in Nat \ {0} : t # m => e[t] = d[t])
        /\ e = [t \in Nat \ {0} |-> e[t]]
  BY <1>1
<1> HIDE DEF e
<1>3. ASSUME NEW t \in Nat \ {0}, t >= m
      PROVE  Ready(toks, t, d) /\ Agrees(toks, t, e, d)
  <2>1. \A u \in Nat : u > t => u \in Nat \ {0} /\ u >= m + 1 /\ u # m
    BY <1>3
  <2> QED
    BY Zenon, <1>2, <2>1 DEF Ready, Agrees, Computed
<1>4. ASSUME NEW t \in Nat \ {0}, t >= m
      PROVE  e[t] = Row(toks, t, e) /\ \A c \in Int, k \in Nat : e[t][c][k] \in Seq(Nat)
  <2>1. Row(toks, t, e) = Row(toks, t, d)
          /\ \A c \in Int, k \in Nat : Row(toks, t, d)[c][k] \in Seq(Nat)
    BY Zenon, <1>3, <1>4, SameRow
  <2>2. e[t] = Row(toks, t, d)
    <3>1. CASE t = m
      BY Zenon, <1>2, <3>1
    <3>2. CASE t # m
      <4>1. t >= m + 1
        BY <1>4, <3>2
      <4> QED
        BY Zenon, <1>2, <3>2, <4>1 DEF Computed
    <3> QED
      BY <3>1, <3>2
  <2> QED
    BY Zenon, <2>1, <2>2
<1>5. Computed(toks, m, e)
  BY Zenon, <1>2, <1>4 DEF Computed
<1> QED
  BY Zenon, <1>5

(* The equations of dump() have a solution. *)
LEMMA RowsExist ==
  ASSUME NEW toks \in Seq(Token)
  PROVE  \E d : Rows(toks, d)
<1> DEFINE N == Len(toks)
           T == {n \in 0 .. N : ~\E d : Computed(toks, N + 1 - n, d)}
<1>1. N \in Nat
  OBVIOUS
<1>2. T = {}
  <2> SUFFICES ASSUME T # {} PROVE FALSE
    OBVIOUS
  <2>1. T \in SUBSET Nat
    OBVIOUS
  <2>2. PICK x \in T : \A y \in T : x <= y
    BY Zenon, <2>1, MinExists
  <2>3. x \in 0 .. N /\ ~\E d : Computed(toks, N + 1 - x, d)
    BY <2>2
  <2>4. x # 0
    <3>1. x = 0 => N + 1 - x = N + 1
      BY <1>1
    <3> QED
      BY Zenon, <2>3, <3>1, ComputedBehind
  <2>5. x - 1 \in 0 .. N /\ ~(x <= x - 1) /\ N + 1 - (x - 1) = (N + 1 - x) + 1
          /\ N + 1 - x \in 1 .. N
    BY <1>1, <2>3, <2>4
  <2>6. PICK d : Computed(toks, N + 1 - (x - 1), d)
    BY Zenon, <2>2, <2>5
  <2>7. Computed(toks, (N + 1 - x) + 1, d)
    BY Zenon, <2>5, <2>6
  <2> QED
    BY Zenon, <2>3, <2>5, <2>7, ComputedNext
<1>3. N \in 0 .. N /\ N + 1 - N = 1
  BY <1>1
<1>4. PICK d : Computed(toks, 1, d)
  BY Zenon, <1>2, <1>3
<1>5. \A t \in Nat \ {0} : t >= 1
  OBVIOUS
<1>6. \A t \in Nat \ {0} : d[t] = Row(toks, t, d)
  BY Zenon, <1>4, <1>5 DEF Computed
<1>7. d = [t \in Nat \ {0} |-> d[t]]
  BY Zenon, <1>4 DEF Computed
<1>8. d = [t \in Nat \ {0} |-> Row(toks, t, d)]
  BY Zenon, <1>6, <1>7
<1> QED
  BY Zenon, <1>8 DEF Rows

(* the tokens from t to e - 1 *)
Run(t, e) == [i \in 1 .. e - t |-> t + i - 1]

(* The values of a run *)
LEMMA RunValues ==
  ASSUME NEW t \in Nat, NEW e \in Nat, t <= e
  PROVE  /\ Run(t, e) \in Seq(Nat) /\ Len(Run(t, e)) = e - t
         /\ \A i \in 1 .. e - t : Run(t, e)[i] = t + i - 1
BY DEF Run

(* Two sequences with the same elements are the same. *)
LEMMA SameSequence ==
  ASSUME NEW s \in Seq(Nat), NEW u \in Seq(Nat), Len(s) = Len(u),
         \A i \in 1 .. Len(s) : s[i] = u[i]
  PROVE  s = u
OBVIOUS

(* The length of two sequences, one behind the other *)
LEMMA ConcatTyped ==
  ASSUME NEW s \in Seq(Nat), NEW u \in Seq(Nat)
  PROVE  s \o u \in Seq(Nat) /\ Len(s \o u) = Len(s) + Len(u)
OBVIOUS

(* Two adjacent runs are one run. *)
LEMMA JoinedRuns ==
  ASSUME NEW t \in Nat, NEW f \in Nat, NEW e \in Nat, t <= f, f <= e
  PROVE  Run(t, f) \o Run(f, e) = Run(t, e)
<1> DEFINE s == Run(t, f)
           u == Run(f, e)
           w == Run(t, e)
<1>1. /\ s \in Seq(Nat) /\ Len(s) = f - t
      /\ \A i \in 1 .. f - t : s[i] = t + i - 1
  BY Zenon, RunValues
<1>2. /\ u \in Seq(Nat) /\ Len(u) = e - f
      /\ \A i \in 1 .. e - f : u[i] = f + i - 1
  BY Zenon, RunValues
<1>3. t <= e
  OBVIOUS
<1>4. /\ w \in Seq(Nat) /\ Len(w) = e - t
      /\ \A i \in 1 .. e - t : w[i] = t + i - 1
  BY Zenon, <1>3, RunValues
<1> HIDE DEF s, u, w
<1>5. s \o u \in Seq(Nat) /\ Len(s \o u) = e - t
  <2>1. s \o u \in Seq(Nat) /\ Len(s \o u) = Len(s) + Len(u)
    BY Zenon, <1>1, <1>2, ConcatTyped
  <2>2. f - t + (e - f) = e - t
    OBVIOUS
  <2> QED
    BY Zenon, <1>1, <1>2, <2>1, <2>2
<1>6. ASSUME NEW i \in 1 .. e - t PROVE (s \o u)[i] = t + i - 1
  <2>1. CASE i <= f - t
    <3>1. i \in 1 .. f - t
      BY <2>1
    <3>2. (s \o u)[i] = s[i]
      BY <1>1, <1>2, <3>1
    <3> QED
      BY Zenon, <1>1, <3>1, <3>2
  <2>2. CASE i > f - t
    <3>1. i - (f - t) \in 1 .. e - f /\ f + (i - (f - t)) - 1 = t + i - 1
      BY <2>2
    <3>2. (s \o u)[i] = u[i - (f - t)]
      BY SMTT(30), <1>1, <1>2, <2>2
    <3> QED
      BY Zenon, <1>2, <3>1, <3>2
  <2>3. i <= f - t \/ i > f - t
    OBVIOUS
  <2> QED
    BY Zenon, <2>1, <2>2, <2>3
<1>7. s \o u = w
  BY Zenon, <1>4, <1>5, <1>6, SameSequence
<1> QED
  BY Zenon, <1>7 DEF s, u, w

(* A token, the run of its items, and the run of what is behind them *)
LEMMA RunParts ==
  ASSUME NEW t \in Nat, NEW f \in Nat, NEW e \in Nat, t < f, f <= e
  PROVE  /\ <<t>> \o Run(t + 1, f) = Run(t, f) /\ Len(Run(t, f)) = f - t
         /\ Run(t, f) \o Run(f, e) = Run(t, e)
<1>1. t + 1 \in Nat /\ t <= t + 1 /\ t + 1 <= f /\ t <= f
  OBVIOUS
<1>2. Run(t, t + 1) \o Run(t + 1, f) = Run(t, f)
  BY Zenon, <1>1, JoinedRuns
<1>3. Run(t, t + 1) = <<t>>
  BY DEF Run
<1>4. Run(t, f) \o Run(f, e) = Run(t, e)
  BY Zenon, <1>1, JoinedRuns
<1>5. Len(Run(t, f)) = f - t
  BY Zenon, <1>1, RunValues
<1> QED
  BY Zenon, <1>2, <1>3, <1>4, <1>5

(* The k items from token t on end before token e. *)
Upto(P, t, k, e) ==
  /\ t <= e /\ P[e - 1] = P[t - 1] - k
  /\ \A m \in t .. e - 1 : P[m - 1] > P[t - 1] - k

Prints(toks, P, d, t) ==
  \A k \in Nat, c \in Int, e \in 1 .. Len(toks) + 1 :
    Upto(P, t, k, e) /\ c >= e - t => d[t][c][k] = Run(t, e)

(* The first of k items, with its own items, ends before one of the tokens *)
(* behind it.                                                              *)
LEMMA FirstItem ==
  ASSUME NEW toks \in Seq(Token), NEW P, Balance(toks, P, 0), NEW t \in 1 .. Len(toks),
         NEW k \in Nat, k # 0, NEW e \in t + 1 .. Len(toks) + 1, Upto(P, t, k, e)
  PROVE  \E f \in t + 1 .. e : Upto(P, t + 1, Items(toks[t]), f) /\ Upto(P, f, k - 1, e)
<1> DEFINE N == Len(toks)
           a == P[t - 1]
           F == {f \in t + 1 .. e : P[f - 1] < a}
<1>1. /\ N \in Nat /\ P \in [0 .. N -> Nat] /\ t \in Nat /\ e \in Nat
      /\ \A m \in 1 .. N : P[m] = P[m - 1] + Items(toks[m]) - 1
  BY DEF Balance
<1>2. \A m \in 1 .. N : Items(toks[m]) \in Nat
  <2>1. \A m \in 1 .. N : toks[m] \in Token
    OBVIOUS
  <2> QED
    BY Zenon, <2>1, ItemsNat
<1>3. P[e - 1] = a - k /\ \A m \in t .. e - 1 : P[m - 1] > a - k
  BY Zenon DEF Upto
<1>4. t \in 1 .. N /\ e \in t + 1 .. N + 1
  OBVIOUS
<1>5. a \in Nat
  BY <1>1, <1>4
<1> HIDE DEF N, a
<1>6. e \in F
  BY <1>3, <1>4, <1>5, <1>1
<1>7. F \in SUBSET Nat /\ F # {}
  <2>1. \A f \in t + 1 .. e : f \in Nat
    BY <1>1
  <2> QED
    BY Zenon, <1>6, <2>1
<1> HIDE DEF F
<1>8. PICK f \in F : \A g \in F : f <= g
  BY Zenon, <1>7, MinExists
<1>9. f \in t + 1 .. e /\ P[f - 1] < a /\ f \in Nat
  BY <1>1, <1>8 DEF F
<1>10. ASSUME NEW m \in t .. f - 1 PROVE P[m - 1] >= a
  <2>1. CASE m = t
    BY <1>5, <2>1 DEF a
  <2>2. CASE m # t
    <3>1. m \in t + 1 .. e /\ ~(f <= m) /\ m - 1 \in 0 .. N
      BY <1>1, <1>4, <1>9, <2>2
    <3>2. ~(P[m - 1] < a)
      BY Zenon, <1>8, <3>1 DEF F
    <3>3. P[m - 1] \in Nat
      BY <1>1, <3>1
    <3> QED
      BY <1>5, <3>2, <3>3
  <2> QED
    BY <2>1, <2>2
<1>11. P[f - 1] = a - 1
  <2>1. f - 1 \in 1 .. N /\ f - 1 \in t .. f - 1 /\ f - 1 - 1 \in 0 .. N
    BY <1>1, <1>4, <1>9
  <2>2. P[f - 1] = P[f - 1 - 1] + Items(toks[f - 1]) - 1 /\ Items(toks[f - 1]) \in Nat
    BY Zenon, <1>1, <1>2, <2>1
  <2>3. P[f - 1 - 1] >= a
    BY Zenon, <1>10, <2>1
  <2>4. P[f - 1 - 1] \in Nat /\ P[f - 1] \in Nat
    BY <1>1, <2>1
  <2> DEFINE x == P[f - 1 - 1]
             y == P[f - 1]
             z == Items(toks[f - 1])
  <2>5. x \in Nat /\ y \in Nat /\ z \in Nat /\ y = x + z - 1 /\ x >= a /\ y < a
    BY Zenon, <1>9, <2>2, <2>3, <2>4
  <2> HIDE DEF x, y, z
  <2>6. y = a - 1
    BY <1>5, <2>5
  <2> QED
    BY Zenon, <2>6 DEF y
<1>12. Upto(P, t + 1, Items(toks[t]), f)
  <2>1. t + 1 - 1 = t /\ t + 1 <= f
    BY <1>1, <1>9
  <2>2. P[t] - Items(toks[t]) = a - 1
    <3>1. P[t] = a + Items(toks[t]) - 1 /\ Items(toks[t]) \in Nat
      BY Zenon, <1>1, <1>2, <1>4 DEF a
    <3> QED
      BY <1>5, <3>1
  <2>3. ASSUME NEW m \in t + 1 .. f - 1 PROVE P[m - 1] > a - 1
    <3>1. m \in t .. f - 1 /\ m - 1 \in 0 .. N
      BY <1>1, <1>4, <1>9
    <3>2. P[m - 1] \in Nat
      BY <1>1, <3>1
    <3>3. P[m - 1] >= a
      BY Zenon, <1>10, <3>1
    <3> QED
      BY <1>5, <3>2, <3>3
  <2> QED
    <3>1. P[f - 1] = P[t + 1 - 1] - Items(toks[t])
      BY Zenon, <1>11, <2>1, <2>2
    <3>2. \A m \in t + 1 .. f - 1 : P[m - 1] > P[t + 1 - 1] - Items(toks[t])
      BY Zenon, <2>1, <2>2, <2>3
    <3> QED
      BY <2>1, <3>1, <3>2 DEF Upto
<1>13. Upto(P, f, k - 1, e)
  <2>1. P[f - 1] - (k - 1) = a - k
    BY <1>5, <1>11
  <2>2. f <= e /\ \A m \in f .. e - 1 : m \in t .. e - 1
    BY SMTT(30), <1>1, <1>9
  <2> QED
    BY Zenon, <1>3, <2>1, <2>2 DEF Upto
<1> QED
  BY Zenon, <1>9, <1>12, <1>13

(* What dump() prints at a token, if it prints runs at the tokens behind   *)
(* it                                                                      *)
LEMMA PrintsNext ==
  ASSUME NEW toks \in Seq(Token), NEW P, Balance(toks, P, 0), NEW d, Rows(toks, d),
         NEW t \in 1 .. Len(toks) + 1, \A u \in t + 1 .. Len(toks) + 1 : Prints(toks, P, d, u)
  PROVE  Prints(toks, P, d, t)
<1> DEFINE N == Len(toks)
<1>1. N \in Nat /\ P \in [0 .. N -> Nat] /\ t \in Nat \ {0}
  BY DEF Balance
<1> SUFFICES ASSUME NEW k \in Nat, NEW c \in Int, NEW e \in 1 .. N + 1, Upto(P, t, k, e), c >= e - t
             PROVE  d[t][c][k] = Run(t, e)
  BY Zenon DEF Prints
<1>2. d[t][c][k] = Visits(toks, t, d, c, k)
  BY Zenon, <1>1, RowValue
<1>3. t <= e /\ P[e - 1] = P[t - 1] - k /\ \A m \in t .. e - 1 : P[m - 1] > P[t - 1] - k
  BY Zenon DEF Upto
<1>4. P[t - 1] \in Nat
  BY <1>1
<1>5. CASE k = 0
  <2>1. e = t
    <3>1. t \in t .. e - 1 => P[t - 1] > P[t - 1] - k
      BY Zenon, <1>3
    <3> QED
      BY <1>1, <1>3, <1>4, <1>5, <3>1
  <2>2. Run(t, e) = <<>>
    BY <1>1, <2>1 DEF Run
  <2>3. Visits(toks, t, d, c, k) = <<>>
    BY Zenon, <1>5 DEF Visits
  <2> QED
    BY Zenon, <1>2, <2>2, <2>3
<1>6. CASE k # 0
  <2>1. e # t
    BY <1>3, <1>4, <1>6
  <2>2. t \in 1 .. N /\ e \in t + 1 .. N + 1 /\ c # 0 /\ ~(t > N) /\ t + 1 \in t + 1 .. N + 1
          /\ k - 1 \in Nat /\ e \in Nat
    BY <1>1, <1>3, <1>6, <2>1
  <2>3. PICK f \in t + 1 .. e : Upto(P, t + 1, Items(toks[t]), f) /\ Upto(P, f, k - 1, e)
    BY Zenon, <1>6, <2>2, FirstItem
  <2>4. Items(toks[t]) \in Nat
    <3>1. toks[t] \in Token
      BY <2>2
    <3> QED
      BY Zenon, <3>1, ItemsNat
  <2>5. f \in 1 .. N + 1 /\ f \in t + 1 .. N + 1 /\ f \in Nat /\ t < f /\ f <= e
          /\ c >= f - (t + 1) /\ c - (f - t) \in Int /\ c - (f - t) >= e - f /\ t + (f - t) = f
    BY <1>1, <2>2
  <2>6. d[t + 1][c][Items(toks[t])] = Run(t + 1, f)
    BY Zenon, <2>2, <2>3, <2>4, <2>5 DEF Prints
  <2>7. d[f][c - (f - t)][k - 1] = Run(f, e)
    <3>1. Prints(toks, P, d, f)
      BY Zenon, <2>5
    <3>2. Upto(P, f, k - 1, e) /\ c - (f - t) >= e - f /\ c - (f - t) \in Int /\ k - 1 \in Nat
      BY Zenon, <2>2, <2>3, <2>5
    <3> QED
      BY Zenon, <3>1, <3>2 DEF Prints
  <2>8. /\ <<t>> \o Run(t + 1, f) = Run(t, f) /\ Len(Run(t, f)) = f - t
        /\ Run(t, f) \o Run(f, e) = Run(t, e)
    BY Zenon, <1>1, <2>2, <2>5, RunParts
  <2>9. Visits(toks, t, d, c, k) = Run(t, f) \o d[t + (f - t)][c - (f - t)][k - 1]
    BY Zenon, <1>6, <2>2, <2>6, <2>8 DEF Visits
  <2> QED
    BY Zenon, <1>2, <2>5, <2>7, <2>8, <2>9
<1> QED
  BY <1>5, <1>6

(* All tokens of a whole text are printed, once and in order. *)
LEMMA DumpsAll ==
  ASSUME NEW toks \in Seq(Token), Balanced(toks, 0)
  PROVE  dump(toks) = [i \in 1 .. Len(toks) |-> i]
<1>1. PICK P : Balance(toks, P, 0)
  BY Zenon DEF Balanced
<1>2. PICK d : Rows(toks, d) /\ dump(toks) = d[1][Len(toks)][1]
  BY Zenon, RowsExist, DumpRows
<1> DEFINE N == Len(toks)
           T == {n \in 0 .. N : ~Prints(toks, P, d, N + 1 - n)}
<1>3. N \in Nat
  OBVIOUS
<1>4. T = {}
  <2> SUFFICES ASSUME T # {} PROVE FALSE
    OBVIOUS
  <2>1. T \in SUBSET Nat
    OBVIOUS
  <2>2. PICK x \in T : \A y \in T : x <= y
    BY Zenon, <2>1, MinExists
  <2>3. x \in 0 .. N /\ ~Prints(toks, P, d, N + 1 - x) /\ N + 1 - x \in 1 .. N + 1
    BY <1>3, <2>2
  <2>4. ASSUME NEW u \in N + 1 - x + 1 .. N + 1 PROVE Prints(toks, P, d, u)
    <3>1. N + 1 - u \in 0 .. N /\ ~(x <= N + 1 - u) /\ N + 1 - (N + 1 - u) = u
      BY <1>3, <2>3
    <3>2. Prints(toks, P, d, N + 1 - (N + 1 - u))
      BY Zenon, <2>2, <3>1
    <3> QED
      BY Zenon, <3>1, <3>2
  <2> QED
    BY Zenon, <1>1, <1>2, <2>3, <2>4, PrintsNext
<1>5. Prints(toks, P, d, 1)
  <2>1. N \in 0 .. N /\ N + 1 - N = 1
    BY <1>3
  <2> QED
    BY Zenon, <1>4, <2>1
<1>6. Upto(P, 1, 1, N + 1)
  <2>1. 1 - 1 = 0 /\ N + 1 - 1 = N /\ 1 <= N + 1 /\ 1 - 1 = 0
          /\ \A m \in 1 .. N : m - 1 \in 0 .. N - 1
    BY <1>3
  <2>2. P[0] = 1 /\ P[N] = 0 /\ \A m \in 0 .. N - 1 : P[m] >= 1 /\ P[m] \in Nat
    BY <1>1, <1>3 DEF Balance
  <2>3. \A m \in 1 .. N : P[m - 1] > 0
    BY <2>1, <2>2
  <2> QED
    <3>1. P[N + 1 - 1] = P[1 - 1] - 1
      BY <2>1, <2>2
    <3>2. \A m \in 1 .. N + 1 - 1 : P[m - 1] > P[1 - 1] - 1
      BY <2>1, <2>2, <2>3
    <3> QED
      BY <2>1, <3>1, <3>2 DEF Upto
<1>7. 1 \in Nat /\ N \in Int /\ N + 1 \in 1 .. N + 1 /\ N >= N + 1 - 1
  BY <1>3
<1>8. d[1][N][1] = Run(1, N + 1)
  BY <1>5, <1>6, <1>7 DEF Prints
<1>9. Run(1, N + 1) = [i \in 1 .. N |-> i]
  BY <1>3 DEF Run
<1> QED
  BY Zenon, <1>2, <1>8, <1>9

-----------------------------------------------------------------------------
(* What the programs print *)

(* The text written so far is part of a tree, and there is a document at   *)
(* its end.                                                                *)
DocInv == Tree(Now) /\ (expect = "end" => ref # <<>>)

(* At the end of the text there is a token. *)
LEMMA NotEmpty ==
  ASSUME NEW w, Shape(w), NEW n \in Nat, NEW v,
         \/ \E c : Wrote(w, n, c, v)
         \/ w.expect = "primitive" /\ Ended(w, w.from, n, v),
         w.expect = "end" => w.ref # <<>>, v.expect = "end"
  PROVE  v.ref # <<>>
<1>1. w.ref \in Seq(Token) /\ w.from \in Nat /\ n + 1 \in Nat
  BY Zenon, NextNat DEF Shape
<1>2. ASSUME NEW first, NEW last, NEW type, AddsLeaf(w, type, first, last, v)
      PROVE  v.ref # <<>>
  <2>1. Len(v.ref) = Len(w.ref) + 1 /\ Len(w.ref) \in Nat
    BY Zenon, <1>2, LeafAdded
  <2> QED
    BY <2>1
<1>3. "PRIMITIVE" \in LeafTypes /\ "STRING" \in LeafTypes
  BY Zenon, LeafTypesHave
<1>4. ASSUME NEW first \in Nat, NEW last \in Nat, Ended(w, first, last, v)
      PROVE  v.ref # <<>>
  BY Zenon, <1>2, <1>3, <1>4 DEF Ended, AddsLeaf
<1>5. ASSUME NEW c, Wrote(w, n, c, v) PROVE v.ref # <<>>
  <2>1. CASE Closed(w, n, c, v)
    <3>1. w.stack # <<>> /\ v.ref = [w.ref EXCEPT ![TopOf(w)].end = n + 1]
      BY <2>1 DEF Closed, Shape
    <3>2. TopOf(w) \in OpenIn(w.ref)
      BY Zenon, <3>1, InnermostOpen
    <3>3. DOMAIN v.ref = DOMAIN w.ref /\ TopOf(w) \in 1 .. Len(w.ref)
      BY <3>1, <3>2 DEF OpenIn
    <3> QED
      BY <1>1, <3>3
  <2>2. CASE Separated(w, c, v)
    <3>1. v.ref = w.ref /\ w.expect = "end"
      BY <2>2 DEF Separated
    <3> QED
      BY Zenon, <3>1
  <2>3. CASE Unquoted(w, n, c, v)
    BY Zenon, <1>1, <1>2, <1>3, <2>3 DEF Unquoted, AddsLeaf
  <2>4. CASE Primitive(w, n, c, v)
    <3>1. ~Started(w, n, v) /\ ~Started(w, w.from, v)
      BY SMTT(30) DEF Started
    <3> QED
      BY Zenon, <1>1, <1>4, <2>4, <3>1 DEF Primitive
  <2>5. CASE Opened(w, n, c, v) \/ Quoted(w, n, c, v) \/ Spelled(w, c, v) \/ Damaged(w, c, v)
    BY Zenon, <2>5 DEF Opened, Quoted, Spelled, Damaged, Within
  <2> QED
    BY Zenon, <1>5, <2>1, <2>2, <2>3, <2>4, <2>5 DEF Wrote
<1> QED
  BY ZenonT(30), <1>1, <1>4, <1>5

(* A step of the writer adds a character, or ends a primitive. *)
LEMMA DocWritten ==
  ASSUME InBounds, TInv, DocInv, Write
  PROVE  /\ DocInv' /\ pc = "read" /\ UNCHANGED <<jsmn, reader>>
         /\ \/ \E c : js' = Append(js, c)
            \/ js' = js /\ expect = "primitive" /\ expect' # "primitive"
<1>1. PICK h : Recorded(h, js, Now)
  BY Zenon DEF TInv
<1>2. Len(js) \in Nat /\ Len(js) \in 0 .. Len(js)
  BY DEF InBounds, JsmnTypeOK
<1>3. Shape(Now)
  BY Zenon, <1>1, <1>2 DEF Recorded
<1>4. /\ pc = "read" /\ UNCHANGED <<jsmn, reader>>
      /\ \/ \E c : js' = Append(js, c) /\ Wrote(Now, Len(js), c, Now')
         \/ js' = js /\ expect = "primitive" /\ Ended(Now, from, Len(js), Now')
  BY Zenon, <1>3, WriteStep
<1>5. Now.expect = expect /\ Now.from = from /\ Now.ref = ref
  BY DEF Now
<1>6. (Now').expect = expect' /\ (Now').ref = ref'
  BY DEF Now
<1>7. from \in Nat
  BY Zenon, <1>3, <1>5 DEF Shape
<1>8. Tree(Now')
  <2>1. ASSUME expect = "primitive", Ended(Now, from, Len(js), Now') PROVE Tree(Now')
    <3>1. Now.expect \in {"value", "item", "primitive"}
      BY <1>5, <2>1
    <3> QED
      BY Zenon, <1>2, <1>3, <1>7, <2>1, <3>1, EndedTree DEF DocInv
  <2> QED
    BY Zenon, <1>2, <1>3, <1>4, <2>1, TreeGrows DEF DocInv
<1>9. expect' = "end" => ref' # <<>>
  BY Zenon, <1>2, <1>3, <1>4, <1>5, <1>6, NotEmpty DEF DocInv
<1>10. Ended(Now, from, Len(js), Now') => expect' # "primitive"
  BY <1>6 DEF Ended, After
<1> QED
  BY Zenon, <1>4, <1>8, <1>9, <1>10 DEF DocInv

(* The text is part of a tree in every state. *)
LEMMA WellFormed == Spec => []DocInv
<1>1. Init => DocInv
  <2> SUFFICES ASSUME Init PROVE DocInv
    OBVIOUS
  <2>1. expect = "value" /\ stack = <<>> /\ key = 0 /\ ref = <<>>
    BY DEF Init
  <2>2. Now.expect = "value" /\ Now.stack = <<>> /\ Now.key = 0 /\ Now.ref = <<>>
    BY <2>1 DEF Now
  <2>3. Placed(Now) /\ Pending(Now) = 1
    BY <2>2 DEF Placed, Pending
  <2>4. Balance(<<>>, [t \in 0 .. 0 |-> 1], 1)
    BY DEF Balance
  <2> QED
    BY Zenon, <2>1, <2>2, <2>3, <2>4 DEF DocInv, Tree, Balanced
<1>2. InBounds /\ TInv /\ DocInv /\ [Next]_vars => DocInv'
  <2> SUFFICES ASSUME InBounds, TInv, DocInv, [Next]_vars PROVE DocInv'
    OBVIOUS
  <2>1. CASE Write
    BY Zenon, <2>1, DocWritten
  <2>2. CASE UNCHANGED doc
    BY <2>2 DEF doc, DocInv, Now
  <2>3. ASSUME Read \/ Done \/ UNCHANGED vars PROVE UNCHANGED doc
    <3>1. CASE Parsing
      <4>1. js' = js
        BY Zenon, <3>1, ParseFrame DEF Parsing
      <4> QED
        BY <3>1, <4>1 DEF Parsing, doc
    <3>2. CASE \/ ReadChunk \/ Dump \/ Exit \/ CallOnce \/ PrintStats \/ Estimate
               \/ Done \/ UNCHANGED vars
      BY Zenon, <3>2 DEF ReadChunk, Dump, Exit, CallOnce, PrintStats, Estimate, Done, vars
    <3> QED
      BY Zenon, <2>3, <3>1, <3>2 DEF Read
  <2> QED
    BY Zenon, <2>1, <2>2, <2>3 DEF Next
<1> QED
  BY <1>1, <1>2, StaysInBounds, Traced, PTL DEF Spec

(* The tokens of a whole text are balanced. *)
LEMMA WholeText ==
  ASSUME InBounds, TInv, DocInv, expect = "end"
  PROVE  ref \in Seq(Token) /\ ref # <<>> /\ Balanced(ref, 0)
<1>1. PICK h : Recorded(h, js, Now)
  BY Zenon DEF TInv
<1>2. Len(js) \in 0 .. Len(js)
  BY DEF InBounds, JsmnTypeOK
<1>3. Shape(Now)
  BY Zenon, <1>1, <1>2 DEF Recorded
<1>4. Now.expect = "end" /\ Now.ref = ref
  BY SMTT(30) DEF Now
<1>5. ref \in Seq(Token) /\ Now.key = 0
  BY <1>3, <1>4 DEF Shape
<1>6. ref # <<>> /\ Pending(Now) = 0
  BY Zenon, <1>4, <1>5 DEF DocInv, Pending
<1> QED
  BY Zenon, <1>4, <1>5, <1>6 DEF DocInv, Tree

(* jsondump has read no more than there is, ends a call inside a primitive *)
(* only if a chunk was cut there, and has printed a whole text before it   *)
(* reads again.                                                            *)
DumpInv ==
  /\ got \in 0 .. Len(js)
  /\ prog = "dump" /\ ~cut /\ got = Len(js) => expect # "primitive"
  /\ prog = "dump" /\ ~cut /\ expect = "end" /\ got = Len(js) /\ pc \notin {"parse", "exit_3"} =>
       /\ out = [what |-> "dump", tokens |-> [i \in 1 .. Len(ref) |-> i]]
       /\ eof_expected /\ pc # "exit_2"

(* The writer adds to what jsondump has not read yet. *)
LEMMA DumpWritten ==
  ASSUME InBounds, TInv, DocInv, DumpInv, Write
  PROVE  DumpInv'
<1>1. /\ pc = "read" /\ UNCHANGED <<jsmn, reader>>
      /\ \/ \E c : js' = Append(js, c)
         \/ js' = js /\ expect = "primitive" /\ expect' # "primitive"
  BY Zenon, DocWritten
<1>2. prog' = prog /\ pc' = pc /\ got' = got /\ cut' = cut
  BY <1>1 DEF reader
<1>3. js \in Seq(Chars) /\ got \in 0 .. Len(js)
  BY DEF InBounds, JsmnTypeOK, DumpInv
<1>4. CASE \E c : js' = Append(js, c)
  <2>1. Len(js') = Len(js) + 1 /\ Len(js) \in Nat
    <3>1. PICK c : js' = Append(js, c)
      BY <1>4
    <3>2. Len(Append(js, c)) = Len(js) + 1
      BY Zenon, <1>3, LongerText
    <3> QED
      BY <1>3, <3>1, <3>2
  <2>2. got' \in 0 .. Len(js') /\ got' # Len(js')
    BY <1>2, <1>3, <2>1
  <2> QED
    BY Zenon, <2>2 DEF DumpInv
<1>5. CASE js' = js /\ expect = "primitive" /\ expect' # "primitive"
  <2>1. ~(prog' = "dump" /\ ~cut' /\ got' = Len(js'))
    BY Zenon, <1>2, <1>5 DEF DumpInv
  <2>2. got' \in 0 .. Len(js')
    BY <1>2, <1>3, <1>5
  <2> QED
    BY Zenon, <2>1, <2>2 DEF DumpInv
<1> QED
  BY Zenon, <1>1, <1>4, <1>5

(* When jsondump prints a whole text, its tokens are balanced, so that it  *)
(* visits each of them once.                                               *)
LEMMA DumpRead ==
  ASSUME InBounds, TInv, DocInv, DumpInv, Read
  PROVE  DumpInv'
<1>1. js \in Seq(Chars) /\ Len(js) \in Nat /\ Len(js) \in 0 .. Len(js)
  BY DEF InBounds, JsmnTypeOK
<1>2. CASE ReadChunk
  <2>1. prog' = prog /\ got' = Len(js') /\ js' = js /\ expect' = expect /\ pc' = "parse"
          /\ cut' = (cut \/ expect = "primitive")
    BY <1>2 DEF ReadChunk, doc
  <2> QED
    BY Zenon, <1>1, <2>1 DEF DumpInv
<1>3. CASE Dump
  <2>1. prog = "dump" /\ pc = "parse" /\ mode = "idle" /\ ~null
    BY <1>3 DEF Dump, TInv
  <2>2. CASE UNCHANGED <<doc, reader>>
    BY <2>2 DEF doc, reader, DumpInv
  <2>3. CASE /\ r \in {INVAL, PART}
             /\ UNCHANGED <<doc, jsmn, prog, got, cut, eof_expected, out>>
    <3>1. ~cut => expect # "end"
      <4>1. ~cut => (r = INVAL => expect = "damaged") /\ (r = PART => expect # "end")
        BY Zenon, <2>1 DEF TInv, TokensMatch
      <4> QED
        BY <2>3, <4>1
    <3>2. js' = js /\ expect' = expect /\ prog' = prog /\ got' = got /\ cut' = cut
      BY <2>3 DEF doc
    <3> QED
      BY Zenon, <3>1, <3>2 DEF DumpInv
  <2>4. CASE /\ r >= 0 /\ out' = [what |-> "dump", tokens |-> Dumped] /\ eof_expected' = TRUE
             /\ pc' = "read" /\ UNCHANGED <<doc, jsmn, prog, got, cut>>
    <3>1. js' = js /\ expect' = expect /\ ref' = ref /\ prog' = prog /\ got' = got /\ cut' = cut
      BY <2>4 DEF doc
    <3>2. ~cut => tokens = ref
      <4>1. r # NOMEM
        BY <2>4 DEF NOMEM
      <4> QED
        BY Zenon, <2>1, <4>1 DEF TInv, TokensMatch
    <3>3. ~cut /\ expect = "end" => Dumped = [i \in 1 .. Len(ref) |-> i]
      <4> SUFFICES ASSUME ~cut, expect = "end" PROVE Dumped = [i \in 1 .. Len(ref) |-> i]
        OBVIOUS
      <4>1. ref \in Seq(Token) /\ Balanced(ref, 0)
        BY Zenon, WholeText
      <4> QED
        BY Zenon, <3>2, <4>1, DumpsAll DEF Dumped
    <3>4. /\ got' \in 0 .. Len(js')
          /\ prog' = "dump" /\ ~cut' /\ got' = Len(js') => expect' # "primitive"
      BY Zenon, <3>1 DEF DumpInv
    <3>5. pc' # "exit_2" /\ eof_expected'
      BY <2>4
    <3>6. ~cut' /\ expect' = "end" =>
            out' = [what |-> "dump", tokens |-> [i \in 1 .. Len(ref') |-> i]]
      BY <2>4, <3>1, <3>3
    <3> QED
      BY Zenon, <3>4, <3>5, <3>6 DEF DumpInv
  <2> QED
    BY Zenon, <1>3, <2>2, <2>3, <2>4 DEF Dump
<1>4. CASE Exit
  <2>1. /\ js' = js /\ expect' = expect /\ ref' = ref /\ prog' = prog /\ got' = got /\ cut' = cut
        /\ eof_expected' = eof_expected /\ out' = out
    BY <1>4 DEF Exit, doc
  <2>2. CASE pc' = "exit_3"
    BY Zenon, <2>1, <2>2 DEF DumpInv
  <2>3. CASE pc = "read" /\ pc' = IF eof_expected THEN "exit_0" ELSE "exit_2"
    <3>1. pc \notin {"parse", "exit_3"} /\ (eof_expected => pc' # "exit_2")
      BY <2>3
    <3> QED
      BY Zenon, <2>1, <3>1 DEF DumpInv
  <2> QED
    BY Zenon, <1>4, <2>2, <2>3 DEF Exit
<1>5. CASE CallOnce
  <2>1. prog' # "dump" /\ got' = Len(js') /\ js' = js
    BY Zenon, <1>5 DEF CallOnce, doc
  <2> QED
    BY <1>1, <2>1 DEF DumpInv
<1>6. CASE PrintStats \/ Estimate
  <2>1. prog' # "dump" /\ got' = got /\ js' = js
    BY <1>6 DEF PrintStats, Estimate, doc
  <2> QED
    BY <2>1 DEF DumpInv
<1>7. CASE Parsing
  <2>1. js' = js
    BY Zenon, <1>7, ParseFrame DEF Parsing
  <2>2. UNCHANGED <<expect, ref, reader>>
    BY <1>7 DEF Parsing
  <2> QED
    BY <2>1, <2>2 DEF reader, DumpInv
<1> QED
  BY Zenon, <1>2, <1>3, <1>4, <1>5, <1>6, <1>7 DEF Read

(* For every complete text, however it was cut into chunks outside of      *)
(* primitives, jsondump prints every token once, in order, and does not    *)
(* exit with 2.                                                            *)
THEOREM DumpsTokens == Spec => []DumpsWhole
<1>1. Init => DumpInv
  BY DEF Init, DumpInv
<1>2. InBounds /\ TInv /\ DocInv /\ DumpInv /\ [Next]_vars => DumpInv'
  <2> SUFFICES ASSUME InBounds, TInv, DocInv, DumpInv, [Next]_vars PROVE DumpInv'
    OBVIOUS
  <2>1. CASE Done \/ UNCHANGED vars
    BY <2>1 DEF Done, vars, doc, reader, DumpInv
  <2> QED
    BY Zenon, <2>1, DumpWritten, DumpRead DEF Next
<1>3. DumpInv => DumpsWhole
  BY DEF DumpInv, DumpsWhole
<1> QED
  BY <1>1, <1>2, <1>3, StaysInBounds, Traced, WellFormed, PTL DEF Spec

(* raft_print_stats parses once, from the start, with an array: what       *)
(* jsmn_parse returns is the number of tokens in it.                       *)
StatsInv ==
  prog = "stats" =>
    /\ ~null /\ ~cut
    /\ pc = "read" => tokens = <<>>
    /\ pc = "parse" /\ mode # "idle" => count = Len(tokens)
    /\ pc = "parse" /\ mode = "idle" /\ r >= 0 => r = Len(tokens)
    /\ PrintsStats

(* jsmn_parse counts the tokens it adds, *)
Counting ==
  /\ mode # "idle" => count = Len(tokens)
  /\ mode = "idle" /\ r >= 0 => r = Len(tokens)

(* an error is not a number of tokens, *)
LEMMA FailCounts ==
  ASSUME NEW error \in {NOMEM, INVAL, PART}, NEW p, Fail(error, p)
  PROVE  Counting'
<1>1. mode' = "idle" /\ r' = error
  BY DEF Fail
<1>2. ~(error >= 0)
  BY DEF NOMEM, INVAL, PART
<1> QED
  BY Zenon, <1>1, <1>2 DEF Counting

(* and a call that goes on has counted them, *)
LEMMA GoCounts ==
  ASSUME NEW p, NEW m \in {"main", "string", "primitive"}, Go(p, m), count' = Len(tokens')
  PROVE  Counting'
<1>1. mode' = m /\ m # "idle"
  BY DEF Go
<1> QED
  BY Zenon, <1>1 DEF Counting

(* counting a child leaves the number of tokens alone, *)
LEMMA CountsOne ==
  ASSUME NEW toks \in Seq(Token), NEW tok, toksuper \in 0 .. Len(toks)
  PROVE  Len(Count(Append(toks, tok))) = Len(toks) + 1
<1> DEFINE new == Append(toks, tok)
<1>1. new \in Seq(Token \cup {tok}) /\ Len(new) = Len(toks) + 1 /\ Len(toks) \in Nat
  OBVIOUS
<1> HIDE DEF new
<1>2. Len([new EXCEPT ![toksuper].size = @ + 1]) = Len(new)
  BY <1>1
<1>3. Len(Count(new)) = Len(new)
  BY Zenon, <1>2 DEF Count
<1> QED
  BY Zenon, <1>1, <1>3 DEF new

(* a string or primitive is one token, *)
LEMMA LeafCounts ==
  ASSUME InBounds, ~null, count = Len(tokens), NEW type, NEW first, NEW next,
         Leaf(type, first, next)
  PROVE  Counting'
<1>1. CASE Len(tokens) >= num
  <2>1. Fail(NOMEM, start) /\ NOMEM \in {NOMEM, INVAL, PART}
    BY Zenon, <1>1 DEF Leaf
  <2> QED
    BY Zenon, <2>1, FailCounts
<1>2. CASE ~(Len(tokens) >= num)
  <2>1. /\ tokens' = Count(Append(tokens, NewToken(type, first, pos)))
        /\ count' = count + 1 /\ Go(next, "main") /\ "main" \in {"main", "string", "primitive"}
    BY Zenon, <1>2 DEF Leaf
  <2>2. Len(tokens') = Len(tokens) + 1
    BY <2>1, CountsOne DEF InBounds, JsmnTypeOK
  <2>3. count' = Len(tokens')
    BY Zenon, <2>1, <2>2
  <2> QED
    BY Zenon, <2>1, <2>3, GoCounts
<1> QED
  BY <1>1, <1>2

(* and so for every step of jsmn_parse. *)
LEMMA ParseCounts ==
  ASSUME InBounds, ~null, Counting, Parse
  PROVE  Counting'
<1>1. mode # "idle"
  BY Zenon, ParseFrame
<1>2. count = Len(tokens) /\ count \in Nat /\ tokens \in Seq(Token)
  BY Zenon, <1>1 DEF Counting, InBounds, JsmnTypeOK
<1>3. NOMEM \in {NOMEM, INVAL, PART} /\ INVAL \in {NOMEM, INVAL, PART} /\ PART \in {NOMEM, INVAL, PART}
  OBVIOUS
<1>4. /\ "main" \in {"main", "string", "primitive"} /\ "string" \in {"main", "string", "primitive"}
      /\ "primitive" \in {"main", "string", "primitive"}
  OBVIOUS
<1>5. CASE Begin
  <2>1. CASE Len(tokens) >= num
    BY Zenon, <1>3, <1>5, <2>1, FailCounts DEF Begin
  <2>2. CASE ~(Len(tokens) >= num)
    <3>1. /\ tokens' = Append(Count(tokens), NewToken(TypeOf(Char), pos, -1))
          /\ count' = count + 1 /\ Go(pos + 1, "main")
      BY Zenon, <1>5, <2>2 DEF Begin
    <3>2. Count(tokens) \in Seq(Token) /\ Len(Count(tokens)) = Len(tokens)
      BY Zenon, CountKeeps DEF InBounds, JsmnTypeOK
    <3>3. Len(tokens') = Len(tokens) + 1
      BY <3>1, <3>2
    <3>4. count' = Len(tokens')
      BY Zenon, <1>2, <3>1, <3>3
    <3> QED
      BY Zenon, <1>4, <3>1, <3>4, GoCounts
  <2> QED
    BY <2>1, <2>2
<1>6. CASE End
  <2> DEFINE i == Last(Open)
  <2>1. CASE Open = {} \/ tokens[i].type # TypeOf(Char)
    BY Zenon, <1>3, <1>6, <2>1, FailCounts DEF End
  <2>2. CASE ~(Open = {} \/ tokens[i].type # TypeOf(Char))
    <3>1. tokens' = [tokens EXCEPT ![i].end = pos + 1] /\ Go(pos + 1, "main") /\ count' = count
      BY <1>6, <2>2 DEF End
    <3> HIDE DEF i
    <3>2. Len(tokens') = Len(tokens)
      BY <1>2, <3>1
    <3>3. count' = Len(tokens')
      BY Zenon, <1>2, <3>1, <3>2
    <3> QED
      BY Zenon, <1>4, <3>1, <3>3, GoCounts
  <2> QED
    BY Zenon, <2>1, <2>2
<1>7. ASSUME NEW p, NEW m \in {"main", "string", "primitive"}, Go(p, m), tokens' = tokens, count' = count
      PROVE  Counting'
  <2>1. count' = Len(tokens')
    BY Zenon, <1>2, <1>7
  <2> QED
    BY Zenon, <1>7, <2>1, GoCounts
<1>8. CASE Blank \/ Colon \/ Comma
  <2>1. Go(pos + 1, "main") /\ tokens' = tokens /\ count' = count
    BY <1>8 DEF Blank, Colon, Comma
  <2> QED
    BY ZenonT(30), <1>4, <1>7, <2>1
<1>9. CASE LeafBegin
  <2>1. (Go(pos + 1, "string") \/ Go(pos, "primitive")) /\ tokens' = tokens /\ count' = count
    BY <1>9 DEF LeafBegin
  <2> QED
    BY Zenon, <1>4, <1>7, <2>1
<1>10. CASE StringQuote \/ PrimitiveEnd
  BY Zenon, <1>2, <1>10, LeafCounts DEF StringQuote, PrimitiveEnd
<1>11. CASE StringChar
  <2>1. Go(pos + 1, "string") /\ tokens' = tokens /\ count' = count
    BY <1>11 DEF StringChar
  <2> QED
    BY Zenon, <1>4, <1>7, <2>1
<1>12. CASE StringEscape
  <2>1. \/ Fail(INVAL, start)
        \/ (Go(pos + 2, "string") \/ Go(DigitsEnd, "string")) /\ tokens' = tokens /\ count' = count
    BY <1>12 DEF StringEscape
  <2> QED
    BY Zenon, <1>3, <1>4, <1>7, <2>1, FailCounts
<1>13. CASE StringPart
  BY Zenon, <1>3, <1>13, FailCounts DEF StringPart
<1>14. CASE PrimitiveChar
  <2>1. \/ Fail(INVAL, start)
        \/ Go(pos + 1, "primitive") /\ tokens' = tokens /\ count' = count
    BY <1>14 DEF PrimitiveChar
  <2> QED
    BY Zenon, <1>3, <1>4, <1>7, <2>1, FailCounts
<1>15. CASE Return
  <2>1. mode' = "idle" /\ tokens' = tokens /\ (r' = PART \/ r' = count)
    BY <1>15 DEF Return, parser
  <2>2. ~(PART >= 0)
    BY DEF PART
  <2> QED
    BY Zenon, <1>2, <2>1, <2>2 DEF Counting
<1> QED
  BY Zenon, <1>5, <1>6, <1>8, <1>9, <1>10, <1>11, <1>12, <1>13, <1>14, <1>15 DEF Parse

-----------------------------------------------------------------------------
(* An object of strings has two tokens for each member. *)
LEMMA FlatObject ==
  ASSUME NEW toks \in Seq(Token), toks # <<>>, Balanced(toks, 0), toks[1].type = "OBJECT",
         \A i \in 2 .. Len(toks) : toks[i].type = "STRING"
  PROVE  Len(toks) - 1 = 2 * Pairs(toks)
<1> DEFINE N == Len(toks)
           n == toks[1].size
<1>1. PICK P : Balance(toks, P, 0)
  BY Zenon DEF Balanced
<1>2. N \in Nat /\ N >= 1 /\ toks[1] \in Token
  OBVIOUS
<1>3. n \in Nat
  BY <1>2 DEF Token
<1>4. /\ P \in [0 .. N -> Nat] /\ P[0] = 1 /\ P[N] = 0
      /\ \A t \in 1 .. N : P[t] = P[t - 1] + Items(toks[t]) - 1
  BY Zenon, <1>1 DEF Balance
<1>5. Items(toks[1]) = 2 * n
  BY Zenon DEF Items
<1>6. \A t \in 2 .. N : Items(toks[t]) = 0
  BY DEF Items
<1> DEFINE T == {t \in 1 .. N : P[t] # 2 * n - (t - 1)}
<1> HIDE DEF N, n
<1>7. T = {}
  <2> SUFFICES ASSUME T # {} PROVE FALSE
    OBVIOUS
  <2>1. T \in SUBSET Nat
    BY <1>2
  <2>2. PICK x \in T : \A y \in T : x <= y
    BY Zenon, <2>1, MinExists
  <2>3. x \in 1 .. N /\ P[x] # 2 * n - (x - 1)
    BY Zenon, <2>2
  <2>4. P[x] = P[x - 1] + Items(toks[x]) - 1
    BY Zenon, <1>4, <2>3
  <2>5. CASE x = 1
    <3>1. P[1] = P[0] + 2 * n - 1
      <4>1. 1 - 1 = 0
        OBVIOUS
      <4> QED
        BY Zenon, <1>5, <2>4, <2>5, <4>1
    <3> QED
      BY <1>3, <1>4, <2>3, <2>5, <3>1
  <2>6. CASE x # 1
    <3>1. x \in 2 .. N /\ x - 1 \in 1 .. N /\ ~(x <= x - 1)
      BY <1>2, <2>3, <2>6
    <3>2. P[x - 1] = 2 * n - (x - 1 - 1)
      BY Zenon, <2>2, <3>1
    <3>3. Items(toks[x]) = 0
      BY Zenon, <1>6, <3>1
    <3> QED
      BY SMTT(30), <1>3, <2>3, <2>4, <3>1, <3>2, <3>3
  <2> QED
    BY <2>5, <2>6
<1>8. N = 2 * n + 1
  <2>1. N \in 1 .. N
    BY <1>2
  <2>2. P[N] = 2 * n - (N - 1)
    BY Zenon, <1>7, <2>1
  <2> QED
    BY <1>2, <1>3, <1>4, <2>2
<1>9. ASSUME NEW k \in 1 .. n
      PROVE  ~(toks[2 * k].type # "STRING" \/ toks[2 * k + 1].type # "STRING")
  <2>1. 2 * k \in 2 .. N /\ 2 * k + 1 \in 2 .. N
    BY <1>3, <1>8
  <2> QED
    BY Zenon, <2>1 DEF N
<1>10. Pairs(toks) = n
  BY Zenon, <1>9 DEF Pairs, n
<1>11. N - 1 = 2 * n
  BY <1>3, <1>8
<1> QED
  BY Zenon, <1>10, <1>11 DEF N

(* At the end of raft_print_stats *)
LEMMA Printed ==
  ASSUME InBounds, TInv, DocInv, StatsInv, PrintStats
  PROVE  PrintsStats'
<1>1. prog = "stats" /\ pc = "parse" /\ mode = "idle" /\ UNCHANGED <<doc, jsmn>>
  BY DEF PrintStats
<1>2. ~null /\ ~cut /\ (r >= 0 => r = Len(tokens))
  BY Zenon, <1>1 DEF StatsInv
<1>3. /\ r # NOMEM => tokens = ref
      /\ r = NOMEM => Len(ref) > num
      /\ r = INVAL => expect = "damaged"
      /\ r = PART => expect # "end"
  BY Zenon, <1>1, <1>2 DEF TInv, TokensMatch
<1>4. expect' = expect /\ ref' = ref /\ num' = num
  BY <1>1 DEF doc, jsmn, args
<1> SUFFICES ASSUME expect = "end", ref[1].type = "OBJECT",
                    \A i \in 2 .. Len(ref) : ref[i].type = "STRING"
             PROVE  IF Len(ref) <= num
                    THEN out' = [what |-> "stats", tokens |-> [i \in 1 .. Len(ref) - 1 |-> i + 1]]
                    ELSE out'.what = "error"
  BY Zenon, <1>4 DEF PrintsStats
<1>5. ref \in Seq(Token) /\ ref # <<>> /\ Balanced(ref, 0)
  BY Zenon, WholeText
<1>6. Len(ref) - 1 = 2 * Pairs(ref)
  BY Zenon, <1>5, FlatObject
<1>7. Len(ref) \in Nat /\ Len(ref) >= 1
  BY <1>5
<1>8. num \in Nat /\ Len(tokens) <= num /\ r \in Nat \cup {NOMEM, INVAL, PART}
  BY DEF InBounds, JsmnTypeOK
<1>9. CASE Len(ref) <= num
  <2>1. r # NOMEM /\ r # INVAL /\ r # PART
    <3>1. ~(Len(ref) > num) /\ expect # "damaged"
      BY <1>7, <1>8, <1>9
    <3> QED
      BY Zenon, <1>3, <3>1
  <2>2. r \in Nat /\ tokens = ref
    BY <1>3, <1>8, <2>1
  <2>3. ~(r < 1)
    BY <1>2, <1>7, <2>2
  <2>4. out' = [what |-> "stats", tokens |-> [i \in 1 .. 2 * Pairs(tokens) |-> i + 1]]
    BY Zenon, <2>2, <2>3 DEF PrintStats
  <2>5. 2 * Pairs(tokens) = Len(ref) - 1
    BY Zenon, <1>6, <2>2
  <2>6. out' = [what |-> "stats", tokens |-> [i \in 1 .. Len(ref) - 1 |-> i + 1]]
    BY Zenon, <2>4, <2>5
  <2> QED
    BY Zenon, <1>9, <2>6
<1>10. CASE ~(Len(ref) <= num)
  <2>1. r = NOMEM
    BY SMTT(30), <1>3, <1>7, <1>8, <1>10
  <2>2. r < 1
    BY <2>1 DEF NOMEM
  <2>3. out' = [what |-> "error", tokens |-> <<>>]
    BY Zenon, <2>2 DEF PrintStats
  <2>4. out'.what = "error"
    BY <2>3
  <2> QED
    BY Zenon, <1>10, <2>4
<1> QED
  BY SMTT(30), <1>9, <1>10

(* The steps of the programs, of which only those of raft_print_stats      *)
(* matter                                                                  *)
LEMMA StatsRead ==
  ASSUME InBounds, TInv, DocInv, StatsInv, Read
  PROVE  StatsInv'
<1> SUFFICES ASSUME prog' = "stats" PROVE StatsInv'
  BY Zenon DEF StatsInv
<1>1. CASE ReadChunk \/ Dump \/ Exit \/ Estimate
  <2>1. prog' = prog /\ prog # "stats"
    BY Zenon, <1>1 DEF ReadChunk, Dump, Exit, Estimate, reader
  <2> QED
    BY Zenon, <2>1
<1>2. CASE CallOnce
  <2>1. /\ prog = "stats" /\ pc = "read" /\ pc' = "parse" /\ cut' = cut
        /\ \E n \in StatsTokens : jsmn_parse(n, FALSE)
    <3>1. prog' = prog /\ cut' = cut /\ pc = "read" /\ pc' = "parse"
      BY Zenon, <1>2 DEF CallOnce
    <3>2. prog # "count"
      BY <3>1
    <3> QED
      BY Zenon, <1>2, <3>1, <3>2 DEF CallOnce
  <2>2. mode' = "main" /\ null' = FALSE /\ count' = 0 /\ tokens' = tokens
    BY <2>1 DEF jsmn_parse, parser
  <2>3. tokens = <<>> /\ ~cut
    BY Zenon, <2>1 DEF StatsInv
  <2>4. count' = Len(tokens')
    BY <2>2, <2>3
  <2>5. pc' # "read" /\ mode' # "idle" /\ pc' # "exit_0"
    BY <2>1, <2>2
  <2> QED
    BY Zenon, <2>1, <2>2, <2>3, <2>4, <2>5 DEF StatsInv, PrintsStats
<1>3. CASE PrintStats
  <2>1. pc' = "exit_0" /\ null' = null /\ cut' = cut /\ prog = "stats"
    BY <1>3 DEF PrintStats, jsmn, args
  <2>2. pc' # "read" /\ pc' # "parse"
    BY <2>1
  <2>3. PrintsStats'
    BY Zenon, <1>3, Printed
  <2> QED
    BY Zenon, <2>1, <2>2, <2>3 DEF StatsInv
<1>4. CASE Parsing
  <2>1. prog' = prog /\ pc = "parse" /\ pc' = pc /\ cut' = cut /\ Parse
    BY <1>4 DEF Parsing, reader
  <2>2. null' = null /\ mode # "idle"
    BY Zenon, <2>1, ParseFrame
  <2>3. ~null /\ ~cut /\ Counting
    BY Zenon, <2>1, <2>2 DEF StatsInv, Counting
  <2>4. Counting'
    BY Zenon, <2>1, <2>3, ParseCounts
  <2>5. pc' # "read" /\ pc' # "exit_0"
    BY <2>1
  <2> QED
    BY Zenon, <2>1, <2>2, <2>3, <2>4, <2>5 DEF StatsInv, Counting, PrintsStats
<1> QED
  BY Zenon, <1>1, <1>2, <1>3, <1>4 DEF Read

(* raft_print_stats prints all pairs of every object of strings, in order, *)
(* or reports an error if the object has more tokens than its array,       *)
(* whatever the size of the array.                                         *)
THEOREM PrintsPairs == Spec => []PrintsStats
<1>1. Init => StatsInv
  BY DEF Init, jsmn_init, StatsInv, PrintsStats
<1>2. InBounds /\ TInv /\ DocInv /\ StatsInv /\ [Next]_vars => StatsInv'
  <2> SUFFICES ASSUME InBounds, TInv, DocInv, StatsInv, [Next]_vars PROVE StatsInv'
    OBVIOUS
  <2>1. CASE Write
    <3>1. pc = "read" /\ UNCHANGED <<jsmn, reader>>
      BY Zenon, <2>1, DocWritten
    <3>2. prog' = prog /\ pc' = "read" /\ null' = null /\ cut' = cut /\ tokens' = tokens
      BY <3>1 DEF jsmn, parser, args, reader
    <3>3. pc' # "parse" /\ pc' # "exit_0"
      BY Zenon, <3>2
    <3> QED
      BY Zenon, <3>1, <3>2, <3>3 DEF StatsInv, PrintsStats
  <2>2. CASE Done \/ UNCHANGED vars
    <3>1. UNCHANGED <<doc, jsmn, reader>>
      BY <2>2 DEF Done, vars
    <3> QED
      BY <3>1 DEF doc, jsmn, parser, args, reader, StatsInv, PrintsStats
  <2> QED
    BY Zenon, <2>1, <2>2, StatsRead DEF Next
<1>3. StatsInv => PrintsStats
  BY DEF StatsInv, PrintsStats
<1> QED
  BY <1>1, <1>2, <1>3, StaysInBounds, Traced, WellFormed, PTL DEF Spec

=============================================================================
