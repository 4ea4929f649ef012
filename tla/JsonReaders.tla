----------------------------- MODULE JsonReaders -----------------------------
(***************************************************************************)
(* The programs that read JSON with jsmn, and the document they read:      *)
(*                                                                         *)
(*   dump    example/jsondump.c, which reads its input in chunks, parses   *)
(*           after each, and doubles its token array on JSMN_ERROR_NOMEM;  *)
(*   stats   raft_print_stats (raft_c_if.cc), one call with a fixed array; *)
(*   count   a call without an array, which estimates the tokens needed.   *)
(*                                                                         *)
(* The document comes from outside (standard input, the Raft process).  A  *)
(* writer produces every JSON text of up to MaxLen characters, one by one, *)
(* and notes in ref the tokens it has.  It may stop early, or damage the   *)
(* text in a way that cannot be taken for JSON.                            *)
(***************************************************************************)
EXTENDS Jsmn

CONSTANTS MaxLen,         \* bound on the document
          MaxDepth,       \* bound on its nesting
          StatsTokens     \* sizes of tokens[] in raft_print_stats: {64}

ASSUME ReaderConstants ==
  MaxLen \in Nat /\ MaxDepth \in Nat /\ StatsTokens \subseteq Nat

VARIABLES expect,         \* what may be written next
          stack, key,     \* containers being written; key of this member
          from, escape,   \* start of this string or primitive; escape to finish
          ref,            \* the tokens of the text
          prog, pc,       \* the reader and its step
          got,            \* length of what it has read
          cut,            \* has a chunk ended inside a primitive?
          eof_expected,
          out             \* what it printed or returned

doc == <<js, expect, stack, key, from, escape, ref>>
jsmn == <<parser, args, mode, start, count, r>>
reader == <<prog, pc, got, cut, eof_expected, out>>
vars == <<doc, jsmn, reader>>

Nothing == [what |-> "nothing", tokens |-> <<>>]

Init ==
  /\ js = <<>> /\ expect = "value" /\ stack = <<>> /\ key = 0
  /\ from = 0 /\ escape = <<>> /\ ref = <<>>
  /\ jsmn_init /\ num = 0 /\ null = FALSE
  /\ prog \in {"dump", "stats", "count"} /\ pc = "read" /\ got = 0 /\ cut = FALSE
  /\ eof_expected = FALSE /\ out = Nothing

-----------------------------------------------------------------------------
(* The writer *)

Put(char) ==
  /\ pc = "read" /\ Len(js) < MaxLen
  /\ js' = Append(js, char)
  /\ UNCHANGED <<jsmn, reader>>

Top == stack[Len(stack)]
Parent == IF key # 0 THEN key ELSE IF stack = <<>> THEN 0 ELSE Top

(* ref with one more token, which its parent counts *)
Child(type, first, end) ==
  LET new == Append(ref, NewToken(type, first, end))
  IN IF Parent = 0 THEN new ELSE [new EXCEPT ![Parent].size = @ + 1]

After(open) == IF open = <<>> THEN "end" ELSE "separator"

WriteOpen(char) ==
  /\ expect \in {"value", "item"} /\ Len(stack) < MaxDepth
  /\ Put(char)
  /\ ref' = Child(TypeOf(char), Len(js), -1)
  /\ stack' = Append(stack, Len(ref) + 1) /\ key' = 0
  /\ expect' = IF char = "lbrace" THEN "member" ELSE "item"
  /\ UNCHANGED <<from, escape>>

WriteClose(char) ==
  /\ expect \in {"separator", "item", "member"}
  /\ TypeOf(char) = ref[Top].type
  /\ Put(char)
  /\ ref' = [ref EXCEPT ![Top].end = Len(js) + 1]
  /\ stack' = SubSeq(stack, 1, Len(stack) - 1) /\ key' = 0
  /\ expect' = After(stack')
  /\ UNCHANGED <<from, escape>>

WriteComma ==
  /\ expect = "separator"
  /\ Put("comma")
  /\ expect' = IF ref[Top].type = "ARRAY" THEN "value" ELSE "key"
  /\ key' = 0 /\ UNCHANGED <<stack, from, escape, ref>>

WriteColon ==
  /\ expect = "colon" /\ Put("colon")
  /\ expect' = "value" /\ UNCHANGED <<stack, key, from, escape, ref>>

WriteBlank ==
  /\ expect \notin {"string", "keystring", "primitive", "damaged"}
  /\ js # <<>> => js[Len(js)] # "blank"
  /\ Put("blank")
  /\ UNCHANGED <<expect, stack, key, from, escape, ref>>

WriteString ==
  \/ /\ expect \in {"value", "item", "member", "key"}
     /\ Put("quote")
     /\ expect' = IF expect \in {"member", "key"} THEN "keystring" ELSE "string"
     /\ from' = Len(js) + 1 /\ UNCHANGED <<stack, key, escape, ref>>
  \/ /\ expect \in {"string", "keystring"} /\ escape = <<>>
     /\ \E char \in {"x", "rbrace", "backslash"} :
          /\ Put(char)
          /\ escape' \in IF char # "backslash" THEN {<<>>}
                         ELSE {<<"quote">>, <<"backslash">>, <<"u", "b", "b", "b", "b">>}
     /\ UNCHANGED <<expect, stack, key, from, ref>>
  \/ /\ escape # <<>>
     /\ Put(Head(escape)) /\ escape' = Tail(escape)
     /\ UNCHANGED <<expect, stack, key, from, ref>>
  \/ /\ expect \in {"string", "keystring"} /\ escape = <<>>
     /\ Put("quote")
     /\ ref' = Child("STRING", from, Len(js))
     /\ IF expect = "string" THEN expect' = After(stack) /\ key' = 0
        ELSE expect' = "colon" /\ key' = Len(ref) + 1
     /\ UNCHANGED <<stack, from, escape>>

(* Whether a primitive has ended is not seen before the next character. *)
WritePrimitive ==
  \/ /\ expect \in {"value", "item"} /\ Put("x")
     /\ expect' = "primitive" /\ from' = Len(js)
     /\ UNCHANGED <<stack, key, escape, ref>>
  \/ /\ expect = "primitive" /\ Put("x")
     /\ UNCHANGED <<expect, stack, key, from, escape, ref>>
  \/ /\ expect = "primitive" /\ pc = "read"
     /\ ref' = Child("PRIMITIVE", from, Len(js))
     /\ expect' = After(stack) /\ key' = 0
     /\ UNCHANGED <<js, stack, from, escape, jsmn, reader>>

(* One wrong character: a bracket that closes nothing or not what is open, *)
(* a byte no primitive has, or a wrong one in an escape.                   *)
Damage ==
  /\ \/ /\ expect \in {"separator", "item", "member", "end"}
        /\ \E char \in {"rbrace", "rbracket"} :
             (stack # <<>> => TypeOf(char) # ref[Top].type) /\ Put(char)
     \/ expect \in {"value", "primitive"} /\ Put("ctl")
     \/ escape # <<>> /\ Put("x")
  /\ expect' = "damaged" /\ escape' = <<>>
  /\ UNCHANGED <<stack, key, from, ref>>

Write ==
  /\ expect # "damaged"
  /\ \/ \E char \in {"lbrace", "lbracket"} : WriteOpen(char)
     \/ \E char \in {"rbrace", "rbracket"} : WriteClose(char)
     \/ WriteComma \/ WriteColon \/ WriteBlank \/ WriteString \/ WritePrimitive
     \/ Damage

-----------------------------------------------------------------------------
(* The readers *)

(* jsondump's main: another chunk has been read, and js reallocated *)
ReadChunk ==
  /\ prog = "dump" /\ pc = "read" /\ got < Len(js)
  /\ got' = Len(js) /\ pc' = "parse"
  /\ cut' = (cut \/ expect = "primitive")
  /\ jsmn_parse(IF got = 0 THEN 2 ELSE num, FALSE)
  /\ UNCHANGED <<doc, prog, eof_expected, out>>

(* The calls dump() makes for the children of a token: a member is two. *)
Items(tok) ==
  CASE tok.type = "OBJECT" -> 2 * tok.size
    [] tok.type = "ARRAY" -> tok.size
    [] OTHER -> 0

(* The visits of dump() at token t: the tokens printed for the k items     *)
(* from there on with count c, if d has them for the tokens behind t.      *)
(* Token 0 stands for what is behind the tokens that were found.           *)
Visits(toks, t, d, c, k) ==
  IF k = 0 \/ c = 0 THEN <<>>
  ELSE IF t > Len(toks) THEN <<0>>
  ELSE LET first == <<t>> \o d[t + 1][c][Items(toks[t])]
       IN first \o d[t + Len(first)][c - Len(first)][k - 1]

dump(toks) ==
  LET d[t \in Nat \ {0}] == [c \in Int |-> [k \in Nat |-> Visits(toks, t, d, c, k)]]
  IN d[1][Len(toks)][1]

(* Fault: only as many tokens as this call has found are printed. *)
DumpedByCall == dump(SubSeq(tokens, 1, r))

Dumped == dump(tokens)

(* Fault: the array keeps its size. *)
Regrown(n) == n

Grown(n) == 2 * n

(* jsondump's main after jsmn_parse: again with twice the tokens, another  *)
(* chunk, or dump what there is.                                           *)
Dump ==
  /\ prog = "dump" /\ pc = "parse" /\ mode = "idle"
  /\ \/ /\ r = NOMEM
        /\ jsmn_parse(Grown(num), FALSE)
        /\ UNCHANGED <<doc, reader>>
     \/ /\ r \in {INVAL, PART}
        /\ pc' = "read" /\ UNCHANGED <<doc, jsmn, prog, got, cut, eof_expected, out>>
     \/ /\ r >= 0
        /\ out' = [what |-> "dump", tokens |-> Dumped]
        /\ eof_expected' = TRUE /\ pc' = "read"
        /\ UNCHANGED <<doc, jsmn, prog, got, cut>>

(* Leaves main: at the end of the input, or when an allocation fails. *)
Exit ==
  /\ prog = "dump"
  /\ \/ /\ pc = "read" /\ got = Len(js)
        /\ pc' = IF eof_expected THEN "exit_0" ELSE "exit_2"
     \/ /\ \/ pc = "read" /\ (got = 0 \/ got < Len(js))
           \/ pc = "parse" /\ mode = "idle" /\ r = NOMEM
        /\ pc' = "exit_3"
  /\ UNCHANGED <<doc, jsmn, prog, got, cut, eof_expected, out>>

(* raft_print_stats, or the estimate, is called with the whole text. *)
CallOnce ==
  /\ pc = "read"
  /\ expect # "primitive"
  /\ got' = Len(js) /\ pc' = "parse"
  /\ \/ prog = "stats" /\ \E n \in StatsTokens : jsmn_parse(n, FALSE)
     \/ prog = "count" /\ jsmn_parse(0, TRUE)
  /\ UNCHANGED <<doc, prog, cut, eof_expected, out>>

(* Fault: the last pair is left out. *)
PairsButLast(toks) == toks[1].size - 1

(* The pairs of strings raft_print_stats prints before it stops. *)
Pairs(toks) ==
  LET Stops(k) == toks[2 * k].type # "STRING" \/ toks[2 * k + 1].type # "STRING"
      n == toks[1].size
  IN IF \E k \in 1 .. n : Stops(k)
     THEN (CHOOSE k \in 1 .. n : Stops(k) /\ \A i \in 1 .. k - 1 : ~Stops(i)) - 1
     ELSE n

PrintStats ==
  /\ prog = "stats" /\ pc = "parse" /\ mode = "idle"
  /\ out' = IF r < 1 \/ tokens[1].type # "OBJECT" THEN [what |-> "error", tokens |-> <<>>]
            ELSE [what |-> "stats", tokens |-> [i \in 1 .. 2 * Pairs(tokens) |-> i + 1]]
  /\ pc' = "exit_0" /\ UNCHANGED <<doc, jsmn, prog, got, cut, eof_expected>>

Estimate ==
  /\ prog = "count" /\ pc = "parse" /\ mode = "idle"
  /\ pc' = "exit_0" /\ UNCHANGED <<doc, jsmn, prog, got, cut, eof_expected, out>>

Parsing == pc = "parse" /\ Parse /\ UNCHANGED <<expect, stack, key, from, escape, ref, reader>>

Done == pc \in {"exit_0", "exit_2", "exit_3"} /\ UNCHANGED vars

Read == ReadChunk \/ Dump \/ Exit \/ CallOnce \/ PrintStats \/ Estimate \/ Parsing

Next == Write \/ Read \/ Done

Spec == Init /\ [][Next]_vars

(* Each reader is a single thread that blocks only in fread, and the input *)
(* comes or ends.                                                          *)
FairSpec == Spec /\ WF_vars(Read) /\ WF_vars(Write)

-----------------------------------------------------------------------------

(* However the text was cut into chunks (but not inside a primitive, which *)
(* then becomes several tokens), and however often the array was too small *)
(* (jsmn_parse, called again by jsondump.c): a call that does not run out  *)
(* of tokens has found the tokens of the text, with their bounds and       *)
(* numbers of children.  It says JSMN_ERROR_INVAL only of a damaged text,  *)
(* and JSMN_ERROR_PART only of one that is not complete.  The number       *)
(* returned without an array is the size an array for the text needs.      *)
TokensMatch ==
  mode = "idle" /\ pc = "parse" /\ ~cut =>
    IF null THEN expect = "end" => r = Len(ref)
    ELSE /\ r # NOMEM => tokens = ref
         /\ r = NOMEM => Len(tokens) = num /\ Len(ref) > num
         /\ r = INVAL => expect = "damaged"
         /\ r = PART => expect # "end"

(* What jsondump has printed when the text is complete is every token      *)
(* once, in order, and it then exits with 0.                               *)
DumpsWhole ==
  prog = "dump" /\ ~cut /\ expect = "end" /\ got = Len(js) /\ pc \notin {"parse", "exit_3"} =>
    /\ out = [what |-> "dump", tokens |-> [i \in 1 .. Len(ref) |-> i]]
    /\ pc # "exit_2"

(* raft_print_stats prints all pairs of an object of strings, or, when it  *)
(* has more tokens than fit, nothing.                                      *)
PrintsStats ==
  prog = "stats" /\ pc = "exit_0" /\ expect = "end" /\ ref[1].type = "OBJECT"
    /\ (\A i \in 2 .. Len(ref) : ref[i].type = "STRING") =>
      IF Len(ref) <= num
      THEN out = [what |-> "stats", tokens |-> [i \in 1 .. Len(ref) - 1 |-> i + 1]]
      ELSE out.what = "error"

(* Every reader comes to its end: no call loops, and the array that is     *)
(* doubled after JSMN_ERROR_NOMEM is large enough in the end.              *)
Terminates == <>(pc \in {"exit_0", "exit_2", "exit_3"})

=============================================================================
