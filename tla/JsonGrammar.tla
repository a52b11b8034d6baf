---------------------------- MODULE JsonGrammar ----------------------------
(***************************************************************************)
(* What JSON text is, defined without a parser's position: a text is cut   *)
(* into tokens, and the tokens into the containers they stand in.  As the  *)
(* parser does, it allows a comma behind the last item of a container.     *)
(***************************************************************************)
EXTENDS JsonText

\* The tokens of a text: strings become "string", white space is left out.
\* A string that is not ended, or holds a control character, is "junk".
Lexed(text) ==
  LET lex[n \in 0 .. Len(text)] ==
        IF n = 0 THEN [inside |-> FALSE, tokens |-> <<>>]
        ELSE LET before == lex[n - 1]
                 unit   == text[n]
                 Then(inside, token) ==
                   [inside |-> inside, tokens |-> Append(before.tokens, token)]
             IN  IF before.inside
                 THEN CASE unit = "quote"    -> Then(FALSE, "string")
                        [] unit \in Control  -> Then(TRUE, "junk")
                        [] OTHER             -> before
                 ELSE CASE unit = "quote"    -> [before EXCEPT !.inside = TRUE]
                        [] unit \in White    -> before
                        [] OTHER             -> Then(FALSE, unit)
      all == lex[Len(text)]
  IN  IF all.inside THEN Append(all.tokens, "junk") ELSE all.tokens

Values == {"scalar", "string", "container"}

\* The tokens of one container, in which those inside of it are tokens.
FlatArray(items) ==
  \A i \in DOMAIN items : IF i % 2 = 1 THEN items[i] \in Values ELSE items[i] = ","

FlatObject(items) ==
  /\ \A i \in DOMAIN items :
       CASE i % 4 = 1 -> items[i] = "string"
         [] i % 4 = 2 -> items[i] = ":"
         [] i % 4 = 3 -> items[i] \in Values
         [] i % 4 = 0 -> items[i] = ","
  /\ Len(items) % 4 \in {0, 3}

\* A container, as its opening bracket and the tokens behind it, that the given
\* bracket closes.
Complete(container, bracket) ==
  \/ container[1] = "[" /\ bracket = "]" /\ FlatArray(Tail(container))
  \/ container[1] = "{" /\ bracket = "}" /\ FlatObject(Tail(container))

\* The containers that are open behind some tokens, outermost first; the first
\* one is the text itself.
OpenIn(tokens) ==
  LET open[n \in 0 .. Len(tokens)] ==
        IF n = 0 THEN << <<>> >>
        ELSE LET before == open[n - 1]
                 token  == tokens[n]
                 depth  == Len(before)
                 Put(c, d, item) == [SubSeq(c, 1, d) EXCEPT ![d] = Append(@, item)]
             IN  CASE token \in {"{", "["} -> Append(before, <<token>>)
                   [] token \in {"}", "]"} ->
                        IF depth > 1 /\ Complete(before[depth], token)
                        THEN Put(before, depth - 1, "container")
                        ELSE Put(before, depth, "junk")
                   [] OTHER -> Put(before, depth, token)
  IN  open[Len(tokens)]

\* A text that the parser takes to be complete: containers one after another,
\* the last of which may also be a scalar.
IsJson(text) ==
  LET open == OpenIn(Lexed(text))
      last == Len(open[1])
  IN  /\ Len(open) = 1 /\ last > 0
      /\ open[1][last] \in Values
      /\ \A i \in 1 .. last - 1 : open[1][i] = "container"

\* The brackets that are open behind a part of a text, as the parser keeps
\* them: the bits of an integer, behind a 1.
Path(text) ==
  LET open == OpenIn(Lexed(text))
      bits[n \in 1 .. Len(open)] ==
        IF n = 1 THEN 1
        ELSE 2 * bits[n - 1] + (IF open[n][1] = "{" THEN Object ELSE Array)
  IN  bits[Len(open)]

\* How many containers are open behind a part of a text.
Nesting(text) == Len(OpenIn(Lexed(text))) - 1
=============================================================================
