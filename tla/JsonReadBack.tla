---------------------------- MODULE JsonReadBack ----------------------------
(***************************************************************************)
(* A text as the JSON parser tells it, to compare with what was written.   *)
(***************************************************************************)
EXTENDS JsonText

\* What the parser makes of a text in n calls: the events, each with the name of
\* a member and the contents of a string, and whether it is done then.
ReadBack(text, n) ==
  LET Told(p) ==
        IF p.result = "ERROR_ITEM_NOT_FOUND"
        THEN [is |-> "end", name |-> <<>>, value |-> <<>>]
        ELSE [is    |-> p.kind,
              name  |-> View(text, p.name),
              value |-> IF p.kind = "string" THEN View(text, p.string) ELSE <<>>]
      read[i \in 1 .. n] ==
        IF i = 1 THEN LET p == ParseToken(text, Parser(1, 1))
                      IN  [p |-> p, events |-> <<Told(p)>>]
        ELSE LET before == read[i - 1]
                 p == SkipItem(text, Parser(before.p.at, before.p.stack))
             IN  IF before.p.result \notin Fine THEN before
                 ELSE [p |-> p, events |-> Append(before.events, Told(p))]
      all == read[n]
  IN  [events |-> all.events,
       done   |-> Done(text, Parser(all.p.at, all.p.stack)).result]
=============================================================================
