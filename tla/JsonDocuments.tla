--------------------------- MODULE JsonDocuments ---------------------------
(***************************************************************************)
(* Well-formed documents for the small instances of the JSON modules: all  *)
(* sequences of events up to a size, and their texts in several styles.    *)
(***************************************************************************)
EXTENDS JsonText, FiniteSets, SequencesExt

Leaf == {[is |-> "scalar", name |-> <<>>], [is |-> "string", name |-> <<>>]}
Open(is) == <<[is |-> is, name |-> <<>>]>>
End == <<[is |-> "end", name |-> <<>>]>>
Named(v, n) == [v EXCEPT ![1].name = n]

\* The events of a value, and of a sequence of values, of n events each, with
\* members of the given names.
RECURSIVE Value(_, _), Items(_, _), Members(_, _)
Value(n, names) ==
  IF n = 1 THEN {<<leaf>> : leaf \in Leaf}
  ELSE {Open("array") \o items \o End : items \in Items(n - 2, names)}
         \cup {Open("object") \o items \o End : items \in Members(n - 2, names)}
Items(n, names) ==
  IF n = 0 THEN {<<>>}
  ELSE UNION {{v \o rest : v \in Value(k, names), rest \in Items(n - k, names)} : k \in 1 .. n}
Members(n, names) ==
  IF n = 0 THEN {<<>>}
  ELSE UNION {{Named(v, name) \o rest : v \in Value(k, names), name \in names,
                                        rest \in Members(n - k, names)} : k \in 1 .. n}

\* The text of the i-th event, and what separates it from the next.
InObject(es, i) ==
  LET Level(j) == Cardinality({k \in 1 .. j : es[k].is \in Containers})
                    - Cardinality({k \in 1 .. j : es[k].is = "end"})
      around == {j \in 1 .. i - 1 : /\ es[j].is \in Containers
                                    /\ \A k \in j .. i - 1 : Level(k) >= Level(j)}
  IN  around # {} /\ es[CHOOSE j \in around : \A k \in around : k <= j].is = "object"

Bracket(es, i) ==
  CASE es[i].is = "object" -> "{" [] es[i].is = "array" -> "["
    [] es[i].is = "end" -> IF InObject(es, i) THEN "}" ELSE "]"

EventText(es, i, white, trailing) ==
  LET name  == IF InObject(es, i) /\ es[i].is # "end"
               THEN <<"quote">> \o es[i].name \o <<"quote">> \o white \o <<":">> \o white
               ELSE <<>>
      value == CASE es[i].is = "scalar" -> <<"scalar">>
                 [] es[i].is = "string" -> <<"quote", "[", "quote">>
                 [] OTHER -> <<Bracket(es, i)>>
      comma == IF /\ es[i].is \notin Containers /\ i < Len(es)
                  /\ trailing \/ es[i + 1].is # "end"
               THEN <<",">> \o white ELSE <<>>
  IN  name \o value \o white \o comma

Upto(es, n, white, trailing) ==
  white \o FlattenSeq([i \in 1 .. n |-> EventText(es, i, white, trailing)])

Document(es, white, trailing) ==
  [text |-> Upto(es, Len(es), white, trailing),
   events |-> [i \in DOMAIN es |->
                 [is |-> es[i].is, name |-> es[i].name,
                  end |-> Len(Upto(es, i, white, trailing)) + 1]]]
=============================================================================
