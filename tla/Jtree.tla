-------------------------------- MODULE Jtree --------------------------------
(***************************************************************************)
(* jtree, the JSON reader under every response and every request: a vector *)
(* of nodes filled while the text is scanned once.  Objects and arrays     *)
(* link their elements from head to tail, an object's elements are key and *)
(* value pairs, and node 0 stands for "not there".  The text is a sequence *)
(* of lexemes: brackets, keys (strings before a colon) and values.         *)
(***************************************************************************)
EXTENDS Integers, Sequences, SequencesExt

\* Node i of the code is nv[i + 1]; h and t are its union: head and tail of a
\* container, key and value of a pair, position and size of a text.
Node(type, h, t) == [type |-> type, next |-> 0, h |-> h, t |-> t]

Empty == [nv |-> <<Node("obj", 0, 0)>>, st |-> <<>>, key |-> 0]

new_node(j, type, h, t) == [j EXCEPT !.nv = Append(@, Node(type, h, t))]

\* The number of the node made last.
LastNode(j) == Len(j.nv) - 1

\* Mutant: the tail of the container is not moved on.
add_arr_stuck(j, val) ==
    LET top == Last(j.st) + 1
        obj == j.nv[top]
    IN  IF obj.t # 0
        THEN [j EXCEPT !.nv[obj.t + 1].next = val]
        ELSE [j EXCEPT !.nv[top].h = val, !.nv[top].t = val]

add_arr(j, val) ==
    LET top == Last(j.st) + 1
        obj == j.nv[top]
    IN  IF obj.t # 0
        THEN [j EXCEPT !.nv[obj.t + 1].next = val, !.nv[top].t = val]
        ELSE [j EXCEPT !.nv[top].h = val, !.nv[top].t = val]

\* A value of an object is wrapped together with the key read before it.
add(j, val) ==
    IF j.st = <<>> THEN j
    ELSE IF j.key # 0
         THEN LET k == new_node(j, "keyval", j.key, val)
              IN  [add_arr(k, LastNode(k)) EXCEPT !.key = 0]
         ELSE add_arr(j, val)

\* One lexeme, at place pos of the text.
Lexeme(j, x, pos) ==
    CASE x.lex \in {"obj", "arr"} ->
            LET k == new_node(j, x.lex, 0, 0)
            IN  [add(k, LastNode(k)) EXCEPT !.st = Append(@, LastNode(k))]
      [] x.lex = "end" -> [j EXCEPT !.st = Front(@)]
      [] x.lex = "key" -> LET k == new_node(j, "val", pos, 1) IN [k EXCEPT !.key = LastNode(k)]
      [] x.lex = "val" -> LET k == new_node(j, "val", pos, 1) IN add(k, LastNode(k))

parse(text) ==
    LET scan[n \in 0 .. Len(text)] ==
            IF n = 0 THEN Empty ELSE Lexeme(scan[n - 1], text[n], n)
    IN  scan[Len(text)]

is_valid(j) == Len(j.nv) > 1 /\ j.st = <<>>

\* The elements of container i in order, along the next links.
Elements(j, i) ==
    LET walk[n \in 0 .. Len(j.nv)] ==
            IF n = 0 THEN <<j.nv[i + 1].h>>
            ELSE LET w == walk[n - 1]
                 IN  IF Last(w) = 0 THEN w ELSE Append(w, j.nv[Last(w) + 1].next)
    IN  SelectSeq(walk[Len(j.nv)], LAMBDA e : e # 0)

\* The value of a key in an object, or 0: the elements are searched up to the
\* first one that is not a pair.
find_val(j, text, obj, name) ==
    LET es == Elements(j, obj)
        stop == SelectInSeq(es, LAMBDA e : \/ j.nv[e + 1].type # "keyval"
                                           \/ text[j.nv[j.nv[e + 1].h + 1].h].name = name)
    IN  IF stop = 0 \/ j.nv[es[stop] + 1].type # "keyval" THEN 0 ELSE j.nv[es[stop] + 1].t
=============================================================================
