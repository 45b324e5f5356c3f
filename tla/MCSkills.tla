------------------------------ MODULE MCSkills ------------------------------
(* Values of the constants of Skills for the model checker: fields whose   *)
(* values are numbers, numbers in text, "nan", null, words in either case, *)
(* flags and lists, rows with and without an external id, bounds and       *)
(* equalities on them.                                                     *)
EXTENDS Skills, TLC

Val(type, num, word, lower, items) ==
    [type |-> type, num |-> num, word |-> word, lower |-> lower, items |-> items]
Number(n) == Val("number", n, "", TRUE, <<>>)
NumText(n, w) == Val("text", n, w, TRUE, <<>>)
Word(w, lower) == Val("text", NoNumber, w, lower, <<>>)
Flag == Val("bool", 1, "", TRUE, <<>>)
List(items) == Val("list", NoNumber, "", TRUE, items)

Row(source, ext, kind, data) ==
    [source |-> source, ext |-> ext, kind |-> kind, data |-> data,
     words |-> IF "zone" \in DOMAIN data THEN {"palermo"} ELSE {}]

Uploads == {
    Row("api", "x", "flat", [price |-> Number(1), zone |-> Word("palermo", TRUE)]),
    Row("api", "x", "flat", [price |-> NumText(2, "2")]),
    Row(None, "x", "flat", [price |-> Number(2), zone |-> Word("palermo", FALSE)]),
    Row(None, None, "plot", [price |-> Word("ask", TRUE), lift |-> Flag]),
    Row(None, None, "plot", [price |-> Null, size |-> NumText(NaN, "nan"),
                             with |-> List(<<"pool", "gym">>)])}

Filter(op, field, v) == [op |-> op, field |-> field, val |-> v]
Bound(op, v) == Filter(op, "price", v)

Search(filters, needle, kind, limit) ==
    [filters |-> filters, needle |-> needle, kind |-> kind, limit |-> limit]

Asked == {
    Search(<<Bound("max", Number(1))>>, None, None, -1),
    Search(<<Bound("min", Number(2)), Bound("max", Number(2))>>, None, None, 0),
    Search(<<Filter("eq", "zone", Word("palermo", TRUE))>>, None, "flat", 9),
    Search(<<Filter("eq", "lift", Number(1)), Bound("min", Word("ask", TRUE))>>, None, None, 1),
    Search(<<Filter("eq", "with", List(<<"pool">>)), Filter("min", "size", Number(1))>>,
           None, None, 1),
    Search(<<Bound("max", Null)>>, None, None, 1),
    Search(<<Bound("max", Number(1))>>, "palermo", None, 1)}

Count(e, h, l, u, b, p) ==
    [empty |-> e, high |-> h, low |-> l, urgent |-> u, both |-> b, budget |-> p]
MessageCounts ==
    {Count(TRUE, 0, 0, 0, 0, 0), Count(FALSE, 0, 2, 0, 0, 1), Count(FALSE, 1, 2, 0, 0, 0),
     Count(FALSE, 0, 2, 0, 0, 0), Count(FALSE, 0, 0, 0, 1, 0), Count(FALSE, 0, 0, 0, 0, 0),
     Count(FALSE, 1, 0, 1, 0, 0), Count(FALSE, 0, 0, 0, 0, 1)}

Interchangeable == Permutations(Tenants)
=============================================================================
