------------------------------- MODULE MCHpack -------------------------------
(***************************************************************************)
(* Inputs for the model-checking run of Hpack: a static table of the real  *)
(* length, so that the first dynamic indices, 62 and 63, lie on both sides *)
(* of the boundary of the 6-bit prefix.                                    *)
(***************************************************************************)
EXTENDS Hpack

Field(n, v) == [name |-> n, value |-> v, sensitive |-> FALSE]
Secret(h)   == [h EXCEPT !.sensitive = TRUE]

StaticTable == [i \in 1 .. 61 |-> CASE i = 2 -> Field(":method", "GET")
                                     [] i = 3 -> Field(":method", "POST")
                                     [] OTHER -> Field("other", "")]

Lengths == [s \in {":method", "GET", "POST", "PUT", "other", "", "x", "y", "a", "b"} |->
               CASE s \in {"", "GET", "POST", "PUT"} -> 0
                 [] s \in {":method", "other"} -> 2
                 [] OTHER -> 1]

RequestFields  == {Field(":method", "POST"), Field(":method", "PUT"), Field("x", "a"),
                   Field("x", "b"), Field("y", "a"), Secret(Field("x", "a"))}
ResponseFields == {Field("x", "a"), Field("y", "b")}
=============================================================================
