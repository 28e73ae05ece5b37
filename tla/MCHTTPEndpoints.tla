-------------------------- MODULE MCHTTPEndpoints --------------------------
(* One request has any body around the limits of one byte, declared or      *)
(* chunked, plain or compressed to any size, broken or not, or is refused   *)
(* by one of the checks of the headers; another is valid.  One scrape has   *)
(* any headers and another is plain.  The families are selected by a prefix *)
(* that is included and a name that is excluded; the snapshot of the first  *)
(* request is too large to be encoded.                                      *)
EXTENDS HTTPEndpoints

CONSTANTS r1, r2, s1, s2

JSON == [type |-> "json", parameters |-> {}]
Snapshot == [type |-> "snapshot", parameters |-> {"version=1"}]

Plain == [path |-> TRUE, post |-> TRUE, media |-> JSON, encoding |-> "identity", declared |-> -1,
          wire |-> 1, decoded |-> 0, intact |-> TRUE]

AnyBody ==
  {[Plain EXCEPT !.wire = n] : n \in 0..3}
  \cup {[Plain EXCEPT !.wire = n, !.declared = n, !.media = Snapshot] : n \in 0..3}
  \cup {[Plain EXCEPT !.encoding = "gzip", !.wire = n, !.decoded = d, !.intact = i] :
          n \in {1, 2}, d \in 0..2, i \in BOOLEAN}
  \cup {[Plain EXCEPT !.path = FALSE], [Plain EXCEPT !.post = FALSE],
        [Plain EXCEPT !.media.type = "other"], [Plain EXCEPT !.media.parameters = {"version=1"}],
        [Plain EXCEPT !.encoding = "other"]}

MCBodies == [r \in {r1, r2} |-> IF r = r1 THEN AnyBody ELSE {Plain}]

Item(n, q) == [name |-> n, quality |-> q]

Get == [get |-> TRUE, accept |-> <<>>, encoding |-> <<>>]

MCHeaders ==
  [s \in {s1, s2} |-> IF s = s2 THEN {Get} ELSE
    {Get, [Get EXCEPT !.get = FALSE], [Get EXCEPT !.accept = <<Item("text/html", 1)>>],
     [Get EXCEPT !.encoding = <<Item("gzip", 0), Item("*", 0)>>],
     [Get EXCEPT !.encoding = <<Item("identity", 0), Item("gzip", 1)>>]}]

MCFamilies ==
  [r \in {r1, r2} |-> IF r = r1 THEN {<<"a">>, <<"a", "y">>} ELSE {<<"a">>, <<"a", "x">>, <<"b">>}]
MCInclude == {[kind |-> "prefix", value |-> <<"a">>]}
MCExclude == {[kind |-> "name", value |-> <<"a", "x">>]}
=============================================================================
