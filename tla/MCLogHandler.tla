---------------------------- MODULE MCLogHandler ----------------------------
(* A record's or a handler's attributes: plain ones, an empty string, the    *)
(* zero attribute, a group with a key, one without, and one inside another.  *)
EXTENDS LogHandler

String(k, v) == [key |-> k, kind |-> "string", value |-> v, members |-> <<>>]
Group(k, ms) == [key |-> k, kind |-> "group", value |-> "", members |-> ms]

A == String(<<"a">>, "x")
EmptyString == String(<<"b">>, "")
Inline == Group(<<>>, <<EmptyString, A>>)
Nested == Group(<<"b">>, <<NoAttr, A, Inline>>)

MCAttr == {NoAttr, A, EmptyString, Inline, Nested}
MCNesting == [a \in MCAttr |-> IF a = Nested THEN 2 ELSE IF a = Inline THEN 1 ELSE 0]
MCAttrList == {<<A>>, <<NoAttr, EmptyString, Nested>>}
MCLevel == {-4, 6}

=============================================================================
