----------------------------- MODULE MCPathScopes -----------------------------
EXTENDS PathScopes
SomeLetters == {"a", "b", "m"}
a == <<"a">>
b == <<"b">>
ab == <<"a", "b">>
aab == <<"a", "a", "b">>
agents == <<"m">>
SomeNames == {a, b, ab, <<"a", "a">>, <<"b", "a">>, aab}
SomePaths ==
  {<<n>> : n \in SomeNames \cup {agents}}
    \cup {<<a, a>>, <<a, ab>>, <<b, a>>, <<a, b, a>>}
RulesFile == <<agents>>
Texts == {<<>>, a, b, ab}
UpTo(set, n) == UNION {[1..k -> set] : k \in 1..n}
OneStar == <<<<>>, <<>>>>
Patterns == UpTo(Texts, 3) \ {<<<<>>>>}
Steps == {<<a>>, OneStar, AnyDepth, <<a, <<>>>>}
SomeScopes ==
  {<<pattern>> : pattern \in Patterns}
    \cup [1..2 -> Steps] \cup {<<<<a>>, AnyDepth, <<a>>>>, <<AnyDepth, <<b>>, AnyDepth>>}
SomeRules == {<<<<a>>, AnyDepth>>, <<<<<<>>, b>>>>}
=============================================================================
